CONSTANTS
  f1 = f1
  f2 = f2
  f3 = f3
  l1 = l1
  l2 = l2
  l3 = l3
  c1 = c1
  c2 = c2
  NULL = NULL
  Frames <- ThreeFrames
  Nbls <- ThreeNbls
  NBsOf <- OneByOne
  Calls <- TwoCalls
  Chain <- TwoThenOne
  Ring = 2
  MayFail = TRUE
  Stops <- Drained
  MaxStops = 2
  Cancelled <- OnlyL2
SPECIFICATION FairSpec
INVARIANTS
  RingSound
  FramesAccounted
  CompletedOnce
PROPERTIES
  SendsComplete
CHECK_DEADLOCK FALSE
