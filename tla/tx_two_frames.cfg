CONSTANTS
  f1 = f1
  f2 = f2
  f3 = f3
  l1 = l1
  l2 = l2
  l3 = l3
  c1 = c1
  c2 = c2
  NULL = NULL
  Frames <- ThreeFrames
  Nbls <- TwoNbls
  NBsOf <- TwoInOne
  Calls <- TwoCalls
  Chain <- OneEach
  Ring = 2
  MayFail = FALSE
  Stops <- NoStops
  MaxStops = 0
  Cancelled <- NoNbls
SPECIFICATION Spec
INVARIANTS
  CompletedOnce
CHECK_DEADLOCK FALSE
