CONSTANTS
  Ring = 3
  LowWater = 1
  MaxNbls = 2
  WaitForNdis = TRUE
  MaxReceived = 5
  MaxStops = 2
  NULL = NULL
SPECIFICATION FairSpec
INVARIANTS
  RxAccounted
  InOrder
  NeverStarved
PROPERTIES
  AllServed
CHECK_DEADLOCK FALSE
