SPECIFICATION FairSpec
CONSTANTS
    c1 = c1
    c2 = c2
    Cpus = {c1, c2}
    Ring = 2
    MaxTransfers = 4
    MaxBursts = 2
    MaxRequests = 2
    MaxLocks = 1
    Lifted = {}
INVARIANTS
  CompletedOnce
  
  OnlyOwnTransfers
  ChipSelectFrames

  
CHECK_DEADLOCK FALSE
