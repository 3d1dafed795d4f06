SPECIFICATION FairSpec
CONSTANTS
    c1 = c1
    c2 = c2
    Cpus = {c1, c2}
    Ring = 2
    MaxTransfers = 2
    MaxBursts = 2
    MaxRequests = 1
    MaxLocks = 1
    Lifted = {}
PROPERTY SecondDpcMayLeave
CHECK_DEADLOCK FALSE
