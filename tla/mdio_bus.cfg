CONSTANTS
  d1 = d1
  d2 = d2
  b1 = b1
  None = None
  Devices = {d1, d2}
  Buses = {b1}
  Configs <- MCConfigs
  ListSize = 3
  PrefixLens = {1}
  CmdLens = {2}
  Faults = {"alloc", "thread"}
  Serial = TRUE
  RemoveActive = FALSE
SPECIFICATION FairSpec
INVARIANTS
  FramesConserved
  ResultsMatch
  TimingMet
  BusLifetime
PROPERTIES
  CommandCompletes
  HaltCompletes
  ImplementsDevice
CHECK_DEADLOCK FALSE
