CONSTANTS
  NoLink = NoLink
  Down = Down
  L10 = L10
  L100 = L100
  LinkStates <- MCLinkStates
  Connected <- MCConnected
  LinkMoves <- OnlyUp
  MayStall = FALSE
  PowerPhases <- PausedOnly
  TxRing = 2
  MaxTx = 4
  MaxRx = 3
  MaxFired = 3
SPECIFICATION FairSpec
INVARIANTS
  PauseIsQuiescent
PROPERTIES
  PauseCompletes
CHECK_DEADLOCK FALSE
