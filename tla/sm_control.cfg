CONSTANTS
  NoLink = NoLink
  Down = Down
  L10 = L10
  L100 = L100
  LinkStates <- MCLinkStates
  Connected <- MCConnected
  LinkMoves <- Flaps
  MayStall = TRUE
  PowerPhases <- PausedOrRunning
  TxRing = 2
  MaxTx = 3
  MaxRx = 2
  MaxFired = 3
SPECIFICATION FairSpec
INVARIANTS
  NoUnexpectedTransition
  ControlInv
  StartedWhenConnected
  
PROPERTIES
  ImplementsNdis
  ResetCompletes
  
CHECK_DEADLOCK FALSE
