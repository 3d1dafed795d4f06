CONSTANTS
  Phys <- ThreePhys
  Requested <- Everything
  Boots <- ThreeBoots
  Partners <- ThreePartners
  InitCmd <- TwoInitFrames
  MaxPlugs = 3
SPECIFICATION FairSpec
INVARIANTS
  WholeCommands
  LinkIsSound
PROPERTIES
  LostBeforeChanged
  Settles
CHECK_DEADLOCK FALSE
