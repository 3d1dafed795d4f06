SPECIFICATION FairSpec
CONSTANTS
    c1 = c1
    c2 = c2
    Cpus = {c1, c2}
    Ring = 2
    MaxNbls = 1
    MaxReceived = 3
    MaxSent = 1
    MaxStops = 1
INVARIANTS
  NeverDeaf
  NoEventLost
PROPERTIES
  ReceivedIsServed
