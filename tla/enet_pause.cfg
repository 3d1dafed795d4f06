SPECIFICATION FairSpec
CONSTANTS
    c1 = c1
    c2 = c2
    Cpus = {c1}
    Ring = 2
    MaxNbls = 1
    MaxReceived = 4
    MaxSent = 1
    MaxStops = 0

PROPERTIES TxRestarted
