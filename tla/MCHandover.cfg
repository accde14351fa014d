SPECIFICATION FairSpec
CONSTANTS
    Clients = {c1, c2}
    Tokens = {k1, k2}
    Daemons = {d1, d2, d3}
    MaxPending = 2
    MaxSignals = 2
    FaultSets <- NoFaults
    None = None
    Dead = Dead
PROPERTY RedirectedClientServed
CHECK_DEADLOCK FALSE
