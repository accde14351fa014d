SPECIFICATION Spec
CONSTANTS
    Clients = {c1, c2}
    Tokens = {k1, k2, k3}
    Daemons = {d1, d2}
    MaxPending = 2
    MaxSignals = 2
    FaultSets <- SomeFaults
    None = None
    Dead = Dead
SYMMETRY Interchangeable
INVARIANTS RemovedNotQueued ClaimedOrQueued ServedByToken OneServer
CHECK_DEADLOCK FALSE
