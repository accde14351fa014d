SPECIFICATION FairSpec
CONSTANTS
    MaxFrames = 3
    Waiters = {w1, w2}
    MaxPush = 6
    NULL = NULL
INVARIANTS NoStaleFrame NoLostWakeup
PROPERTIES StopReleasesWaiters ImplementsFifo
CHECK_DEADLOCK FALSE
