SPECIFICATION FairSpec
CONSTANTS
    Sessions = {s1, s2}
    FaultSets <- MCFaultSets
INVARIANTS SingleSession ClosedAtMostOnce StreamWhole IdleStreamStopped NoUseAfterRelease
PROPERTIES EndedSessionForgotten DisconnectReturnsIfAnswered
CHECK_DEADLOCK FALSE
