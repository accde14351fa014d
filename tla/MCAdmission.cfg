SPECIFICATION FairSpec
CONSTANTS
    Peers = {p1, p2}
    Requests <- MCRequests
    FaultSets <- MCFaultSets
INVARIANTS CredentialsLast LoginReleased LoggedInWhenActive
PROPERTY MainThreadReturns
CHECK_DEADLOCK FALSE
