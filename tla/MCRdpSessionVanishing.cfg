SPECIFICATION FairSpec
CONSTANTS
    Sessions = {s1, s2}
    FaultSets <- VanishingClient
PROPERTIES DisconnectReturns
CHECK_DEADLOCK FALSE
