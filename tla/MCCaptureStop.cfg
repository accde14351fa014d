SPECIFICATION FairSpec
CONSTANTS
    MaxChanges = 2
    MaxStarts = 2
PROPERTIES StopReturns
CHECK_DEADLOCK FALSE
