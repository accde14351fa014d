SPECIFICATION FairSpec
CONSTANTS
    MaxChanges = 4
    MaxStarts = 3
INVARIANTS ThreadOwnsParts NothingHeldAtRest NoSilentLoss
PROPERTIES QuietScreenCaptured
CHECK_DEADLOCK FALSE
