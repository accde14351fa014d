SPECIFICATION FairSpec
CONSTANTS
    Null = Null
    NoFile = NoFile
    Files <- MCFiles
    Clis <- MCClis
    MaxSignals = 2
INVARIANTS OptionsAsGiven LateChecksHold ServiceReady ReleasedAtExit
PROPERTY SignalEndsRun
