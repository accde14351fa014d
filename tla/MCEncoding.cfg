SPECIFICATION FairSpec
CONSTANTS
    Tiles = {t1, t2}
    Colours = {black, white}
    Black = black
    LargeChange = 2
    RefreshInterval = 3
    QueueSize = 1
    None = None
    MaxChanges = 4
    MaxCaps = 1
    MaxFailures = 1
INVARIANTS PreviousIsShown CoarseIsTracked
PROPERTIES PictureSharpens ScreenReachesClient
