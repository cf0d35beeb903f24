CONSTANTS
    OpenTag <- MCOpen
    CloseTag <- MCClose
    Sources <- MCSources
    Malformed = {"-"}
    Tolerance = 1
    Project <- MCProject
    TileDegrees = 2
    Views <- MCViews
    Served = {"coast"}
    Nothing = Nothing
    MaxOrphans = 2
SPECIFICATION FairSpec
CHECK_DEADLOCK FALSE
INVARIANTS
    FindsEveryFeature
    SimplifiedWithinTolerance
    NoGapsAtBoundaries
    CoastIsDrawn
PROPERTY
    LoadsOnceOnline
