\* Three places, two ranges, two sizes and two animations waiting: about 640,000
\* states.
CONSTANTS
    c1 = c1 c2 = c2 c3 = c3 small = small big = big
    Centres = {c1, c2, c3}
    Ranges <- MCRanges
    Latitude <- MCLatitude
    Sizes = {small, big}
    ShortSide <- MCShortSide
    None = None
    MaxFrames = 2
    ResizesInTime = TRUE
SPECIFICATION MapSpec
INVARIANTS
    HoldsTheView
