CONSTANTS
    empty = empty bodo = bodo bodoBlank = bodoBlank bergen = bergen place = place
    Texts <- MCTexts
    Empty = empty
    Trimmed <- MCTrimmed
    Active <- MCActive
    Results <- MCResults
    Failed = failed
    NoText = noText
    Ships = {s1, s2}
    None = none
    MaxBehind = 1
    MaxGone = 1
SPECIFICATION FairSpec
PROPERTIES
    ResultsChosenOnEnterOnly
    EscapeBacksOut
    TrackOnlyGrows
    EnterIsHonoured
