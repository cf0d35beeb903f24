\* Six sentences: an interrupted message followed by one of three fragments.  Six
\* characters on two connections.
CONSTANTS
    k1 = k1
    k2 = k2
    NoKey = NoKey
    Keys <- MCKeys
    Sentences <- MCSentences
    MaxAdds = 6
    Characters = {"x", "CR", "LF"}
    CR = "CR"
    LF = "LF"
    MaxCharacters = 6
    MaxConnections = 2
SPECIFICATION ParsingSpec
INVARIANTS
    ReturnsExactlyTheRuns
    FillBitsOfTheLast
    FramesTheStreams
CHECK_DEADLOCK FALSE
