\* Up to three mishaps: enough to lose the tail of one message and the head of
\* the next, and to merge the unlabelled lines of two stations.
CONSTANTS
    NoSlot = NoSlot
    Stations <- MCStations
    Slots <- MCSlots
    Airings <- MCAirings
    Decodable <- MCDecodable
    Mishaps = {"lost", "damaged", "unlabelled", "unterminated"}
    MaxMishaps = 3
SPECIFICATION StageSpec
INVARIANTS
    WholeMessagesGetThrough
    StitchNeedsTwoMishaps
CHECK_DEADLOCK FALSE
