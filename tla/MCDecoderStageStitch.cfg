\* Two lost lines in a row, which the README says cannot do harm.
CONSTANTS
    NoSlot = NoSlot
    Stations <- MCStations
    Slots <- MCSlots
    Airings <- MCAirings
    Decodable <- MCDecodable
    Mishaps = {"lost"}
    MaxMishaps = 2
SPECIFICATION StageSpec
INVARIANT
    BrokenSequenceDropped
CHECK_DEADLOCK FALSE
