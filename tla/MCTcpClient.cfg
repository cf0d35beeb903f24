\* Delays of 2, 4 and 5, and slices which do not divide the last; the counter's cap
\* is reached.
CONSTANTS
    MaxLines = 4
    MaxChunk = 2
    LineCapacity = 1
    InitialDelay = 1
    MaxDelay = 5
    Healthy = 3
    CounterCap = 3
    Slice = 2
    Durations = {2, 3}
    MaxStreak = 5
SPECIFICATION FairSpec
INVARIANTS
    NothingIsLeftPending
PROPERTIES
    ImplementsClient
    StopIsPrompt
    KeepsMoving
    SpacedByStreak
