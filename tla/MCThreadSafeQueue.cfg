\* Two producers and two consumers on a queue of two: both kinds of sleepers,
\* batches that free several slots at once.  No symmetry, as liveness is checked.
CONSTANTS
    Producers = {p1, p2}
    Consumers = {c1, c2}
    Capacity = 2
    MaxBatch = 2
    MaxPushes = 3
SPECIFICATION FairSpec
INVARIANTS
    NoLostWakeup
PROPERTIES
    ImplementsChannel
    CloseReleasesEveryone
    BackpressureReleases
