\* Five lines in chunks of up to two, queues of one and two, two crashes.
CONSTANTS
    MaxLines = 5
    MaxChunk = 2
    Reports <- MCReports
    LineCapacity = 1
    ReportCapacity = 2
    MaxBatch = 2
    MaxCrashes = 2
SPECIFICATION FairSpec
INVARIANTS
    NothingLostOnTheWay
    CleanExitStoresEverything
    ClosedAfterTheLastPush
PROPERTIES
    ImplementsDurableChannel
    SignalEndsTheProgram
    EverythingIsStored
