\* Three messages, the clock set once; two threads, two connections, two commits.
CONSTANTS
    s1 = s1 s2 = s2 area1 = area1 area2 = area2
    NoRow = NoRow
    Ships <- MCShips
    OldHistories <- MCOldHistories
    Kinds = {"position", "no position", "voyage", "part A", "part B"}
    Retention = 1
    PruneInterval = 1
    ChunkSize = 1
    MaxBatch = 2
    MaxMessages = 3
    MaxTime = 2
    MaxClockSettings = 1
    Threads = {t1, t2}
    Requests = {area1, area2}
    Statements = {"in_area"}
    StatementOf <- MCStatementOf
    Nobody = nobody
    Nothing = nothing
    MaxRows = 2
    MaxCommits = 1
    KeepAliveMax = 1
    MaxConnections = 2
SPECIFICATION DatabaseSpec
CHECK_DEADLOCK FALSE
INVARIANTS
    LatestAgreesWithHistory
    LatestIsTheLastHeard
    FreshReportsAreKept
    StaticIsTheNewest
    AnswersAreSnapshots
PROPERTY
    EndsAfterTheLastAnswer
