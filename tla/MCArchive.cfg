SPECIFICATION Spec
CONSTANTS
    Producers = {p1, p2}
    Records <- MCRecords
    w = w
    l = l
    k1 = k1
    k2 = k2
    k3 = k3
    Keys = {k1, k2, k3}
    WatchSources = {w}
    LogSources = {l}
    None = None
    QueueCap = 1
    BatchCap = 2
    BatchBytes = 2
    MaxCursor = 2
    MaxRecordBytes = 4
    MaxAdds = 3
    MaxCrashes = 1
INVARIANTS
    TypeOK
    StoreIsReplay
    NothingAbandoned
PROPERTIES
    NilMeansQueued
    LogCursorsGrow
    ImplementsDurableLog
    AddReturns
    CloseEnds
CHECK_DEADLOCK FALSE
