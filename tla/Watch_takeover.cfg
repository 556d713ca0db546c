SPECIFICATION Spec
CONSTANTS
    Processes = {p1, p2}
    Objects = {a}
    Other = Other
    Nobody = Nobody
    BigVersions = {3}
    QueueCap = 2
    MaxVersion = 3
    MaxDisruptions = 2
INVARIANTS
    CursorCovered
    RelistForced
    OneWatcher
PROPERTIES
    EveryChangeSettles
CHECK_DEADLOCK FALSE
