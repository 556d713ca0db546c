SPECIFICATION Safety
CONSTANTS
    Processes = {p1}
    Objects = {a}
    Other = Other
    Nobody = Nobody
    BigVersions = {}
    QueueCap = 2
    MaxVersion = 5
    MaxDisruptions = 2
INVARIANTS
    EveryGapRecorded
CHECK_DEADLOCK FALSE
