SPECIFICATION Spec
CONSTANTS
    Processes = {p1}
    Objects = {a}
    Other = Other
    Nobody = Nobody
    BigVersions = {2}
    QueueCap = 2
    MaxVersion = 3
    MaxDisruptions = 0
PROPERTIES
    SmallChangesCaptured
CHECK_DEADLOCK FALSE
