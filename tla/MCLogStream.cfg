SPECIFICATION Spec
CONSTANTS
    Scripts <- TwoRuns
    MaxRestarts = 1
    Second = 2
    Streams = 1
    QueueCap = 2
    MaxFaults = 1
    Generations = {1}
INVARIANTS
    UnarchivedInReach
    RecordsAreLines
PROPERTIES
    RunningLogCaptured
CHECK_DEADLOCK FALSE
