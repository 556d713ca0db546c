SPECIFICATION Safety
CONSTANTS
    Scripts <- OneRun
    MaxRestarts = 0
    Second = 2
    Streams = 1
    QueueCap = 2
    MaxFaults = 1
    Generations = {1}
INVARIANTS
    FinishedLogsComplete
CHECK_DEADLOCK FALSE
