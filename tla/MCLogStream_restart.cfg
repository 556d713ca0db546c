SPECIFICATION Safety
CONSTANTS
    Scripts <- TwoRuns
    MaxRestarts = 1
    Second = 2
    Streams = 2
    QueueCap = 2
    MaxFaults = 0
    Generations = {1}
INVARIANTS
    NoLineLost
CHECK_DEADLOCK FALSE
