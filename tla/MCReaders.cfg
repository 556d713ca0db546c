SPECIFICATION ReadersSpec
CONSTANTS
    Inputs <- MCInputs
    KeyCap = 2
    Interfaces = {"eth0", "wlan0"}
    MaxTime = 4
    MaxStep = 1
    Width = 8
    RecordKinds = {"logs", "events"}
    PageSize = 2
    MaxRecords = 5
    Objects <- MCObjects
INVARIANTS
    ChunksDontMatter
    NeverOverstates
    PagesComplete
    QuietRowsAreHealthy
    GaugesAreFair
\* Everything has been typed, sampled, recorded and read.
CHECK_DEADLOCK FALSE
