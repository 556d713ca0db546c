SPECIFICATION Spec
CONSTANTS
    MaxSessions = 3
INVARIANTS
    NothingOutlives
    OneTerminalUser
    OutcomeRecorded
PROPERTIES
    FailureSurfaces
    LeavingEnds
\* The process may have exited.
CHECK_DEADLOCK FALSE
