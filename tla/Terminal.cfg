SPECIFICATION Spec
CONSTANTS
    Sizes = {1, 2}
    Limit = 3
    WriteCap = 2
    EventCap = 1
    TtyCap = 1
    MaxKeys = 2
    MaxPrints = 3
INVARIANTS
    QueuedIsWaiting
    InputInOrder
    OutputBeforeEnd
PROPERTIES
    ClosedIsGone
    ExitReported
    OutputShown
CHECK_DEADLOCK FALSE
