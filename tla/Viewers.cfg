SPECIFICATION Spec
CONSTANTS
    Targets = {t1}
    Output = 2
    LogLines = 1
    ResultCap = 2
    MaxViewers = 2
    MaxRequests = 2
INVARIANTS
    ShowsItsRequest
    FollowersHaveTabs
    OneRequestEach
    TabsDistinct
PROPERTIES
    StopsEnd
    TimedRequestsSettle
CHECK_DEADLOCK FALSE
