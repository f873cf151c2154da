SPECIFICATION FairSpec
CONSTANTS
    Subscribers = {s1, s2}
    Pools = {p1, p2}
    Periods = {1, 2}
    Hour = 1
    ResultCapacity = 1
    RequestCapacity = 1
    MaxRequests = 2
    Outcomes <- MCOutcomes
    Asks <- MCAsks
    None = None
PROPERTIES
    PaneSound
    WaitsResolved
CHECK_DEADLOCK FALSE
