SPECIFICATION FairSpec
CONSTANTS
    Ids = {"a", "b"}
    Targets = {"t1", "t2", "t3"}
    Configs <- MCConfigs
    Subscribers = {"s"}
    Depths = {1}
    MaxInFlight = 1
    ChannelCapacity = 1
    PerJob = 3
    TotalCap = 4
    Ring = 2
    Past <- MCPast
    MaxEvents = 1
    MaxReloads = 1
    None = None
INVARIANTS
    ObservationSound
PROPERTIES
    DocumentFollows
CHECK_DEADLOCK FALSE
