SPECIFICATION FairSpec
CONSTANTS
    Ids = {"a", "b"}
    Endpoints = {"e1", "e1x", "e2"}
    Host <- MCHost
    Configs <- MCConfigs
    Vals = {"v"}
    Failures = {}
    MaxConcurrent = 1
    CommandCapacity = 1
    BatchCapacity = 1
    MaxGeneration = 2
    None = None
INVARIANTS
    NoForeignSnapshot
    FleetSound
PROPERTIES
    FleetProgress
CHECK_DEADLOCK FALSE
