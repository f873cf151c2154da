SPECIFICATION FairSpec
CONSTANTS
    t1 = t1
    t2 = t2
    Clients <- TwoTerminals
    OpsOf <- ChangerAndWatcher
    Registrations = {"none", "own", "foreignSame", "unknown"}
    MaxInstances = 2
    MaxFaults = 1
INVARIANTS
    ReportsHonest
PROPERTIES
    HostRespected
    HostSettles
CHECK_DEADLOCK FALSE
