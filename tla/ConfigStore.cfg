SPECIFICATION FairSpec
CONSTANTS
    Procs = {p, q}
    Hosts = {"h"}
    Ports = {1, 2}
    Requests <- MCRequests
    EditorTexts <- MCTexts
    EditorIds = {0}
    Refreshes = {1}
    MaxCommands = 2
    MaxCrashes = 1
    Corrupt = Corrupt
    Missing = Missing
    None = None
PROPERTIES
    StoreSound
    AtomicRegister
    StoreProgress
CHECK_DEADLOCK FALSE
