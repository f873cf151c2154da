SPECIFICATION FairSpec
CONSTANTS
    l1 = l1
    l2 = l2
    Launchers <- BothLaunchers
    Commands <- Dealt
    MaxDaemons = 4
    MaxVersion = 2
    MaxFaults = 1
    MismatchFrames = {"protocolError", "versionMismatch"}
PROPERTIES
    LaunchSound
    CommandsEnd
CHECK_DEADLOCK FALSE
