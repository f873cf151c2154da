SPECIFICATION MCSpec
CONSTANTS
    Handshakes = {"good", "foreign"}
    Size <- MCSize
    SocketUnits = 3
    ReadUnits = 2
    BufferUnits = 4
    HubCapacity = 1
    AckCapacity = 1
    ChannelCapacity = 1
    MaxGeneration = 3
    MaxRequests = 2
    Attempts = 2
    None = None
    Operators = {t1, t2}
    MaxServiceCommands = 2
    MaxRegistrations = 1
    MaxDriveVersions = 2
    PipeUnits = 1
    OutputCap = 2
    MaxOutput = 4
    InputUnits = 2
PROPERTIES
    EndpointSound
    WindowsSound
    DriveSound
    CaptureSound
CHECK_DEADLOCK FALSE
