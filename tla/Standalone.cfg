CONSTANTS
    Hours = 3
    Minutes = 2
    MonthLengths <- TwoMonths
    WeekDays = 3
    CycleDays = 15
    ChangeAt = 8
    Offsets <- AllOffsets
    LastInstant = 16
    Expressions <- MCExpressions
    Owners = {oa, ob}
    Unquotable = {}
    Users = {ua}
    Jobs = {job}
    Commands = {c1, c2}
    InsertsAnywhere = FALSE
    MaxEdits = 1
    MaxCommands = 3
    UnitConfigs = {ca, cb}
    ForeignUnits = {fa, fb}
    Uses <- MCUses
    MaxManaged = 3
    MaxVersion = 3
    Updaters = {up1, up2}
    MaxPublications = 2
    MaxUpdates = 2
    Devices = {1, 2}
    Loopbacks = {1}
    CounterRange = 2
    MaxEntries = 1
    MaxRate = 1
    MaxClock = 2
    MaxTraffic = 2
    MaxPlugs = 2
SPECIFICATION MCSpec
PROPERTIES
    CalendarSound
    CrontabSound
    UnitSound
    UpdateSound
    CollectorSound
CHECK_DEADLOCK FALSE
