CONSTANTS
    N = 2
    NextAfter <- MCNextAfter
    LastOccurrence = 30
    Gated = {1}
    MaxLoad <- FirstMaxLoad
    Window <- FirstWindow
    Windows = {"15m"}
    Levels = {0, 1}
    Retry <- FirstRetry
    MaxWait <- FirstMaxWait
    Limit = 2
    Recheck = 2
    Settle = 1
    KillBound = 1
    Skews = {0}
    MaxNow = 5
    MaxCivil = 7
SPECIFICATION LateSpec
INVARIANTS
    OneRecordPerOccurrence
    NoElapsedRetry
    ServedIsSound
    PromptWaitBounded
PROPERTIES
    NoSpin
    DecisionsStand
CHECK_DEADLOCK FALSE
