CONSTANTS
    N = 1
    NextAfter <- MCNextAfter
    LastOccurrence = 6
    Gated = {1}
    MaxLoad <- FirstMaxLoad
    Window <- FirstWindow
    Windows = {"15m"}
    Levels = {0, 1}
    Retry <- FirstRetry
    MaxWait <- FirstMaxWait
    Limit = 2
    Recheck = 2
    Settle = 0
    KillBound = 1
    Skews <- SteppedSkews
    MaxNow = 5
    MaxCivil = 6
SPECIFICATION FairSpec
INVARIANTS
    TypeOK
    NoOccurrenceTwice
PROPERTIES
    ShutdownEnds
CHECK_DEADLOCK FALSE
