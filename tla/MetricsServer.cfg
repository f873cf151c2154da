CONSTANTS
    Requests = {r1}
    Cells = {c1, c2, c3}
    NoCell = none
    SupportsV1 <- BothPlatforms
    Asked = {2}
    MaxFailures = 2
    MaxAge = 1
    FailureCap = 2
    MaxNow = 1
SPECIFICATION FairSpec
INVARIANTS
    OneCycleOutstanding
PROPERTIES
    PublicationSound
    HealthAgrees
    ServingProgress
