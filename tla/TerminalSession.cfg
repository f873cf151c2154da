SPECIFICATION Spec
CONSTANTS
    sa = sa
    sb = sb
    sc = sc
    Ids = {sa, sb, sc}
    Fleets <- MCFleets
    WithNetwork <- MCWithNetwork
    Targets = {1, 2}
    JobLists <- MCJobLists
    Periods = {1, 2}
    Hour = 1
    Heights = {3, 5}
    BaseRows = 2
    HeaderRows = 1
    DetailRows = 1
    RequestCapacity = 1
    Keys <- MCKeys
    MaxKeys = 2
    MaxDocuments = 1
    None = None
INVARIANTS SessionSound
PROPERTIES FocusKept SessionProgress
CHECK_DEADLOCK FALSE
