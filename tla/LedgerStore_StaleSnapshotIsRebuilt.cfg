SPECIFICATION FairSpec
CONSTANTS
    Ids = {a, b}
    Procs = {p, q}
    Operators = {p}
    NoProc = NoProc
    NoEvent = NoEvent
    ShortWrites = FALSE
    MaxEvents = 1
    MaxCrashes = 1
PROPERTIES
    StaleSnapshotIsRebuilt
