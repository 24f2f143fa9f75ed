SPECIFICATION FairSpec
CONSTANTS
    Ids = {a, b}
    Procs = {p, q}
    Operators = {p}
    NoProc = NoProc
    NoEvent = NoEvent
    ShortWrites = TRUE
    MaxEvents = 2
    MaxCrashes = 1
PROPERTIES
    TornTailIsRepaired
