SPECIFICATION Spec
CONSTANTS
    Ids = {a, b}
    Procs = {p, q}
    Operators = {}
    NoProc = NoProc
    NoEvent = NoEvent
    ShortWrites = FALSE
    MaxEvents = 2
    MaxCrashes = 2
SYMMETRY ClientsAndIds
INVARIANTS
    TypeOK
    SingleWriter
    ChainIntact
    SnapshotTracksLog
    ReceiptsAreKept
PROPERTIES
    ImplementsHistory
