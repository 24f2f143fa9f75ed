SPECIFICATION Spec
CONSTANTS
    Procs = {p, q, r}
    Contracts = {c, d}
    NoProc = NoProc
    Absent = Absent
    MaxEvents = 2
    MaxCrashes = 2
INVARIANTS
    OneInitPasses
    ManifestIsLast
