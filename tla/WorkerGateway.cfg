SPECIFICATION FairGatewaySpec
CONSTANTS
    Runs = {r1, r2}
    Outputs = {o1}
    Entries <- MCEntries
    Untracked <- MCUntracked
    Cut <- MCCut
    AfterArrow <- MCAfterArrow
    Allowed <- MCAllowed
    None = None
    MaxMishaps = 2
INVARIANTS
    PassIsEarned
    DiffIsLeased
PROPERTIES
    RunsEnd
CHECK_DEADLOCK FALSE
