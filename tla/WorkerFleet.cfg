SPECIFICATION FairSpec
CONSTANTS
    a = a  b = b  c = c  d = d
    Tasks <- MCTasks
    Leases <- MCLeases
    DependsOn <- MCDependsOn
    Priority <- MCPriority
    Order <- MCOrder
    Budget <- MCBudget
    Total <- MCTotal
    RequestedLease <- MCRequestedLease
    Branch <- MCBranch
    WorktreePath <- MCWorktreePath
    Worktree <- MCWorktree
    PathGlobs <- MCPathGlobs
    OwnerCheckout <- MCOwnerCheckout
    Roots <- MCRoots
    MaxParallelism = 2
    NoWorkspace = NoWorkspace
    MaxFaults = 1
INVARIANTS
    TypeOK
    WorkersAreApart
    CapacityHolds
PROPERTIES
    GcSparesWorkers
    WorkIsKept
    QueueDrains
