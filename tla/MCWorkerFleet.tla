---------------------------- MODULE MCWorkerFleet ----------------------------
(***************************************************************************)
(* A fleet of two slots for TLC.  Task 1 needs the whole memory; tasks 3   *)
(* and 4 wait for it.  Task 4 comes before task 2, whose worktree it names *)
(* too, and either may run beside task 3, whose lease writes their         *)
(* worktree in another way.                                                *)
(***************************************************************************)
EXTENDS WorkerFleet

CONSTANTS a, b, c, d

MCTasks == 1..4
MCLeases == {a, b, c, d}
MCDependsOn == << {}, {}, {1}, {1} >>
MCPriority == << 5, 5, 5, 9 >>
MCOrder == << 1, 2, 2, 0 >>
Needs(memory) == [r \in Resources |-> IF r = "memory_mb" THEN memory ELSE 1]
MCBudget == << Needs(4), Needs(2), Needs(1), Needs(2) >>
MCTotal == [r \in Resources |-> 4]
MCRequestedLease == << a, b, c, d >>
MCBranch == [l \in MCLeases |-> l]
MCWorktreePath ==
    [l \in MCLeases |->
        CASE l = a -> "workspaces/one" [] l = c -> "./two" [] OTHER -> "two"]
MCWorktree ==
    [l \in MCLeases |-> IF l = a THEN << "workspaces", "one" >> ELSE << "two" >>]
MCPathGlobs == [l \in MCLeases |-> {<< "lib", l >>}]
MCOwnerCheckout == << "checkouts", "owner" >>

\* From the first the inventory knows "two" as its leases do, from the second it
\* knows "workspaces/one" as "one".
MCRoots == {<< >>, << "workspaces" >>}
==============================================================================
