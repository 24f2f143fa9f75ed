----------------------------- MODULE WorkerFleet -----------------------------
(***************************************************************************)
(* The worker fleet: a cycle that schedules the queue against the slots    *)
(* and budgets of the fleet and admits branch, worktree and path leases, a *)
(* host that applies what the cycle said while the Workers go on, and the  *)
(* garbage collection of the workspaces that Workers leave behind.         *)
(*                                                                         *)
(* run_cycle is a function of its arguments, so a cycle is one step; what  *)
(* it returns is applied in later steps, when the fleet has moved on.  The *)
(* host, the Workers and the people around them are not in the source:     *)
(* they do what the results and receipts of the fleet ask them to do.      *)
(***************************************************************************)
EXTENDS Integers, Sequences, FiniteSets, FiniteSetsExt

CONSTANTS
    Tasks,              \* the queue; a task is the number of its task_id
    DependsOn,          \* the tasks that must be complete before a task
    Priority, Order,    \* its place in the queue
    Budget,             \* what it needs of each resource
    RequestedLease,     \* the lease it names
    MaxParallelism,     \* how many Workers the fleet runs
    Total,              \* what the fleet has of each resource
    Leases,
    Branch,             \* what a lease covers: a branch,
    WorktreePath,       \* a worktree, as the lease writes its path,
    Worktree,           \* and as the sequence of that path's names,
    PathGlobs,          \* and the roots of its path globs
    OwnerCheckout,      \* the path of the owner's live checkout
    Roots,              \* the directories that may be collected (gc --workspaces)
    NoWorkspace,
    MaxFaults           \* bound: silences, failures and lost permissions

Resources == {"cpu_slots", "memory_mb", "disk_mb"}

LeaseStates == {"REQUESTED", "GRANTED", "ACTIVE", "RELEASED", "EXPIRED", "REVOKED"}

\* The states in which a lease occupies its branch, worktree and paths.
HoldingStates == {"GRANTED", "ACTIVE"}

Workspaces == {Worktree[l] : l \in Leases}

\* One path is in the tree of the other, name by name.
PathsOverlap(p, q) == \A i \in DOMAIN p \cap DOMAIN q : p[i] = q[i]

-----------------------------------------------------------------------------
ASSUME ItemsAssumption ==
    /\ Tasks \subseteq Nat /\ IsFiniteSet(Tasks)
    /\ DependsOn \in [Tasks -> SUBSET Tasks]
    /\ Priority \in [Tasks -> Nat] /\ Order \in [Tasks -> Nat]
    /\ Budget \in [Tasks -> [Resources -> Nat \ {0}]]
    /\ RequestedLease \in [Tasks -> Leases]

\* validate_fleet refuses an item that the whole fleet could not run, and a
\* cycle of dependencies.
ASSUME FleetAssumption ==
    /\ MaxParallelism \in Nat \ {0}
    /\ Total \in [Resources -> Nat \ {0}]
    /\ \A t \in Tasks, r \in Resources : Budget[t][r] <= Total[r]
    /\ \A S \in SUBSET Tasks \ {{}} : \E t \in S : DependsOn[t] \cap S = {}

\* One path may be written in several ways (ws/one, ws/one/, ./ws/one), but one
\* way of writing is of one path.
ASSUME LeasesAssumption ==
    /\ \A l \in Leases : Worktree[l] \in Seq(STRING) \ {<< >>}
    /\ \A l, m \in Leases : WorktreePath[l] = WorktreePath[m] => Worktree[l] = Worktree[m]
    /\ NoWorkspace \notin Workspaces
    /\ MaxFaults \in Nat

VARIABLES
    completed,      \* the tasks that are complete
    running,        \* the tasks that have a Worker
    state,          \* the state of every lease
    late,           \* the leases whose expires_at has passed
    silent,         \* the leases without a heartbeat for two intervals
    disk,           \* what every workspace holds
    unreadable,     \* the workspaces that cannot be listed
    planned,        \* a cycle has ended and its result is not applied yet
    admitted,       \* the tasks it admitted and the host has still to start
    expired,        \* the leases it reported as expired,
    stale,          \* and as silent
    sweeping,       \* a gc is removing what a human admitted
    removable,      \* the workspaces it has still to treat
    checked,        \* the one it has found clean and is about to remove
    raced,          \* history: that one was written to since
    joined,         \* history: the tasks started since the gc's inventory
    faults          \* how many faults there were

host == << completed, running, state, late, silent >>
files == << disk, unreadable >>
result == << planned, admitted, expired, stale >>
sweep == << sweeping, removable, checked, raced, joined >>
vars == << host, files, result, sweep, faults >>

TypeOK ==
    /\ completed \subseteq Tasks /\ running \subseteq Tasks
    /\ state \in [Leases -> LeaseStates]
    /\ late \subseteq Leases /\ silent \subseteq Leases
    /\ disk \in [Workspaces -> {"absent", "clean", "dirty"}]
    /\ unreadable \subseteq Workspaces
    /\ planned \in BOOLEAN
    /\ admitted \subseteq Tasks /\ (admitted # {} => planned)
    /\ expired \subseteq Leases /\ stale \subseteq Leases
    /\ sweeping \in BOOLEAN
    /\ removable \subseteq Workspaces /\ (removable # {} => sweeping)
    /\ checked \in removable \union {NoWorkspace}
    /\ raced \in BOOLEAN
    /\ joined \subseteq Tasks
    /\ faults \in 0..MaxFaults

Init ==
    /\ completed = {} /\ running = {}
    /\ state = [l \in Leases |-> "REQUESTED"]
    /\ late = {} /\ silent = {}
    /\ disk = [w \in Workspaces |-> "absent"] /\ unreadable = {}
    /\ planned = FALSE /\ admitted = {} /\ expired = {} /\ stale = {}
    /\ sweeping = FALSE /\ removable = {} /\ checked = NoWorkspace /\ raced = FALSE
    /\ joined = {}
    /\ faults = 0

Held == {l \in Leases : state[l] \in HoldingStates}

Workspace(t) == Worktree[RequestedLease[t]]

-----------------------------------------------------------------------------
\* The cycle.

\* The scheduler's fixed order.
Before(t, u) ==
    \/ Priority[t] > Priority[u]
    \/ /\ Priority[t] = Priority[u]
       /\ Order[t] < Order[u] \/ (Order[t] = Order[u] /\ t < u)

Ready == {t \in Tasks \ (completed \union running) : DependsOn[t] \subseteq completed}

Used(S, r) == MapThenSumSet(LAMBDA t : Budget[t][r], S)

\* Mutant: a budget that uses the fleet up is deferred.
Fits_Strictly(t, D) ==
    /\ Cardinality(D) < MaxParallelism - Cardinality(running)
    /\ \A r \in Resources : Used(running, r) + Used(D, r) + Budget[t][r] < Total[r]

\* There is a slot and a budget left beside what runs and what is dispatched.
Fits(t, D) ==
    /\ Cardinality(D) < MaxParallelism - Cardinality(running)
    /\ \A r \in Resources : Used(running, r) + Used(D, r) + Budget[t][r] <= Total[r]

\* Mutant: a task is measured against what runs alone.
IsSchedule_OneByOne(D) == \A t \in Ready : t \in D <=> Fits(t, {})

\* The ready tasks are taken in order, each one that fits beside those before it.
IsSchedule(D) == \A t \in Ready : t \in D <=> Fits(t, {u \in D : Before(u, t)})

\* Worktrees are compared as they are written.
Conflicts(l, m) ==
    \/ Branch[l] = Branch[m]
    \/ WorktreePath[l] = WorktreePath[m]
    \/ \E p \in PathGlobs[l], q \in PathGlobs[m] : PathsOverlap(p, q)

\* A lease is admitted beside the leases H, whatever its own state is.
Admissible(l, H) ==
    /\ l \notin late
    /\ ~ PathsOverlap(Worktree[l], OwnerCheckout)
    /\ l \notin H
    /\ \A m \in H : ~ Conflicts(l, m)

\* Mutant: the leases that the cycle has admitted itself are not held.
IsAdmission_AgainstHeld(A, D) ==
    \A t \in D : t \in A <=> Admissible(RequestedLease[t], Held)

\* The dispatched tasks D are admitted in order, each one against the leases
\* that are held and those of the tasks A admitted before it.
IsAdmission(A, D) ==
    \A t \in D :
        t \in A <=> LET earlier == {RequestedLease[u] : u \in {v \in A : Before(v, t)}}
                    IN  Admissible(RequestedLease[t], Held \union earlier)

\* Silence counts for held leases, expiry for all but the ones that have ended.
Cycle ==
    /\ ~ planned
    /\ \E D \in SUBSET Ready :
          /\ IsSchedule(D)
          /\ \E A \in SUBSET D : IsAdmission(A, D) /\ admitted' = A
    /\ planned' = TRUE
    /\ expired' = {l \in late : state[l] \notin {"RELEASED", "REVOKED"}}
    /\ stale' = silent \cap Held
    /\ UNCHANGED << host, files, sweep, faults >>

-----------------------------------------------------------------------------
\* The host.

\* A Worker starts under its lease, in the workspace that may be there from an
\* earlier attempt.
Start(t) ==
    /\ t \in admitted
    /\ admitted' = admitted \ {t}
    /\ running' = running \union {t}
    /\ state' = [state EXCEPT ![RequestedLease[t]] = "ACTIVE"]
    /\ silent' = silent \ {RequestedLease[t]}
    /\ joined' = IF sweeping THEN joined \union {t} ELSE joined
    /\ \/ /\ disk[Workspace(t)] = "absent"
          /\ disk' = [disk EXCEPT ![Workspace(t)] = "clean"]
          /\ unreadable' = unreadable \ {Workspace(t)}
       \/ /\ disk[Workspace(t)] # "absent"
          /\ UNCHANGED files
    /\ UNCHANGED << completed, late, planned, expired, stale,
                    sweeping, removable, checked, raced, faults >>

\* The Worker of a lease that was reported, and that is still held, is killed
\* with its process group; its workspace stays.
Stop(l) ==
    /\ l \in (expired \union stale) \cap Held
    /\ running' = {t \in running : RequestedLease[t] # l}
    /\ state' = [state EXCEPT ![l] = IF l \in expired THEN "EXPIRED" ELSE "REVOKED"]
    /\ expired' = expired \ {l} /\ stale' = stale \ {l}
    /\ UNCHANGED << completed, late, silent, files, planned, admitted, sweep, faults >>

\* The result is applied, and the next cycle may come.
EndCycle ==
    /\ planned
    /\ admitted = {} /\ (expired \union stale) \cap Held = {}
    /\ planned' = FALSE
    /\ expired' = {} /\ stale' = {}
    /\ UNCHANGED << host, files, admitted, sweep, faults >>

-----------------------------------------------------------------------------
\* Workers, people and time.

\* A directory goes with everything under it.
Without(w) ==
    [v \in Workspaces |->
        IF Len(w) <= Len(v) /\ PathsOverlap(w, v) THEN "absent" ELSE disk[v]]

\* A Worker's end: the receipt demands an empty process group and a removed
\* workspace.
Leave(t) ==
    /\ t \in running
    /\ running' = running \ {t}
    /\ state' = [state EXCEPT ![RequestedLease[t]] = "RELEASED"]
    /\ disk' = Without(Workspace(t))
    /\ UNCHANGED << late, silent, unreadable, result, sweep >>

Finish(t) ==
    /\ Leave(t)
    /\ completed' = completed \union {t}
    /\ UNCHANGED faults

Fault ==
    /\ faults < MaxFaults
    /\ faults' = faults + 1

Fail(t) ==
    /\ Leave(t)
    /\ Fault
    /\ UNCHANGED completed

\* A workspace is written, by its Worker or by somebody who works there.
Write(w) ==
    /\ disk[w] = "clean"
    /\ disk' = [disk EXCEPT ![w] = "dirty"]
    /\ raced' = (raced \/ checked = w)
    /\ UNCHANGED << host, unreadable, result, sweeping, removable, checked, joined, faults >>

\* The work is committed elsewhere and the workspace emptied.
Commit(w) ==
    /\ disk[w] = "dirty"
    /\ disk' = [disk EXCEPT ![w] = "clean"]
    /\ UNCHANGED << host, unreadable, result, sweep, faults >>

\* A Worker dies, or is slow.
FallSilent(l) ==
    /\ l \in Held \ silent
    /\ silent' = silent \union {l}
    /\ Fault
    /\ UNCHANGED << completed, running, state, late, files, result, sweep >>

Expire(l) ==
    /\ l \notin late
    /\ late' = late \union {l}
    /\ UNCHANGED << completed, running, state, silent, files, result, sweep, faults >>

Hide(w) ==
    /\ disk[w] # "absent" /\ w \notin unreadable
    /\ unreadable' = unreadable \union {w}
    /\ Fault
    /\ UNCHANGED << host, disk, result, sweep >>

Show(w) ==
    /\ w \in unreadable
    /\ unreadable' = unreadable \ {w}
    /\ UNCHANGED << host, disk, result, sweep, faults >>

-----------------------------------------------------------------------------
\* Garbage collection: gc --workspaces root --admit ... --apply.

\* Inventory lists the directories of its root and knows each by its name there.
Candidates(root) ==
    {w \in Workspaces :
        disk[w] # "absent" /\ Len(w) = Len(root) + 1 /\ PathsOverlap(w, root)}

Name(w) == << w[Len(w)] >>

\* Mutant: the leases are not looked at.
Leased_Never(w) == FALSE

Leased(w) == \E l \in Held : PathsOverlap(Name(w), Worktree[l])

IsClean(w) == disk[w] = "clean" /\ w \notin unreadable

\* Inventory and plan.  A candidate that is leased, dirty or unreadable cannot
\* be admitted: then the whole command is refused.
Sweep(root, A) ==
    LET admissible == A \cap Candidates(root) IN
    /\ ~ sweeping
    /\ \A w \in admissible : ~ Leased(w) /\ IsClean(w)
    /\ admissible # {}
    /\ sweeping' = TRUE
    /\ removable' = admissible
    /\ UNCHANGED << host, files, result, checked, raced, joined, faults >>

\* Mutant: what was clean in the inventory is removed.
Recheck_Trusting(w) ==
    /\ w \in removable /\ checked = NoWorkspace
    /\ checked' = w /\ raced' = FALSE
    /\ UNCHANGED << host, files, result, sweeping, removable, joined, faults >>

\* A workspace that has become dirty or unreadable is skipped.
Recheck(w) ==
    /\ w \in removable /\ checked = NoWorkspace
    /\ \/ /\ IsClean(w)
          /\ checked' = w /\ raced' = FALSE
          /\ UNCHANGED removable
       \/ /\ ~ IsClean(w)
          /\ removable' = removable \ {w}
          /\ UNCHANGED << checked, raced >>
    /\ UNCHANGED << host, files, result, sweeping, joined, faults >>

\* Mutant: the loop forgets which workspace it was about.
Remove_KeepsChecked ==
    /\ checked # NoWorkspace
    /\ disk' \in {disk, Without(checked)}
    /\ removable' = removable \ {checked}
    /\ UNCHANGED << host, unreadable, result, sweeping, checked, raced, joined, faults >>

\* rmtree, which ignores errors: the directory may stay.
Remove ==
    /\ checked # NoWorkspace
    /\ disk' \in {disk, Without(checked)}
    /\ removable' = removable \ {checked}
    /\ checked' = NoWorkspace
    /\ UNCHANGED << host, unreadable, result, sweeping, raced, joined, faults >>

EndSweep ==
    /\ sweeping /\ removable = {}
    /\ sweeping' = FALSE /\ joined' = {}
    /\ UNCHANGED << host, files, result, removable, checked, raced, faults >>

-----------------------------------------------------------------------------
Fleet == Cycle \/ EndCycle \/ (\E t \in Tasks : Start(t)) \/ (\E l \in Leases : Stop(l))

Around ==
    \/ \E t \in Tasks : Finish(t) \/ Fail(t)
    \/ \E w \in Workspaces : Write(w) \/ Commit(w) \/ Hide(w) \/ Show(w)
    \/ \E l \in Leases : FallSilent(l) \/ Expire(l)

Gc ==
    \/ \E root \in Roots, A \in SUBSET Workspaces : Sweep(root, A)
    \/ \E w \in Workspaces : Recheck(w)
    \/ Remove \/ EndSweep

Next == Fleet \/ Around \/ Gc

Spec == Init /\ [][Next]_vars

\* Cycles go on and are applied, a gc comes to its end, and a Worker that is not
\* silent comes to its own.
FairSpec ==
    /\ Spec
    /\ WF_vars(Cycle) /\ WF_vars(EndCycle)
    /\ \A t \in Tasks : /\ WF_vars(Start(t))
                        /\ WF_vars(RequestedLease[t] \notin silent /\ Finish(t))
    /\ \A l \in Leases : WF_vars(Stop(l))
    /\ WF_vars(Remove \/ EndSweep \/ \E w \in Workspaces : Recheck(w))

-----------------------------------------------------------------------------
\* Two running Workers never share a branch, a file or a worktree as it is
\* written, whatever was admitted, reported, killed and retried meanwhile
\* (wf_lease.py: One Worker, one branch, one tree, one path set).  One tree that
\* two leases write differently, or one tree inside another, is not seen.
WorkersAreApart ==
    \A t, u \in running : t # u => ~ Conflicts(RequestedLease[t], RequestedLease[u])

\* What runs, with what is about to be started, is within the slots and the
\* budgets of the fleet (schedule).
CapacityHolds ==
    /\ Cardinality(running \union admitted) <= MaxParallelism
    /\ \A r \in Resources : Used(running \union admitted, r) <= Total[r]

\* A gc takes the tree of a Worker that runs only when the Worker has started since
\* the inventory, which the recheck does not notice, or when the inventory knows
\* the tree by another name than the lease does (wf_cleanup.py: a worktree with
\* an active lease is never removable).  The other way to lose it is the end of
\* another Worker whose lease writes the same tree differently.
GcSparesWorkers ==
    [][\A t \in running \cap running' :
          disk[Workspace(t)] # "absent" /\ disk'[Workspace(t)] = "absent"
              => \/ \E u \in running \ running' : PathsOverlap(Workspace(u), Workspace(t))
                 \/ t \in joined
                 \/ ~ PathsOverlap(Name(checked), Workspace(t))]_vars

\* Work that is not committed goes with the end of a Worker of that tree, and with
\* a gc only when it was written after the gc's last look (execute).
WorkIsKept ==
    [][\A w \in Workspaces :
          disk[w] = "dirty" /\ disk'[w] = "absent"
              => \/ \E t \in running \ running' : PathsOverlap(Workspace(t), w)
                 \/ raced /\ checked = w]_vars

\* Liveness: under fairness the queue drains, unless a lease expires before its task is
\* complete: such a task is dispatched and refused in every cycle, and its slot
\* with it (run_cycle).
QueueDrains ==
    <>(\/ completed = Tasks
       \/ \E t \in Tasks \ completed : RequestedLease[t] \in late)
==============================================================================
