---------------------------- MODULE Workers_proofs ----------------------------
(***************************************************************************)
(* The two components that deal with Workers, each by itself: the fleet,   *)
(* which decides who runs, and the gateway, which runs one.                *)
(*                                                                         *)
(* For any queue, leases and faults, Workers stay apart, the slots and     *)
(* budgets hold, and a garbage collection takes no work it has seen and no *)
(* tree of a Worker whose lease it could see.  What a cycle admits is      *)
(* apart from what was held then, and held leases become fewer until the   *)
(* host starts a Worker.                                                   *)
(*                                                                         *)
(* For any runs, Workers and helpers, what a receipt of the gateway says   *)
(* is true of its run.                                                     *)
(***************************************************************************)
EXTENDS WorkerFleet, WorkerGateway, FiniteSums, TLAPS

\* No worktree lies inside another.
WorktreesDoNotNest ==
    \A l, m \in Leases :
        PathsOverlap(Worktree[l], Worktree[m]) => Worktree[l] = Worktree[m]

\* Conflicts are mutual, and every lease conflicts with itself.
LEMMA ConflictsAreMutual ==
    ASSUME NEW l, NEW m
    PROVE  Conflicts(l, l) /\ (Conflicts(l, m) => Conflicts(m, l))
BY DEF Conflicts, PathsOverlap

\* The scheduler's order leaves no two tasks unordered.
LEMMA BeforeIsTotal ==
    ASSUME NEW t \in Tasks, NEW u \in Tasks, t # u
    PROVE  Before(t, u) \/ Before(u, t)
BY ItemsAssumption DEF Before

-----------------------------------------------------------------------------
\* The initial fleet is of its type.
LEMMA InitTyped == Init => TypeOK
<1> SUFFICES ASSUME Init PROVE TypeOK
  OBVIOUS
<1>1. state \in [Leases -> LeaseStates]
  BY DEF Init, LeaseStates
<1>2. disk \in [Workspaces -> {"absent", "clean", "dirty"}]
  BY DEF Init
<1>3. faults \in 0..MaxFaults
  BY LeasesAssumption DEF Init
<1> QED
  BY <1>1, <1>2, <1>3 DEF Init, TypeOK

\* What a Worker's end and a removal leave of the workspaces is of its type.
LEMMA WithoutTyped ==
    ASSUME NEW w, disk \in [Workspaces -> {"absent", "clean", "dirty"}]
    PROVE  Without(w) \in [Workspaces -> {"absent", "clean", "dirty"}]
BY DEF Without

\* Every step keeps the types.
LEMMA NextTyped == TypeOK /\ [Next]_vars => TypeOK'
<1> SUFFICES ASSUME TypeOK, [Next]_vars PROVE TypeOK'
  OBVIOUS
<1> USE DEF TypeOK
<1>1. CASE Cycle
  <2>1. admitted' \subseteq Tasks
    BY <1>1 DEF Cycle, Ready
  <2>2. expired' \subseteq Leases /\ stale' \subseteq Leases
    BY <1>1 DEF Cycle
  <2> QED
    BY <1>1, <2>1, <2>2 DEF Cycle, host, files, sweep
<1>2. CASE EndCycle
  BY <1>2 DEF EndCycle, host, files, sweep
<1>3. ASSUME NEW t \in Tasks, Start(t) PROVE TypeOK'
  <2>1. state' \in [Leases -> LeaseStates]
    BY <1>3, ItemsAssumption DEF Start, LeaseStates
  <2>2. disk' \in [Workspaces -> {"absent", "clean", "dirty"}] /\ unreadable' \subseteq Workspaces
    BY <1>3 DEF Start, files
  <2>3. joined' \subseteq Tasks
    BY <1>3 DEF Start
  <2> QED
    BY <1>3, <2>1, <2>2, <2>3 DEF Start
<1>4. ASSUME NEW l \in Leases, Stop(l) PROVE TypeOK'
  <2>1. state' \in [Leases -> LeaseStates]
    BY <1>4 DEF Stop, LeaseStates
  <2> QED
    BY <1>4, <2>1 DEF Stop, files, sweep
<1>5. ASSUME NEW t \in Tasks, Leave(t), completed' \subseteq Tasks, faults' \in 0..MaxFaults
      PROVE  TypeOK'
  <2>1. state' \in [Leases -> LeaseStates]
    BY <1>5, ItemsAssumption DEF Leave, LeaseStates
  <2>2. disk' \in [Workspaces -> {"absent", "clean", "dirty"}]
    BY <1>5, WithoutTyped DEF Leave
  <2> QED
    BY <1>5, <2>1, <2>2 DEF Leave, result, sweep
<1>6. ASSUME Fault PROVE faults' \in 0..MaxFaults
  BY <1>6, LeasesAssumption DEF Fault
<1>7. ASSUME NEW t \in Tasks, Finish(t) \/ Fail(t) PROVE TypeOK'
  BY <1>5, <1>6, <1>7 DEF Finish, Fail
<1>8. ASSUME NEW w \in Workspaces, Write(w) \/ Commit(w) PROVE TypeOK'
  <2>1. disk' \in [Workspaces -> {"absent", "clean", "dirty"}]
    BY <1>8 DEF Write, Commit
  <2>2. raced' \in BOOLEAN
    <3>1. CASE Write(w)
      BY <3>1, Zenon DEF Write
    <3>2. CASE Commit(w)
      BY <3>2, Zenon DEF Commit, sweep
    <3> QED
      BY <1>8, <3>1, <3>2
  <2> QED
    BY <1>8, <2>1, <2>2 DEF Write, Commit, host, result, sweep
<1>9. ASSUME NEW w \in Workspaces, Hide(w) \/ Show(w) PROVE TypeOK'
  BY <1>6, <1>9 DEF Hide, Show, host, result, sweep
<1>10. ASSUME NEW l \in Leases, FallSilent(l) \/ Expire(l) PROVE TypeOK'
  BY <1>6, <1>10 DEF FallSilent, Expire, files, result, sweep
<1>11. ASSUME NEW root, NEW A \in SUBSET Workspaces, Sweep(root, A) PROVE TypeOK'
  BY <1>11 DEF Sweep, Candidates, host, files, result
<1>12. ASSUME NEW w \in Workspaces, Recheck(w) PROVE TypeOK'
  BY <1>12, LeasesAssumption DEF Recheck, host, files, result
<1>13. CASE Remove
  <2>1. disk' \in [Workspaces -> {"absent", "clean", "dirty"}]
    BY <1>13, WithoutTyped DEF Remove
  <2> QED
    BY <1>13, <2>1 DEF Remove, host, result
<1>14. CASE EndSweep
  BY <1>14 DEF EndSweep, host, files, result
<1>15. CASE UNCHANGED vars
  BY <1>15 DEF vars, host, files, result, sweep
<1> QED
  BY <1>1, <1>2, <1>3, <1>4, <1>7, <1>8, <1>9, <1>10, <1>11, <1>12, <1>13, <1>14, <1>15
     DEF Next, Fleet, Around, Gc

\* The variables of the fleet stay within their types.
THEOREM TypeCorrect == Spec => []TypeOK
BY InitTyped, NextTyped, PTL DEF Spec

-----------------------------------------------------------------------------
(***************************************************************************)
(* Workers are apart.                                                      *)
(***************************************************************************)

\* Running Workers hold their leases; what is admitted is apart from what is
\* held and from what else is admitted.
ApartInv ==
    /\ WorkersAreApart
    /\ \A t \in running : RequestedLease[t] \in Held
    /\ \A t \in admitted : \A l \in Held : ~ Conflicts(RequestedLease[t], l)
    /\ \A t, u \in admitted : t # u => ~ Conflicts(RequestedLease[t], RequestedLease[u])

\* The empty fleet is apart.
LEMMA InitApart == Init => ApartInv
BY DEF Init, ApartInv, WorkersAreApart

\* The invariant speaks of these four only.
LEMMA UnchangedApart ==
    ApartInv /\ UNCHANGED << running, state, admitted >> => ApartInv'
BY DEF ApartInv, WorkersAreApart, Held

\* Leases that are given up, and their Workers, disturb nothing.
LEMMA FewerAreApart ==
    ASSUME ApartInv, running' \subseteq running, Held' \subseteq Held,
           \A t \in running' : RequestedLease[t] \in Held',
           UNCHANGED admitted
    PROVE  ApartInv'
BY DEF ApartInv, WorkersAreApart

\* A cycle admits leases that are apart from the held ones and each other.
LEMMA CycleApart ==
    ASSUME TypeOK, ApartInv, Cycle
    PROVE  ApartInv'
<1> PICK D \in SUBSET Ready : \E A \in SUBSET D : IsAdmission(A, D) /\ admitted' = A
  BY DEF Cycle
<1> PICK A \in SUBSET D : IsAdmission(A, D) /\ admitted' = A
  OBVIOUS
<1>1. A \subseteq Tasks
  BY DEF Ready
<1>2. ASSUME NEW t \in A, NEW l \in Held PROVE ~ Conflicts(RequestedLease[t], l)
  BY <1>2 DEF IsAdmission, Admissible
<1>3. ASSUME NEW t \in A, NEW u \in A, Before(u, t)
      PROVE  ~ Conflicts(RequestedLease[t], RequestedLease[u])
  BY <1>3 DEF IsAdmission, Admissible
<1>4. ASSUME NEW t \in A, NEW u \in A, t # u
      PROVE  ~ Conflicts(RequestedLease[t], RequestedLease[u])
  <2>1. Before(t, u) \/ Before(u, t)
    BY <1>1, <1>4, BeforeIsTotal
  <2> QED
    BY <1>3, <2>1, ConflictsAreMutual
<1>5. UNCHANGED << running, state >>
  BY DEF Cycle, host
<1> QED
  BY <1>2, <1>4, <1>5 DEF ApartInv, WorkersAreApart, Held

\* A Worker starts apart from the ones that run, and the others that are
\* admitted stay apart from it.
LEMMA StartApart ==
    ASSUME TypeOK, ApartInv, NEW t \in Tasks, Start(t)
    PROVE  ApartInv'
<1> DEFINE l == RequestedLease[t]
<1>1. l \in Leases /\ t \in admitted
  BY ItemsAssumption DEF Start
<1>2. Held' = Held \union {l}
  BY <1>1 DEF Start, TypeOK, Held, HoldingStates
<1>3. running' = running \union {t} /\ admitted' = admitted \ {t}
  BY DEF Start
<1>4. ASSUME NEW u \in running, u # t
      PROVE  ~ Conflicts(RequestedLease[u], l) /\ ~ Conflicts(l, RequestedLease[u])
  BY <1>1, ConflictsAreMutual DEF ApartInv
<1>5. WorkersAreApart'
  BY <1>3, <1>4 DEF ApartInv, WorkersAreApart
<1>6. \A u \in running' : RequestedLease[u] \in Held'
  BY <1>2, <1>3 DEF ApartInv
<1>7. \A u \in admitted' : \A m \in Held' : ~ Conflicts(RequestedLease[u], m)
  BY <1>1, <1>2, <1>3 DEF ApartInv
<1> QED
  BY <1>3, <1>5, <1>6, <1>7 DEF ApartInv

\* A Worker's end gives up its own lease and no other Worker's.
LEMMA LeaveApart ==
    ASSUME TypeOK, ApartInv, NEW t \in Tasks, Leave(t)
    PROVE  ApartInv'
<1>1. RequestedLease[t] \in Leases /\ t \in running
  BY ItemsAssumption DEF Leave
<1>2. Held' = Held \ {RequestedLease[t]}
  BY <1>1 DEF Leave, TypeOK, Held, HoldingStates
<1>3. ASSUME NEW u \in running, u # t PROVE RequestedLease[u] # RequestedLease[t]
  BY <1>1, <1>3, ConflictsAreMutual DEF ApartInv, WorkersAreApart
<1>4. running' = running \ {t} /\ UNCHANGED admitted
  BY DEF Leave, result
<1> QED
  BY <1>2, <1>3, <1>4, FewerAreApart DEF ApartInv

\* The host takes a lease back with its Worker.
LEMMA StopApart ==
    ASSUME TypeOK, ApartInv, NEW l \in Leases, Stop(l)
    PROVE  ApartInv'
<1>1. Held' = Held \ {l}
  BY DEF Stop, TypeOK, Held, HoldingStates
<1>2. running' = {t \in running : RequestedLease[t] # l} /\ UNCHANGED admitted
  BY DEF Stop
<1> QED
  BY <1>1, <1>2, FewerAreApart DEF ApartInv

\* Every step keeps the Workers apart.
LEMMA NextApart ==
    ASSUME TypeOK, ApartInv, [Next]_vars
    PROVE  ApartInv'
<1>1. CASE Fleet
  <2>1. CASE EndCycle
    BY <2>1, UnchangedApart DEF EndCycle, host
  <2> QED
    BY <1>1, <2>1, CycleApart, StartApart, StopApart DEF Fleet
<1>2. CASE Around
  <2>1. ASSUME NEW t \in Tasks, Finish(t) \/ Fail(t) PROVE ApartInv'
    BY <2>1, LeaveApart DEF Finish, Fail
  <2>2. ASSUME NEW w \in Workspaces, Write(w) \/ Commit(w) \/ Hide(w) \/ Show(w)
        PROVE  UNCHANGED << running, state, admitted >>
    BY <2>2 DEF Write, Commit, Hide, Show, host, result
  <2>3. ASSUME NEW l \in Leases, FallSilent(l) \/ Expire(l)
        PROVE  UNCHANGED << running, state, admitted >>
    BY <2>3 DEF FallSilent, Expire, result
  <2> QED
    BY <1>2, <2>1, <2>2, <2>3, UnchangedApart DEF Around
<1>3. CASE Gc
  BY <1>3, UnchangedApart DEF Gc, Sweep, Recheck, Remove, EndSweep, host, result
<1>4. CASE UNCHANGED vars
  BY <1>4, UnchangedApart DEF vars, host, result
<1> QED
  BY <1>1, <1>2, <1>3, <1>4 DEF Next

\* Whatever cycles admit and report, whatever Workers fail, fall silent and are
\* killed: no two Workers share a branch, a file or a worktree as it is written.
THEOREM WorkersStayApart == Spec => []WorkersAreApart
<1>1. TypeOK /\ ApartInv /\ [Next]_vars => ApartInv'
  BY NextApart
<1>2. ApartInv => WorkersAreApart
  BY DEF ApartInv
<1> QED
  BY <1>1, <1>2, InitApart, TypeCorrect, PTL DEF Spec

-----------------------------------------------------------------------------
(***************************************************************************)
(* A garbage collection takes no work it has seen.                         *)
(***************************************************************************)

\* What was found clean is not dirty unless it was written to since.
WorkInv == checked # NoWorkspace /\ ~ raced => disk[checked] # "dirty"

\* No gc is about to remove anything at first.
LEMMA InitWork == Init => WorkInv
BY DEF Init, WorkInv

\* Nothing but a write makes a workspace dirty.
LEMMA CleanStaysClean ==
    ASSUME TypeOK, WorkInv, UNCHANGED << checked, raced >>,
           \A w \in Workspaces : disk'[w] = "dirty" => disk[w] = "dirty"
    PROVE  WorkInv'
BY DEF TypeOK, WorkInv

\* Every step keeps what the recheck has found.
LEMMA NextWork == TypeOK /\ WorkInv /\ [Next]_vars => WorkInv'
<1> SUFFICES ASSUME TypeOK, WorkInv, [Next]_vars PROVE WorkInv'
  OBVIOUS
<1>1. CASE Fleet
  <2>1. ASSUME NEW t \in Tasks, Start(t) PROVE WorkInv'
    BY <2>1, CleanStaysClean DEF Start, files, TypeOK
  <2>2. CASE Cycle \/ EndCycle \/ \E l \in Leases : Stop(l)
    BY <2>2, CleanStaysClean DEF Cycle, EndCycle, Stop, files, sweep
  <2> QED
    BY <1>1, <2>1, <2>2 DEF Fleet
<1>2. CASE Around
  <2>1. ASSUME NEW t \in Tasks, Finish(t) \/ Fail(t) PROVE WorkInv'
    BY <2>1, CleanStaysClean DEF Finish, Fail, Leave, Without, sweep
  <2>2. ASSUME NEW w \in Workspaces, Write(w) PROVE WorkInv'
    BY <2>2 DEF Write, WorkInv, TypeOK
  <2>3. ASSUME NEW w \in Workspaces, Commit(w) \/ Hide(w) \/ Show(w) PROVE WorkInv'
    BY <2>3, CleanStaysClean DEF Commit, Hide, Show, sweep, TypeOK
  <2>4. ASSUME NEW l \in Leases, FallSilent(l) \/ Expire(l) PROVE WorkInv'
    BY <2>4, CleanStaysClean DEF FallSilent, Expire, files, sweep
  <2> QED
    BY <1>2, <2>1, <2>2, <2>3, <2>4 DEF Around
<1>3. CASE Gc
  <2>1. ASSUME NEW w \in Workspaces, Recheck(w) PROVE WorkInv'
    BY <2>1 DEF Recheck, IsClean, WorkInv, files
  <2>2. CASE Remove
    BY <2>2 DEF Remove, WorkInv
  <2>3. CASE EndSweep \/ \E root \in Roots, A \in SUBSET Workspaces : Sweep(root, A)
    BY <2>3, CleanStaysClean DEF EndSweep, Sweep, files
  <2> QED
    BY <1>3, <2>1, <2>2, <2>3 DEF Gc
<1>4. CASE UNCHANGED vars
  BY <1>4, CleanStaysClean DEF vars, files, sweep
<1> QED
  BY <1>1, <1>2, <1>3, <1>4 DEF Next

\* No step but a Worker's end and a removal makes a workspace go.
LEMMA StepKeepsWork ==
    ASSUME WorktreesDoNotNest, TypeOK, WorkInv, [Next]_vars,
           NEW w \in Workspaces, disk[w] = "dirty", disk'[w] = "absent"
    PROVE  \/ \E t \in running \ running' : PathsOverlap(Workspace(t), w)
           \/ raced /\ checked = w
<1>1. ASSUME NEW t \in Tasks, Finish(t) \/ Fail(t)
      PROVE  \E u \in running \ running' : PathsOverlap(Workspace(u), w)
  BY <1>1 DEF Finish, Fail, Leave, Without
<1>2. CASE Remove
  <2>1. checked \in Workspaces /\ PathsOverlap(checked, w)
    BY <1>2 DEF Remove, Without, TypeOK
  <2>2. checked = w
    BY <2>1 DEF WorktreesDoNotNest, Workspaces
  <2> QED
    BY <1>2, <2>2 DEF Remove, WorkInv, TypeOK
<1>3. CASE Fleet
  <2>1. ASSUME NEW t \in Tasks, Start(t) PROVE disk'[w] # "absent"
    BY <2>1 DEF Start, files, TypeOK
  <2> QED
    BY <1>3, <2>1 DEF Fleet, Cycle, EndCycle, Stop, files
<1>4. ASSUME NEW v \in Workspaces, Write(v) \/ Commit(v) \/ Hide(v) \/ Show(v)
      PROVE  FALSE
  BY <1>4 DEF Write, Commit, Hide, Show, TypeOK
<1>5. ASSUME NEW l \in Leases, FallSilent(l) \/ Expire(l) PROVE FALSE
  BY <1>5 DEF FallSilent, Expire, files
<1>6. ASSUME NEW root, NEW A, NEW v, Sweep(root, A) \/ Recheck(v) \/ EndSweep PROVE FALSE
  BY <1>6 DEF Sweep, Recheck, EndSweep, files
<1>7. CASE UNCHANGED vars
  BY <1>7 DEF vars, files
<1> QED
  BY <1>1, <1>2, <1>3, <1>4, <1>5, <1>6, <1>7 DEF Next, Around, Gc

\* Uncommitted work goes with a Worker's own end, and with a gc only when it was
\* written between the gc's recheck and the removal.
THEOREM GcKeepsWork ==
    ASSUME WorktreesDoNotNest
    PROVE  Spec => WorkIsKept
<1>1. TypeOK /\ WorkInv /\ [Next]_vars
        => [\A w \in Workspaces :
              disk[w] = "dirty" /\ disk'[w] = "absent"
                => \/ \E t \in running \ running' : PathsOverlap(Workspace(t), w)
                   \/ raced /\ checked = w]_vars
  BY StepKeepsWork
<1> QED
  BY <1>1, InitWork, NextWork, TypeCorrect, PTL DEF Spec, WorkIsKept

-----------------------------------------------------------------------------
(***************************************************************************)
(* A garbage collection spares the Workers it could see.                   *)
(***************************************************************************)

\* What a gc may still remove had no name of a Worker's tree in the inventory,
\* but for Workers that started since.
SpareInv ==
    \A w \in removable, t \in running \ joined : ~ PathsOverlap(Name(w), Workspace(t))

\* There is neither a Worker nor a gc at first.
LEMMA InitSpare == Init => SpareInv
BY DEF Init, SpareInv

\* The invariant only grows weaker with fewer Workers and less to remove.
LEMMA FewerAreSpared ==
    ASSUME SpareInv, removable' \subseteq removable,
           running' \ joined' \subseteq running \ joined
    PROVE  SpareInv'
BY DEF SpareInv, Workspace

\* The inventory leaves out what a running Worker's lease names.
LEMMA SweepSpares ==
    ASSUME ApartInv, NEW root, NEW A, Sweep(root, A)
    PROVE  SpareInv'
<1> SUFFICES ASSUME NEW w \in removable', NEW t \in running'
             PROVE  ~ PathsOverlap(Name(w), Workspace(t))
  BY DEF SpareInv, Workspace, Name
<1>1. ~ Leased(w)
  BY DEF Sweep
<1>2. RequestedLease[t] \in Held
  BY DEF Sweep, host, ApartInv
<1> QED
  BY <1>1, <1>2 DEF Leased, Workspace

\* Every step spares the Workers that the inventory could see.
LEMMA NextSpares == TypeOK /\ ApartInv /\ SpareInv /\ [Next]_vars => SpareInv'
<1> SUFFICES ASSUME TypeOK, ApartInv, SpareInv, [Next]_vars PROVE SpareInv'
  OBVIOUS
<1>1. CASE Fleet
  <2>1. ASSUME NEW t \in Tasks, Start(t) PROVE SpareInv'
    <3>1. CASE sweeping
      BY <2>1, <3>1, FewerAreSpared DEF Start
    <3>2. CASE ~ sweeping
      BY <2>1, <3>2 DEF Start, TypeOK, SpareInv
    <3> QED
      BY <3>1, <3>2
  <2>2. CASE Cycle \/ EndCycle \/ \E l \in Leases : Stop(l)
    BY <2>2, FewerAreSpared DEF Cycle, EndCycle, Stop, host, sweep
  <2> QED
    BY <1>1, <2>1, <2>2 DEF Fleet
<1>2. CASE Around
  BY <1>2, FewerAreSpared
     DEF Around, Finish, Fail, Leave, Write, Commit, Hide, Show, FallSilent, Expire,
         host, sweep
<1>3. CASE Gc
  <2>1. CASE EndSweep
    BY <2>1 DEF EndSweep, SpareInv
  <2>2. CASE Remove \/ \E w \in Workspaces : Recheck(w)
    BY <2>2, FewerAreSpared DEF Remove, Recheck, host
  <2> QED
    BY <1>3, <2>1, <2>2, SweepSpares DEF Gc
<1>4. CASE UNCHANGED vars
  BY <1>4, FewerAreSpared DEF vars, host, sweep
<1> QED
  BY <1>1, <1>2, <1>3, <1>4 DEF Next

\* The workspace of a task is one of the workspaces.
LEMMA WorkspaceTyped == \A t \in Tasks : Workspace(t) \in Workspaces
BY ItemsAssumption DEF Workspace, Workspaces

\* Only a Worker's end and a removal take a tree.
LEMMA StepSpares ==
    ASSUME TypeOK, SpareInv, [Next]_vars, NEW t \in running \cap running',
           disk[Workspace(t)] # "absent", disk'[Workspace(t)] = "absent"
    PROVE  \/ \E u \in running \ running' : PathsOverlap(Workspace(u), Workspace(t))
           \/ t \in joined
           \/ ~ PathsOverlap(Name(checked), Workspace(t))
<1>1. Workspace(t) \in Workspaces
  BY WorkspaceTyped DEF TypeOK
<1>2. ASSUME NEW u \in Tasks, Finish(u) \/ Fail(u)
      PROVE  \E v \in running \ running' : PathsOverlap(Workspace(v), Workspace(t))
  BY <1>1, <1>2 DEF Finish, Fail, Leave, Without
<1>3. CASE Remove
  BY <1>3 DEF Remove, SpareInv, TypeOK
<1>4. CASE Fleet
  <2>1. ASSUME NEW u \in Tasks, Start(u) PROVE FALSE
    BY <1>1, <2>1, WorkspaceTyped DEF Start, files, TypeOK
  <2> QED
    BY <1>4, <2>1 DEF Fleet, Cycle, EndCycle, Stop, files
<1>5. ASSUME NEW v \in Workspaces, Write(v) \/ Commit(v) \/ Hide(v) \/ Show(v)
      PROVE  FALSE
  BY <1>1, <1>5 DEF Write, Commit, Hide, Show, TypeOK
<1>6. ASSUME NEW l \in Leases, FallSilent(l) \/ Expire(l) PROVE FALSE
  BY <1>6 DEF FallSilent, Expire, files
<1>7. ASSUME NEW root, NEW A, NEW v, Sweep(root, A) \/ Recheck(v) \/ EndSweep
      PROVE  FALSE
  BY <1>7 DEF Sweep, Recheck, EndSweep, files
<1>8. CASE UNCHANGED vars
  BY <1>8 DEF vars, files
<1> QED
  BY <1>2, <1>3, <1>4, <1>5, <1>6, <1>7, <1>8 DEF Next, Around, Gc

\* A gc takes the tree of a Worker that runs only when the Worker has started
\* since its inventory, or when the inventory knows the tree by another name than
\* the lease does, whatever directory is collected.
THEOREM GcSparesSeenWorkers == Spec => GcSparesWorkers
<1>1. TypeOK /\ ApartInv /\ [Next]_vars => ApartInv'
  BY NextApart
<1>2. TypeOK /\ SpareInv /\ [Next]_vars
        => [\A t \in running \cap running' :
              disk[Workspace(t)] # "absent" /\ disk'[Workspace(t)] = "absent"
                => \/ \E u \in running \ running' : PathsOverlap(Workspace(u), Workspace(t))
                   \/ t \in joined
                   \/ ~ PathsOverlap(Name(checked), Workspace(t))]_vars
  BY StepSpares
<1> QED
  BY <1>1, <1>2, InitApart, InitSpare, NextSpares, TypeCorrect, PTL
     DEF Spec, GcSparesWorkers

-----------------------------------------------------------------------------
(***************************************************************************)
(* The fleet stays within its slots and budgets.                           *)
(***************************************************************************)

\* What a set of tasks needs is there.
CapacityOf(S) ==
    /\ Cardinality(S) <= MaxParallelism
    /\ \A r \in Resources : Used(S, r) <= Total[r]

Need(r) == [t \in Tasks |-> Budget[t][r]]

\* What a set of tasks uses is the sum of what each of them needs.
LEMMA UsedIsSum ==
    ASSUME NEW S \in SUBSET Tasks, NEW r \in Resources
    PROVE  Used(S, r) = Sum(Need(r), S)
<1> DEFINE IsUse(g) ==
             g = [s \in SUBSET S |->
                    IF s = {} THEN 0 ELSE Budget[Pick(s)][r] + g[s \ {Pick(s)}]]
           use == CHOOSE g : IsUse(g)
<1>1. IsFiniteSet(S)
  BY ItemsAssumption, FS_Subset
<1>2. \A s \in SUBSET S : s # {} => Budget[Pick(s)][r] = Need(r)[Pick(s)]
  BY PickIsIn DEF Need
<1>3. ASSUME NEW g PROVE IsUse(g) <=> Adds(g, Need(r), S)
  <2> DEFINE a == [s \in SUBSET S |->
                     IF s = {} THEN 0 ELSE Budget[Pick(s)][r] + g[s \ {Pick(s)}]]
             b == [s \in SUBSET S |->
                     IF s = {} THEN 0 ELSE Need(r)[Pick(s)] + g[s \ {Pick(s)}]]
  <2>1. a = b
    BY <1>2
  <2> QED
    BY <2>1 DEF Adds
<1>4. Adds(use, Need(r), S)
  BY <1>1, <1>3, AddsExists
<1>5. Used(S, r) = use[S]
  BY DEF Used, MapThenSumSet, MapThenFoldSet, Pick
<1> QED
  BY <1>1, <1>4, <1>5, SumIsAdded

\* What a task needs of a resource is a natural.
LEMMA NeedIsNat == \A r \in Resources, t \in Tasks : Need(r)[t] \in Nat
BY ItemsAssumption DEF Need

\* The scheduler's order is one.
LEMMA BeforeIsTransitive ==
    ASSUME NEW t \in Tasks, NEW u \in Tasks, NEW v \in Tasks, Before(t, u), Before(u, v)
    PROVE  Before(t, v)
BY ItemsAssumption DEF Before

\* No task is before itself.
LEMMA BeforeIsIrreflexive == \A t \in Tasks : ~ Before(t, t)
BY ItemsAssumption DEF Before

\* Of finitely many tasks one comes last.
LEMMA OneIsLast ==
    ASSUME NEW D \in SUBSET Tasks, D # {}
    PROVE  \E t \in D : \A u \in D \ {t} : Before(u, t)
<1> DEFINE B == {V \in SUBSET D : V # {} /\ ~ \E t \in V : \A u \in V \ {t} : Before(u, t)}
<1> SUFFICES ASSUME B # {} PROVE FALSE
  OBVIOUS
<1>1. PICK V \in B : \A W \in B : W \subseteq V => W = V
  <2>1. B \in SUBSET SUBSET D
    OBVIOUS
  <2>2. IsFiniteSet(D)
    BY ItemsAssumption, FS_Subset
  <2> HIDE DEF B
  <2> QED
    BY <2>1, <2>2, SmallestSubset
<1>2. PICK x \in V : TRUE
  OBVIOUS
<1>3. V \ {x} # {}
  OBVIOUS
<1>4. PICK t \in V \ {x} : \A u \in (V \ {x}) \ {t} : Before(u, t)
  <2>1. V \ {x} \notin B
    BY <1>1, <1>2
  <2> QED
    BY <1>3, <2>1
<1>5. CASE Before(x, t)
  BY <1>4, <1>5
<1>6. CASE Before(t, x)
  <2>1. \A u \in V \ {x} : Before(u, x)
    BY <1>4, <1>6, BeforeIsTransitive
  <2> QED
    BY <2>1
<1> QED
  BY <1>4, <1>5, <1>6, BeforeIsTotal

\* A schedule leaves room for all it dispatches, beside what runs: the last one
\* was measured against all the others.
LEMMA ScheduleFits ==
    ASSUME running \subseteq Tasks, CapacityOf(running),
           NEW D \in SUBSET Ready, IsSchedule(D)
    PROVE  CapacityOf(running \union D)
<1>1. /\ D \in SUBSET Tasks /\ D \cap running = {}
      /\ IsFiniteSet(D) /\ IsFiniteSet(running)
  BY ItemsAssumption, FS_Subset DEF Ready
<1>2. CASE D = {}
  <2>1. running \union D = running
    BY <1>2
  <2> QED
    BY <2>1
<1>3. CASE D # {}
  <2>1. PICK t \in D : \A u \in D \ {t} : Before(u, t)
    BY <1>1, <1>3, OneIsLast
  <2>2. {u \in D : Before(u, t)} = D \ {t}
    BY <1>1, <2>1, BeforeIsIrreflexive
  <2>3. Fits(t, D \ {t})
    BY <2>2 DEF IsSchedule
  <2>4. Cardinality(running \union D) <= MaxParallelism
    <3>1. Cardinality(D) = Cardinality(D \ {t}) + 1
      <4>1. Cardinality(D \ {t}) = Cardinality(D) - 1
        BY <1>1, <2>1, FS_RemoveElement
      <4>2. Cardinality(D) \in Nat
        BY <1>1, FS_CardinalityType
      <4> QED
        BY <4>1, <4>2
    <3>2. Cardinality(running \union D) = Cardinality(running) + Cardinality(D)
      <4>1. Cardinality(running \cap D) = 0
        <5>1. running \cap D = {}
          BY <1>1
        <5> QED
          BY <5>1, FS_EmptySet, Zenon
      <4>2. Cardinality(running \union D)
              = Cardinality(running) + Cardinality(D) - Cardinality(running \cap D)
        BY <1>1, FS_Union
      <4>3. Cardinality(running) \in Nat /\ Cardinality(D) \in Nat
        BY <1>1, FS_CardinalityType
      <4> QED
        BY <4>1, <4>2, <4>3
    <3>3. Cardinality(running) \in Nat /\ Cardinality(D \ {t}) \in Nat
      BY <1>1, FS_RemoveElement, FS_CardinalityType
    <3> QED
      BY <2>3, <3>1, <3>2, <3>3, FleetAssumption DEF Fits
  <2>5. ASSUME NEW r \in Resources PROVE Used(running \union D, r) <= Total[r]
    <3>1. IsFiniteSet(D \ {t}) /\ \A u \in Tasks : Need(r)[u] \in Nat
      BY <1>1, FS_RemoveElement, NeedIsNat
    <3>2. Used(running \union D, r) = Used(running, r) + Used(D, r)
      BY <1>1, <3>1, UsedIsSum, SumOfUnion
    <3>3. Used(D, r) = Budget[t][r] + Used(D \ {t}, r)
      <4>1. \A u \in D : Need(r)[u] \in Nat
        BY <1>1, NeedIsNat
      <4>2. Sum(Need(r), D) = Need(r)[t] + Sum(Need(r), D \ {t})
        BY <1>1, <2>1, <4>1, SumSplits
      <4>3. Need(r)[t] = Budget[t][r]
        BY <1>1, <2>1 DEF Need
      <4> QED
        BY <1>1, <4>2, <4>3, UsedIsSum
    <3>4. Used(running, r) \in Nat /\ Used(D \ {t}, r) \in Nat /\ Budget[t][r] \in Nat
      <4>1. /\ Used(running, r) = Sum(Need(r), running)
            /\ Used(D \ {t}, r) = Sum(Need(r), D \ {t})
        BY <1>1, UsedIsSum
      <4>2. Sum(Need(r), running) \in Nat /\ Sum(Need(r), D \ {t}) \in Nat
        BY <1>1, <3>1, SumNat
      <4> QED
        BY <1>1, <2>1, <4>1, <4>2, ItemsAssumption
    <3>5. Used(running, r) + Used(D \ {t}, r) + Budget[t][r] <= Total[r]
      BY <2>3 DEF Fits
    <3> QED
      BY <3>2, <3>3, <3>4, <3>5, FleetAssumption
  <2> QED
    BY <2>4, <2>5 DEF CapacityOf
<1> QED
  BY <1>2, <1>3

\* Fewer tasks need no more.
LEMMA FewerFit ==
    ASSUME NEW S \in SUBSET Tasks, CapacityOf(S), NEW T \in SUBSET S
    PROVE  CapacityOf(T)
<1>1. IsFiniteSet(S) /\ IsFiniteSet(T)
  BY ItemsAssumption, FS_Subset
<1>2. Cardinality(T) <= MaxParallelism
  <2>1. Cardinality(T) <= Cardinality(S)
    BY <1>1, FS_Subset
  <2>2. Cardinality(T) \in Nat /\ Cardinality(S) \in Nat
    BY <1>1, FS_CardinalityType
  <2> QED
    BY <2>1, <2>2, FleetAssumption DEF CapacityOf
<1>3. ASSUME NEW r \in Resources PROVE Used(T, r) <= Total[r]
  <2>1. Used(S, r) = Sum(Need(r), S) /\ Used(T, r) = Sum(Need(r), T)
    BY UsedIsSum
  <2>2. \A t \in S : Need(r)[t] \in Nat
    BY NeedIsNat
  <2>3. Sum(Need(r), T) <= Sum(Need(r), S)
    BY <1>1, <2>2, SumOfPart
  <2>4. Sum(Need(r), T) \in Nat /\ Sum(Need(r), S) \in Nat
    BY <1>1, <2>2, SumNat
  <2> QED
    BY <2>1, <2>3, <2>4, FleetAssumption DEF CapacityOf
<1> QED
  BY <1>2, <1>3 DEF CapacityOf

\* A fleet that runs nothing is within its capacity.
LEMMA InitFits == Init => CapacityOf(running \union admitted)
<1> SUFFICES ASSUME Init PROVE CapacityOf({})
  BY DEF Init
<1>1. Cardinality({}) <= MaxParallelism
  BY FS_EmptySet, FleetAssumption
<1>2. ASSUME NEW r \in Resources PROVE Used({}, r) <= Total[r]
  BY UsedIsSum, SumEmpty, FleetAssumption
<1> QED
  BY <1>1, <1>2 DEF CapacityOf

\* A cycle fills what is free; afterwards tasks start, and leave.
LEMMA NextFits ==
    ASSUME TypeOK, CapacityOf(running \union admitted), [Next]_vars
    PROVE  CapacityOf(running \union admitted)'
<1>1. running \union admitted \in SUBSET Tasks
  BY DEF TypeOK
<1>2. ASSUME running' \union admitted' \subseteq running \union admitted
      PROVE  CapacityOf(running \union admitted)'
  <2>1. CapacityOf(running' \union admitted')
    BY <1>1, <1>2, FewerFit
  <2> QED
    BY <2>1 DEF CapacityOf, Used, MapThenSumSet, MapThenFoldSet
<1>3. CASE Cycle
  <2>1. running \union admitted = running /\ running' = running
    BY <1>3 DEF Cycle, TypeOK, host
  <2>2. PICK D \in SUBSET Ready : IsSchedule(D) /\ admitted' \in SUBSET D
    BY <1>3 DEF Cycle
  <2>3. CapacityOf(running \union D)
    BY <2>1, <2>2, ScheduleFits DEF TypeOK
  <2>4. running \union D \in SUBSET Tasks
    BY DEF TypeOK, Ready
  <2>5. CapacityOf(running' \union admitted')
    BY <2>1, <2>2, <2>3, <2>4, FewerFit
  <2> QED
    BY <2>5 DEF CapacityOf, Used, MapThenSumSet, MapThenFoldSet
<1>4. CASE Fleet /\ ~ Cycle
  BY <1>2, <1>4 DEF Fleet, EndCycle, Start, Stop, host
<1>5. CASE Around
  BY <1>2, <1>5 DEF Around, Finish, Fail, Leave, Write, Commit, Hide, Show, FallSilent,
     Expire, host, result
<1>6. CASE Gc \/ UNCHANGED vars
  BY <1>2, <1>6 DEF Gc, Sweep, Recheck, Remove, EndSweep, vars, host, result
<1> QED
  BY <1>3, <1>4, <1>5, <1>6 DEF Next

\* Whatever the queue, its budgets and its order: what runs and what a cycle has
\* admitted never exceeds the slots or a budget of the fleet.
THEOREM CapacityIsKept == Spec => []CapacityHolds
<1>1. CapacityOf(running \union admitted) <=> CapacityHolds
  BY DEF CapacityOf, CapacityHolds
<1>2. TypeOK /\ CapacityOf(running \union admitted) /\ [Next]_vars
        => CapacityOf(running \union admitted)'
  BY NextFits
<1> QED
  BY <1>1, <1>2, InitFits, TypeCorrect, PTL DEF Spec

-----------------------------------------------------------------------------
(***************************************************************************)
(* A cycle is a function of the fleet, as run_cycle is.                    *)
(***************************************************************************)

\* D has of the tasks V the ones that R allows beside those of D before them.
IsChosen(R, D, V) == \A t \in V : t \in D <=> << t, {u \in D : Before(u, t)} >> \in R

\* There is one such part of V and no other.
ChoosesOne(R, V) ==
    \E D \in SUBSET V :
        IsChosen(R, D, V) /\ \A E \in SUBSET V : IsChosen(R, E, V) => E = D

\* The last of V does not bear on the others, and is chosen beside all that are.
LEMMA LastIsChosenLast ==
    ASSUME NEW R, NEW V \in SUBSET Tasks, NEW t \in V,
           \A u \in V \ {t} : Before(u, t), NEW D \in SUBSET V
    PROVE  IsChosen(R, D, V) <=>
             /\ IsChosen(R, D \ {t}, V \ {t})
             /\ t \in D <=> << t, D \ {t} >> \in R
<1>1. ASSUME NEW u \in V \ {t}
      PROVE  {v \in D : Before(v, u)} = {v \in D \ {t} : Before(v, u)}
  <2>1. ~ Before(t, u)
    BY <1>1, BeforeIsTransitive, BeforeIsIrreflexive
  <2> QED
    BY <2>1
<1>2. {v \in D : Before(v, t)} = D \ {t}
  BY BeforeIsIrreflexive
<1> QED
  BY <1>1, <1>2 DEF IsChosen

\* Taking tasks in the scheduler's order is a way to choose exactly one part:
\* otherwise there were a smallest queue without, and its last task is chosen
\* in one way beside what is chosen of the others.
LEMMA OrderChoosesOne ==
    ASSUME NEW R, NEW Q \in SUBSET Tasks
    PROVE  ChoosesOne(R, Q)
<1> DEFINE B == {V \in SUBSET Q : ~ ChoosesOne(R, V)}
<1> SUFFICES ASSUME B # {} PROVE FALSE
  OBVIOUS
<1>1. PICK V \in B : \A W \in B : W \subseteq V => W = V
  <2>1. B \in SUBSET SUBSET Q
    OBVIOUS
  <2>2. IsFiniteSet(Q)
    BY ItemsAssumption, FS_Subset
  <2> HIDE DEF B
  <2> QED
    BY <2>1, <2>2, SmallestSubset
<1>2. V # {}
  <2>1. ChoosesOne(R, {})
    BY DEF ChoosesOne, IsChosen
  <2> QED
    BY <2>1
<1>3. PICK t \in V : \A u \in V \ {t} : Before(u, t)
  BY <1>2, OneIsLast
<1>4. ChoosesOne(R, V \ {t})
  <2>1. V \ {t} \notin B
    BY <1>1
  <2> QED
    BY <2>1
<1>5. PICK D \in SUBSET (V \ {t}) :
          /\ IsChosen(R, D, V \ {t})
          /\ \A E \in SUBSET (V \ {t}) : IsChosen(R, E, V \ {t}) => E = D
  BY <1>4 DEF ChoosesOne
<1>6. V \in SUBSET Tasks
  OBVIOUS
<1>7. \A E \in SUBSET V :
          IsChosen(R, E, V) <=> E \ {t} = D /\ (t \in E <=> << t, D >> \in R)
  <2> TAKE E \in SUBSET V
  <2>1. IsChosen(R, E, V) <=>
          IsChosen(R, E \ {t}, V \ {t}) /\ (t \in E <=> << t, E \ {t} >> \in R)
    BY <1>3, <1>6, LastIsChosenLast
  <2>2. E \ {t} \in SUBSET (V \ {t})
    OBVIOUS
  <2>3. IsChosen(R, E \ {t}, V \ {t}) <=> E \ {t} = D
    BY <1>5, <2>2
  <2> QED
    BY <2>1, <2>3
<1>8. ChoosesOne(R, V)
  <2> DEFINE chosen == IF << t, D >> \in R THEN D \union {t} ELSE D
  <2>1. chosen \in SUBSET V /\ chosen \ {t} = D /\ (t \in chosen <=> << t, D >> \in R)
    OBVIOUS
  <2>2. \A E \in SUBSET V : E \ {t} = D /\ (t \in E <=> << t, D >> \in R) => E = chosen
    OBVIOUS
  <2> HIDE DEF chosen
  <2> QED
    BY <1>7, <2>1, <2>2 DEF ChoosesOne
<1> QED
  BY <1>8

\* In whatever state a cycle runs, there is one schedule of the ready tasks and
\* one admission of what it dispatches: the order of the queue leaves run_cycle
\* no choice, and each cycle finds something to return.
THEOREM CycleIsDetermined ==
    \E D \in SUBSET Ready :
        /\ IsSchedule(D)
        /\ \A E \in SUBSET Ready : IsSchedule(E) => E = D
        /\ \E A \in SUBSET D :
              IsAdmission(A, D) /\ \A E \in SUBSET D : IsAdmission(E, D) => E = A
<1> DEFINE fitting == {x \in Tasks \X SUBSET Tasks : Fits(x[1], x[2])}
           admissible == {x \in Tasks \X SUBSET Tasks :
                            Admissible(RequestedLease[x[1]],
                                       Held \union {RequestedLease[u] : u \in x[2]})}
<1>1. Ready \in SUBSET Tasks
  BY DEF Ready
<1>2. ASSUME NEW D \in SUBSET Ready PROVE IsSchedule(D) <=> IsChosen(fitting, D, Ready)
  <2>1. ASSUME NEW t \in Ready
        PROVE  << t, {u \in D : Before(u, t)} >> \in fitting
                 <=> Fits(t, {u \in D : Before(u, t)})
    BY <1>1
  <2> HIDE DEF fitting
  <2> QED
    BY <2>1 DEF IsSchedule, IsChosen
<1>3. ASSUME NEW D \in SUBSET Ready, NEW A \in SUBSET D
      PROVE  IsAdmission(A, D) <=> IsChosen(admissible, A, D)
  <2>1. ASSUME NEW t \in D
        PROVE  << t, {u \in A : Before(u, t)} >> \in admissible
                 <=> Admissible(RequestedLease[t],
                        Held \union {RequestedLease[u] : u \in {v \in A : Before(v, t)}})
    BY <1>1
  <2> HIDE DEF admissible
  <2> QED
    BY <2>1 DEF IsAdmission, IsChosen
<1> HIDE DEF fitting, admissible
<1>4. PICK D \in SUBSET Ready :
          /\ IsChosen(fitting, D, Ready)
          /\ \A E \in SUBSET Ready : IsChosen(fitting, E, Ready) => E = D
  BY <1>1, OrderChoosesOne DEF ChoosesOne
<1>5. PICK A \in SUBSET D :
          /\ IsChosen(admissible, A, D)
          /\ \A E \in SUBSET D : IsChosen(admissible, E, D) => E = A
  BY <1>1, OrderChoosesOne DEF ChoosesOne
<1>6. IsSchedule(D) /\ \A E \in SUBSET Ready : IsSchedule(E) => E = D
  BY <1>2, <1>4
<1>7. IsAdmission(A, D) /\ \A E \in SUBSET D : IsAdmission(E, D) => E = A
  BY <1>3, <1>5
<1> QED
  BY <1>6, <1>7

-----------------------------------------------------------------------------
(***************************************************************************)
(* The gateway: what a receipt says is true of its run.                    *)
(***************************************************************************)

Phases ==
    {"idle", "claimed", "launch", "wait", "drain", "paths", "events", "diff",
     "cleanup", "receipt", "done"}

\* The phases between the addition of the worktree and its removal.
WithTree == {"launch", "wait", "drain", "paths", "events", "diff"}

\* The phases that the wait leads to.
AfterWait == {"paths", "events", "diff", "cleanup", "receipt"}

Declined == [status |-> "DECLINED"]

Receipts ==
    [status : {"PASS", "FAIL"}, run : Runs, timedOut : BOOLEAN, diff : SUBSET Entries]

\* The types of the gateway's variables.
GatewayTypeOK ==
    /\ phase \in [Runs -> Phases]
    /\ output \in [Runs -> Outputs \union {None}]
    /\ made \subseteq Outputs
    /\ receipt \in [Outputs -> Receipts \union {None, Declined}]
    /\ tree \in [Runs -> (SUBSET Entries) \union {None}]
    /\ leader \in [Runs -> Ends \union {"alive", None}]
    /\ helper \in [Runs -> Helpers \union {None}]
    /\ reported \in [Runs -> Ends \union {None}]
    /\ timedOut \in [Runs -> BOOLEAN] /\ residue \in [Runs -> BOOLEAN]
    /\ diff \in [Runs -> SUBSET Entries]
    /\ verdict \in [Runs -> {"PASS", "FAIL", None}]
    /\ mishaps \in 0..MaxMishaps

\* A Worker is there from the launch on, and what leads out of the wait is its
\* end with that of its streams.
WaitInv(r) ==
    /\ phase[r] \in {"idle", "claimed", "launch"} =>
          leader[r] = None /\ helper[r] = None /\ ~ timedOut[r]
    /\ phase[r] \in WithTree => tree[r] # None
    /\ phase[r] \in {"wait", "drain", "paths", "events", "diff"} => leader[r] # None
    /\ phase[r] \in AfterWait => StreamsClosed(r)

\* Whoever was killed is gone, and so is the helper that was in the group.
KillInv(r) ==
    timedOut[r] => leader[r] # "alive" /\ ~ (HelperRuns(r) /\ helper[r].group)

\* The changes are within the lease's roots as the check reads them, but for what
\* was not noticed.
WithinRoots(r, changes) ==
    Unnoticed(r) \/ \A e \in changes : \A i \in DOMAIN e : AsRead(e)[i] \in Allowed

\* What was checked stays so until it is recorded, and a verdict stays true.
VerdictInv(r) ==
    /\ phase[r] \in {"events", "diff"} => WithinRoots(r, tree[r])
    /\ phase[r] = "receipt" => tree[r] = None /\ verdict[r] # None
    /\ verdict[r] # None =>
          /\ phase[r] \in {"cleanup", "receipt", "done"}
          /\ leader[r] \in Ends
          /\ WithinRoots(r, diff[r])
          /\ verdict[r] = "PASS" => leader[r] = "success" /\ ~ timedOut[r]

RunInv(r) == WaitInv(r) /\ KillInv(r) /\ VerdictInv(r)

\* A directory is claimed once, for a run that has begun.
ClaimInv ==
    /\ \A r \in Runs : output[r] # None => output[r] \in made /\ phase[r] # "idle"
    /\ \A r, q \in Runs : output[r] = output[q] /\ output[r] # None => r = q
    /\ \A r \in Runs :
          phase[r] \in WithTree \union AfterWait \union {"claimed"} => output[r] # None

\* A receipt is in its run's directory, says what the verdict was, and is the
\* last thing the run does.
ReceiptInv(o) ==
    o \in Executed =>
       LET r == receipt[o].run
       IN  /\ receipt[o] \in Receipts
           /\ output[r] = o /\ phase[r] = "done" /\ tree[r] = None
           /\ verdict[r] # None
           /\ receipt[o].status = verdict[r] /\ receipt[o].diff = diff[r]

\* The inductive invariant of the gateway.
GatewayInv ==
    /\ GatewayTypeOK
    /\ ClaimInv
    /\ \A r \in Runs : RunInv(r)
    /\ \A o \in Outputs : ReceiptInv(o)

\* One step of one run, or of its Worker.
RunStep(r) == Begin(r) \/ Step(r) \/ Misfortune(r) \/ Worker(r)

-----------------------------------------------------------------------------
\* Before any run has begun the invariant holds.
LEMMA GatewayInitEstablishes == GatewayInit => GatewayInv
<1> SUFFICES ASSUME GatewayInit PROVE GatewayInv
  OBVIOUS
<1> USE DEF GatewayInit
<1>1. GatewayTypeOK
  <2>1. mishaps \in 0..MaxMishaps
    BY MishapsAssumption
  <2>2. phase \in [Runs -> Phases]
    BY DEF Phases
  <2>3. receipt \in [Outputs -> Receipts \union {None, Declined}]
    OBVIOUS
  <2>4. timedOut \in [Runs -> BOOLEAN] /\ residue \in [Runs -> BOOLEAN]
    OBVIOUS
  <2>5. tree \in [Runs -> (SUBSET Entries) \union {None}] /\ diff \in [Runs -> SUBSET Entries]
    OBVIOUS
  <2> QED
    BY <2>1, <2>2, <2>3, <2>4, <2>5 DEF GatewayTypeOK
<1>2. ClaimInv
  BY DEF ClaimInv, WithTree, AfterWait
<1>3. \A r \in Runs : RunInv(r)
  BY DEF RunInv, WaitInv, KillInv, VerdictInv, AfterWait, WithTree
<1>4. \A o \in Outputs : ReceiptInv(o)
  BY DEF ReceiptInv, Executed
<1> QED
  BY <1>1, <1>2, <1>3, <1>4 DEF GatewayInv

\* A helper that ends, by itself or with its group, stays what it was.
LEMMA HelperStops ==
    ASSUME helper \in [Runs -> Helpers \union {None}], NEW r \in Runs, helper[r] # None,
           helper' = [helper EXCEPT ![r].running = FALSE]
    PROVE  /\ helper' \in [Runs -> Helpers \union {None}]
           /\ helper'[r] # None
           /\ ~ helper'[r].running
           /\ helper'[r].group = helper[r].group
           /\ helper'[r].streams = helper[r].streams
<1>1. helper[r] \in Helpers
  OBVIOUS
<1>2. helper'[r] = [helper[r] EXCEPT !.running = FALSE]
  OBVIOUS
<1>3. [helper[r] EXCEPT !.running = FALSE] \in Helpers
  BY <1>1 DEF Helpers
<1>4. \A q \in Runs : helper'[q] \in Helpers \union {None}
  BY <1>2, <1>3
<1>5. /\ [helper[r] EXCEPT !.running = FALSE].group = helper[r].group
      /\ [helper[r] EXCEPT !.running = FALSE].streams = helper[r].streams
      /\ [helper[r] EXCEPT !.running = FALSE].running = FALSE
  BY <1>1 DEF Helpers
<1> QED
  BY <1>2, <1>3, <1>4, <1>5, NoneAssumption

\* Every step of a run keeps the types.
LEMMA GatewayTyped ==
    ASSUME GatewayTypeOK, NEW r \in Runs, RunInv(r), RunStep(r)
    PROVE  GatewayTypeOK'
<1> USE DEF GatewayTypeOK, Go, work, gateway
<1>1. \A to \in Phases : [phase EXCEPT ![r] = to] \in [Runs -> Phases]
  OBVIOUS
<1>2. Phases \ {"idle"} =
        {"claimed", "launch", "wait", "drain", "paths", "events", "diff", "cleanup",
         "receipt", "done"}
  BY DEF Phases
<1>3. Mishap => mishaps' \in 0..MaxMishaps
  BY MishapsAssumption DEF Mishap
<1>4. ASSUME NEW o \in Outputs, Decline(r, o) PROVE GatewayTypeOK'
  <2>1. receipt' \in [Outputs -> Receipts \union {None, Declined}]
    BY <1>4 DEF Decline, Declined
  <2> QED
    BY <1>1, <1>2, <1>4, <2>1 DEF Decline
<1>5. ASSUME NEW o \in Outputs, Claim(r, o) \/ Refuse(r, o) PROVE GatewayTypeOK'
  BY <1>1, <1>2, <1>5 DEF Claim, Refuse
<1>6. CASE AddWorktree(r)
  BY <1>1, <1>2, <1>6 DEF AddWorktree
<1>7. CASE Launch(r)
  BY <1>1, <1>2, <1>7 DEF Launch
<1>8. CASE Reap(r) \/ Drain(r)
  BY <1>1, <1>2, <1>8 DEF Reap, Drain
<1>9. CASE CheckPaths(r) \/ RejectWork(r) \/ CheckEvents(r) \/ RejectEvents(r)
  BY <1>1, <1>2, <1>9 DEF CheckPaths, RejectWork, CheckEvents, RejectEvents
<1>10. CASE Timeout(r)
  <2>1. helper' \in [Runs -> Helpers \union {None}]
    BY <1>10, HelperStops DEF Timeout
  <2>2. leader' \in [Runs -> Ends \union {"alive", None}]
    BY <1>10 DEF Timeout, Ends
  <2> QED
    BY <1>1, <1>2, <1>10, <2>1, <2>2 DEF Timeout
<1>11. CASE TakeDiff(r)
  <2>1. tree[r] \in SUBSET Entries
    BY <1>11 DEF TakeDiff, RunInv, WaitInv, WithTree
  <2>2. diff' \in [Runs -> SUBSET Entries]
    BY <1>11, <2>1 DEF TakeDiff
  <2>3. verdict' \in [Runs -> {"PASS", "FAIL", None}]
    BY <1>11 DEF TakeDiff, Verdict
  <2> QED
    BY <1>1, <1>2, <1>11, <2>2, <2>3 DEF TakeDiff
<1>12. CASE Cleanup(r) \/ CleanupTwice(r)
  BY <1>1, <1>2, <1>3, <1>12 DEF Cleanup, CleanupTwice, AfterCleanup
<1>13. CASE WriteReceipt(r)
  <2>1. [status |-> verdict[r], run |-> r, timedOut |-> timedOut[r], diff |-> diff[r]]
          \in Receipts
    BY <1>13 DEF WriteReceipt, RunInv, VerdictInv, Receipts
  <2>2. receipt' \in [Outputs -> Receipts \union {None, Declined}]
    BY <1>13, <2>1 DEF WriteReceipt
  <2> QED
    BY <1>1, <1>2, <1>13, <2>2 DEF WriteReceipt
<1>14. CASE FailToAdd(r) \/ FailCommand(r) \/ FailToClean(r) \/ Crash(r)
  BY <1>1, <1>2, <1>3, <1>14 DEF FailToAdd, FailCommand, FailToClean, Crash
<1>15. ASSUME NEW e \in Entries, Change(r, e) PROVE GatewayTypeOK'
  BY <1>15 DEF Change
<1>16. ASSUME NEW end \in Ends, Report(r, end) \/ Exit(r, end) PROVE GatewayTypeOK'
  BY <1>16 DEF Report, Exit
<1>17. ASSUME NEW h \in Helpers, Fork(r, h) PROVE GatewayTypeOK'
  BY <1>17 DEF Fork
<1>18. CASE HelperExit(r)
  BY <1>18, HelperStops DEF HelperExit, HelperRuns
<1> QED
  BY <1>4, <1>5, <1>6, <1>7, <1>8, <1>9, <1>10, <1>11, <1>12, <1>13, <1>14, <1>15,
     <1>16, <1>17, <1>18
  DEF RunStep, Begin, Step, Misfortune, Worker

\* A step keeps what is known of its own run.  In the wait only the Worker and
\* its helper act on it; after the wait only a helper that nobody notices does.
LEMMA OwnRunKept ==
    ASSUME GatewayTypeOK, NEW r \in Runs, RunInv(r), RunStep(r)
    PROVE  RunInv(r)'
<1> USE NoneAssumption
    DEF GatewayTypeOK, Go, work, gateway, RunInv, WaitInv, KillInv, VerdictInv,
        WithTree, AfterWait, WithinRoots, Unnoticed, StreamsClosed, HelperRuns
<1>1. CASE Begin(r)
  BY <1>1 DEF Begin, Decline, Claim, Refuse
<1>2. CASE Misfortune(r)
  BY <1>2 DEF Misfortune, FailToAdd, FailCommand, CleanupTwice, FailToClean, Crash,
     AfterCleanup
<1>3. CASE AddWorktree(r)
  BY <1>3 DEF AddWorktree
<1>4. CASE Launch(r)
  BY <1>4 DEF Launch
<1>5. CASE Reap(r) \/ Drain(r)
  BY <1>5 DEF Reap, Drain
<1>6. CASE Timeout(r)
  BY <1>6, HelperStops DEF Timeout, Ends
<1>7. CASE CheckPaths(r) \/ RejectWork(r) \/ CheckEvents(r) \/ RejectEvents(r)
  BY <1>7 DEF CheckPaths, RejectWork, CheckEvents, RejectEvents
<1>8. CASE TakeDiff(r)
  BY <1>8 DEF TakeDiff, Verdict, Ends
<1>9. CASE Cleanup(r) \/ WriteReceipt(r)
  BY <1>9 DEF Cleanup, AfterCleanup, WriteReceipt
<1>10. ASSUME NEW e \in Entries, Change(r, e) PROVE RunInv(r)'
  BY <1>10 DEF Change, Active
<1>11. ASSUME NEW end \in Ends, Report(r, end) PROVE RunInv(r)'
  BY <1>11 DEF Report
<1>12. ASSUME NEW end \in Ends, Exit(r, end) PROVE RunInv(r)'
  BY <1>12 DEF Exit, Ends
<1>13. ASSUME NEW h \in Helpers, Fork(r, h) PROVE RunInv(r)'
  BY <1>13 DEF Fork, Helpers
<1>14. CASE HelperExit(r)
  BY <1>14, HelperStops DEF HelperExit
<1> QED
  BY <1>1, <1>2, <1>3, <1>4, <1>5, <1>6, <1>7, <1>8, <1>9, <1>10, <1>11, <1>12, <1>13,
     <1>14
  DEF RunStep, Step, Worker

\* A step of a run leaves what belongs to another one alone.
LEMMA OtherRunsKept ==
    ASSUME GatewayTypeOK, NEW r \in Runs, RunStep(r), NEW q \in Runs, q # r
    PROVE  /\ phase'[q] = phase[q] /\ output'[q] = output[q]
           /\ tree'[q] = tree[q] /\ leader'[q] = leader[q] /\ helper'[q] = helper[q]
           /\ timedOut'[q] = timedOut[q]
           /\ diff'[q] = diff[q] /\ verdict'[q] = verdict[q]
<1> USE DEF GatewayTypeOK, Go, work, gateway
<1>1. CASE Begin(r)
  BY <1>1 DEF Begin, Decline, Claim, Refuse
<1>2. CASE Step(r)
  BY <1>2 DEF Step, AddWorktree, Launch, Reap, Timeout, Drain, CheckPaths, RejectWork,
     CheckEvents, RejectEvents, TakeDiff, Cleanup, WriteReceipt
<1>3. CASE Misfortune(r)
  BY <1>3 DEF Misfortune, FailToAdd, FailCommand, CleanupTwice, FailToClean, Crash
<1>4. CASE Worker(r)
  BY <1>4 DEF Worker, Change, Report, Exit, Fork, HelperExit
<1> QED
  BY <1>1, <1>2, <1>3, <1>4 DEF RunStep

\* A run claims its directory when it begins, and only a directory that is not
\* there.
LEMMA ClaimsKept ==
    ASSUME GatewayTypeOK, ClaimInv, NEW r \in Runs, RunStep(r)
    PROVE  ClaimInv'
<1> USE DEF GatewayTypeOK, Go, work, gateway
<1>1. ASSUME NEW o \in Outputs, Claim(r, o) PROVE ClaimInv'
  BY <1>1, NoneAssumption DEF Claim, ClaimInv, WithTree, AfterWait
<1>2. ASSUME NEW o \in Outputs, Decline(r, o) \/ Refuse(r, o) PROVE ClaimInv'
  BY <1>2 DEF Decline, Refuse, ClaimInv, WithTree, AfterWait
<1>3. CASE Step(r) \/ Misfortune(r) \/ Worker(r)
  <2>1. UNCHANGED << output, made >>
    BY <1>3 DEF Step, AddWorktree, Launch, Reap, Timeout, Drain, CheckPaths, RejectWork,
       CheckEvents, RejectEvents, TakeDiff, Cleanup, WriteReceipt, Misfortune, FailToAdd,
       FailCommand, CleanupTwice, FailToClean, Crash, Worker, Change, Report, Exit, Fork,
       HelperExit
  <2>2. phase'[r] # "idle" \/ phase'[r] = phase[r]
    BY <1>3 DEF Step, AddWorktree, Launch, Reap, Timeout, Drain, CheckPaths, RejectWork,
       CheckEvents, RejectEvents, TakeDiff, Cleanup, WriteReceipt, Misfortune, FailToAdd,
       FailCommand, CleanupTwice, FailToClean, Crash, Worker, Change, Report, Exit, Fork,
       HelperExit, AfterCleanup
  <2>3. phase'[r] # "done" => phase[r] \in WithTree \union AfterWait \union {"claimed"}
                              \/ phase'[r] = phase[r]
    BY <1>3 DEF Step, AddWorktree, Launch, Reap, Timeout, Drain, CheckPaths, RejectWork,
       CheckEvents, RejectEvents, TakeDiff, Cleanup, WriteReceipt, Misfortune, FailToAdd,
       FailCommand, CleanupTwice, FailToClean, Crash, Worker, Change, Report, Exit, Fork,
       HelperExit, WithTree, AfterWait
  <2> QED
    BY <2>1, <2>2, <2>3, OtherRunsKept DEF ClaimInv, WithTree, AfterWait
<1> QED
  BY <1>1, <1>2, <1>3 DEF RunStep, Begin

\* A receipt is written by a run that has none yet, in a directory of its own;
\* nothing it says changes any more.
LEMMA ReceiptsKept ==
    ASSUME GatewayInv, NEW r \in Runs, RunStep(r), NEW o \in Outputs
    PROVE  ReceiptInv(o)'
<1> DEFINE q == receipt[o].run
<1>1. /\ GatewayTypeOK /\ ClaimInv /\ RunInv(r) /\ ReceiptInv(o)
      /\ GatewayTypeOK' /\ RunInv(r)'
  BY GatewayTyped, OwnRunKept DEF GatewayInv
<1>2. ASSUME receipt'[o] = receipt[o] PROVE ReceiptInv(o)'
  <2> SUFFICES ASSUME o \in Executed PROVE ReceiptInv(o)'
    BY <1>2 DEF ReceiptInv, Executed
  <2>1. /\ receipt[o] \in Receipts /\ q \in Runs
        /\ output[q] = o /\ phase[q] = "done" /\ tree[q] = None /\ verdict[q] # None
        /\ receipt[o].status = verdict[q] /\ receipt[o].diff = diff[q]
    BY <1>1 DEF ReceiptInv, Receipts
  <2>2. CASE q # r
    BY <1>1, <1>2, <2>1, <2>2, OtherRunsKept DEF ReceiptInv
  <2>3. CASE q = r
    <3>1. /\ phase'[r] = "done" /\ output'[r] = output[r]
          /\ tree'[r] = None /\ verdict'[r] = verdict[r] /\ diff'[r] = diff[r]
      BY <2>1, <2>3 DEF RunStep, Go, work, gateway, Begin, Decline, Claim, Refuse, Step,
         AddWorktree, Launch, Reap, Timeout, Drain, CheckPaths, RejectWork, CheckEvents,
         RejectEvents, TakeDiff, Cleanup, WriteReceipt, Misfortune, FailToAdd,
         FailCommand, CleanupTwice, FailToClean, Crash, Worker, Change, Report, Exit,
         Fork, HelperExit
    <3> QED
      BY <1>2, <2>1, <2>3, <3>1 DEF ReceiptInv
  <2> QED
    BY <2>2, <2>3
<1>3. ASSUME NEW d \in Outputs, Decline(r, d), d = o PROVE ReceiptInv(o)'
  BY <1>1, <1>3 DEF Decline, GatewayTypeOK, ReceiptInv, Executed
<1>4. ASSUME WriteReceipt(r), output[r] = o, receipt'[o] # receipt[o]
      PROVE  ReceiptInv(o)'
  <2>1. receipt'[o] = [status |-> verdict[r], run |-> r, timedOut |-> timedOut[r],
                       diff |-> diff[r]]
    BY <1>1, <1>4 DEF WriteReceipt, GatewayTypeOK
  <2>2. receipt'[o].status # "DECLINED" /\ receipt'[o] \in Receipts
    BY <1>1, <1>4, <2>1 DEF WriteReceipt, Go, GatewayTypeOK, RunInv, VerdictInv, Receipts
  <2>3. phase'[r] = "done" /\ tree'[r] = None /\ verdict'[r] # None
    BY <1>1, <1>4 DEF WriteReceipt, Go, work, GatewayTypeOK, RunInv, VerdictInv
  <2> QED
    BY <1>4, <2>1, <2>2, <2>3 DEF ReceiptInv, WriteReceipt
<1>5. receipt'[o] = receipt[o] \/ (\E d \in Outputs : Decline(r, d) /\ d = o)
        \/ (WriteReceipt(r) /\ output[r] = o)
  BY <1>1 DEF GatewayTypeOK, RunStep, work, gateway, Begin, Decline, Claim, Refuse, Step,
     AddWorktree, Launch, Reap, Timeout, Drain, CheckPaths, RejectWork, CheckEvents,
     RejectEvents, TakeDiff, Cleanup, WriteReceipt, Misfortune, FailToAdd, FailCommand,
     CleanupTwice, FailToClean, Crash, Worker, Change, Report, Exit, Fork, HelperExit
<1> QED
  BY <1>2, <1>3, <1>4, <1>5

\* Every step keeps the invariant.
LEMMA GatewayStepKeeps == GatewayInv /\ [GatewayNext]_gatewayVars => GatewayInv'
<1> SUFFICES ASSUME GatewayInv, [GatewayNext]_gatewayVars PROVE GatewayInv'
  OBVIOUS
<1>1. ASSUME NEW r \in Runs, RunStep(r) PROVE GatewayInv'
  <2>1. GatewayTypeOK' /\ ClaimInv' /\ RunInv(r)'
    BY <1>1, GatewayTyped, ClaimsKept, OwnRunKept DEF GatewayInv
  <2>2. ASSUME NEW q \in Runs, q # r PROVE RunInv(q)'
    BY <1>1, <2>2, OtherRunsKept
    DEF GatewayInv, RunInv, WaitInv, KillInv, VerdictInv, WithinRoots, Unnoticed,
        StreamsClosed, HelperRuns
  <2>3. \A o \in Outputs : ReceiptInv(o)'
    BY <1>1, ReceiptsKept
  <2> QED
    BY <2>1, <2>2, <2>3 DEF GatewayInv
<1>2. CASE UNCHANGED gatewayVars
  BY <1>2 DEF gatewayVars, work, GatewayInv, GatewayTypeOK, ClaimInv, RunInv, WaitInv,
     KillInv, VerdictInv, WithinRoots, Unnoticed, StreamsClosed, HelperRuns, ReceiptInv,
     Executed
<1> QED
  BY <1>1, <1>2 DEF GatewayNext, RunStep

\* The gateway's invariant holds throughout.
LEMMA GatewayInvariance == GatewaySpec => []GatewayInv
BY GatewayInitEstablishes, GatewayStepKeeps, PTL DEF GatewaySpec

\* The gateway's state has its types.
THEOREM GatewayTypeCorrect == GatewaySpec => []GatewayTypeOK
<1>1. GatewayInv => GatewayTypeOK
  BY DEF GatewayInv
<1> QED
  BY <1>1, GatewayInvariance, PTL

\* However a Worker ends, lies or is killed, and whenever the gateway fails: a
\* receipt says PASS only of a Worker that ended with success in its time, and
\* whose worktree is gone.
THEOREM PassesAreEarned == GatewaySpec => []PassIsEarned
<1>1. GatewayInv => PassIsEarned
  BY NoneAssumption DEF GatewayInv, ReceiptInv, Executed, Receipts, RunInv, VerdictInv,
     PassIsEarned
<1> QED
  BY <1>1, GatewayInvariance, PTL

\* The diff of a receipt is within the roots, but for a helper nobody noticed and
\* the paths that the check takes for others.
THEOREM DiffsAreLeased == GatewaySpec => []DiffIsLeased
<1>1. GatewayInv => DiffIsLeased
  BY DEF GatewayInv, ReceiptInv, Executed, Receipts, RunInv, VerdictInv, WithinRoots,
     DiffIsLeased, Misread
<1> QED
  BY <1>1, GatewayInvariance, PTL

\* Only the receipt of a run that was declined replaces one of a run that was
\* carried out: two runs never write to one directory.
ReceiptIsReplaced ==
    [][\A o \in Executed : receipt'[o] \in {receipt[o], Declined}]_gatewayVars

\* So no run loses its receipt to another that was carried out.
THEOREM ReceiptsAreOwn == GatewaySpec => ReceiptIsReplaced
<1>1. GatewayInv /\ [GatewayNext]_gatewayVars
        => [\A o \in Executed : receipt'[o] \in {receipt[o], Declined}]_gatewayVars
  <2> SUFFICES ASSUME GatewayInv, NEW r \in Runs, RunStep(r), NEW o \in Executed
               PROVE  receipt'[o] \in {receipt[o], Declined}
    BY DEF GatewayNext, RunStep
  <2>1. ASSUME NEW d \in Outputs, Decline(r, d) PROVE receipt'[o] \in {receipt[o], Declined}
    BY <2>1 DEF Decline, Declined, GatewayInv, GatewayTypeOK, Executed
  <2>2. CASE WriteReceipt(r)
    <3>1. output[r] # o
      BY <2>2 DEF WriteReceipt, Go, GatewayInv, GatewayTypeOK, ClaimInv, ReceiptInv,
         Executed, Receipts, AfterWait, RunInv, VerdictInv
    <3> QED
      BY <2>2, <3>1 DEF WriteReceipt, GatewayInv, GatewayTypeOK, Executed
  <2>3. receipt' = receipt \/ (\E d \in Outputs : Decline(r, d)) \/ WriteReceipt(r)
    BY DEF RunStep, work, gateway, Begin, Claim, Refuse, Step, AddWorktree, Launch, Reap,
       Timeout, Drain, CheckPaths, RejectWork, CheckEvents, RejectEvents, TakeDiff,
       Cleanup, Misfortune, FailToAdd, FailCommand, CleanupTwice, FailToClean, Crash,
       Worker, Change, Report, Exit, Fork, HelperExit
  <2> QED
    BY <2>1, <2>2, <2>3
<1> QED
  BY <1>1, GatewayInvariance, PTL DEF GatewaySpec, ReceiptIsReplaced
==============================================================================
