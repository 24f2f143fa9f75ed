------------------------- MODULE ProjectTransaction -------------------------
(***************************************************************************)
(* The project bootstrapper: plan, apply and rollback of the files that    *)
(* bettor-arena generates in another repository, one step per file that is *)
(* replaced, with a user who edits the same repository, file operations    *)
(* that fail, and processes that die.                                      *)
(*                                                                         *)
(* A manifest and an apply receipt name their plan by its digest, and a    *)
(* plan names the manifest it was made on by its digest.  So a plan is     *)
(* represented by the sequence of the changes that lead to it, a receipt   *)
(* by its plan, and the manifest by the plan that was applied: << >> is    *)
(* the target without a manifest.  The requirements a plan is made from,   *)
(* and what they generate, are called a release.                           *)
(***************************************************************************)
EXTENDS Naturals, Sequences, FiniteSets

CONSTANTS
    NumPaths,         \* the paths are 1..NumPaths, in the order of the plans
    Releases,         \* what can be installed
    Contents,         \* the contents of files
    Absent,           \* there is no file, or no clone
    Partial,          \* there is a part of a clone
    Generates,        \* what a release generates for a path, or Absent
    Embedded,         \* the releases that come with a clone of their source
    Executables,      \* the paths that are generated with mode 755
    ConcurrentEdits,  \* the user edits files while a command runs
    MaxDepth,         \* bound: changes that lead to one plan
    MaxPlans          \* bound: plans that are made

Paths == 1..NumPaths
Files == [Paths -> Contents \union {Absent}]

ASSUME SizesAssumption == NumPaths \in Nat /\ MaxDepth \in Nat /\ MaxPlans \in Nat

ASSUME ReleasesAssumption ==
    /\ Absent \notin Contents \union Releases
    /\ Partial \notin Releases \union {Absent}
    /\ Generates \in [Releases -> Files]
    /\ Embedded \subseteq Releases
    /\ ConcurrentEdits \in BOOLEAN

VARIABLES
    files,            \* the files of the target
    executable,       \* those of them whose mode is 755
    managed,          \* the managed manifest
    clone,            \* the release that is cloned into the target, if any
    plans,            \* the plans that were made
    receipts,         \* the plans there is an apply receipt for
    pc,               \* where the command under way is
    plan,             \* the plan it works on
    next,             \* the paths before this one are as the plan wants them
    edited,           \* history: the paths the user wrote last
    crashed           \* history: a command died

target == << files, executable, managed, clone >>
work == << pc, plan, next >>
vars == << target, plans, receipts, work, edited, crashed >>

Labels == { "idle", "clone", "files", "manifest", "receipt",
            "restore", "restoreManifest", "removeClone" }

Changes == [release : Releases, before : Files]

-----------------------------------------------------------------------------
\* The manifest a plan was made on, the release it installs, and the contents
\* it found.
Previous(q) == SubSeq(q, 1, Len(q) - 1)
Release(q) == q[Len(q)].release
Before(q, p) == q[Len(q)].before[p]

\* What the manifest says of a path: managedMap.
Owned(q, p) == IF q = << >> THEN Absent ELSE Generates[Release(q)][p]

\* The plan names the path, to write it or to delete it.
Named(q, p) == Owned(q, p) # Absent \/ Owned(Previous(q), p) # Absent

-----------------------------------------------------------------------------
Init ==
    /\ files \in Files
    /\ executable \in SUBSET {p \in Paths : files[p] # Absent}
    /\ managed = << >>
    /\ clone = Absent
    /\ plans = {}
    /\ receipts = {}
    /\ pc = "idle" /\ plan = << >> /\ next = 1
    /\ edited = Paths
    /\ crashed = FALSE

\* Mutant: a file that is in the way of a new one is planned over.
NoConflict_Ignored(r) == TRUE

\* No file that the manifest does not own is in the way of release r.
NoConflict(r) ==
    \A p \in Paths :
        Generates[r][p] # Absent /\ files[p] # Absent => Owned(managed, p) # Absent

\* The files the manifest owns are as they were installed.
ManagedIsIntact ==
    \A p \in Paths : Owned(managed, p) # Absent => files[p] = Owned(managed, p)

Plannable(r) == ManagedIsIntact /\ NoConflict(r)

Planned(r) ==
    LET owned(p) == Generates[r][p] # Absent \/ Owned(managed, p) # Absent
    IN  Append(managed,
               [ release |-> r,
                 before |-> [p \in Paths |-> IF owned(p) THEN files[p] ELSE Absent] ])

\* plan reads the target, and writes nothing but the plan.
Plan(r) ==
    /\ pc = "idle"
    /\ Len(managed) < MaxDepth
    /\ Plannable(r)
    /\ plans' = plans \union {Planned(r)}
    /\ Cardinality(plans') <= MaxPlans
    /\ UNCHANGED << target, receipts, work, edited, crashed >>

-----------------------------------------------------------------------------
\* Mutant: the files are not compared with what the plan found.
FilesAsPlanned_Unchecked(q) == TRUE

FilesAsPlanned(q) == \A p \in Paths : Named(q, p) => files[p] = Before(q, p)

\* Apply also refuses a plan when the target's HEAD has moved: that apply is
\* one that does not begin.
Applicable(q) ==
    /\ managed = Previous(q)
    /\ FilesAsPlanned(q)
    /\ Release(q) \in Embedded => clone = Absent

\* The receipt has a fresh name: the default one is that of the plan, and
\* --receipt gives another.
BeginApply(q) ==
    /\ pc = "idle"
    /\ Applicable(q)
    /\ pc' = "clone" /\ plan' = q /\ next' = 1
    /\ UNCHANGED << target, plans, receipts, edited, crashed >>

\* A clone that fails removes what it left.
CloneEmbedded ==
    /\ pc = "clone"
    /\ pc' = "files"
    /\ clone' = (IF Release(plan) \in Embedded THEN Release(plan) ELSE clone)
    /\ UNCHANGED << files, executable, managed, plans, receipts, plan, next, edited, crashed >>

\* Mutant: the mode of a file that is removed stays behind.
SetFile_KeepsMode(p, content, modes) ==
    /\ files' = [files EXCEPT ![p] = content]
    /\ executable' = (IF p \in modes THEN executable \union {p} ELSE executable)
    /\ edited' = edited \ {p}

\* The file at path p is replaced, or removed.
SetFile(p, content, modes) ==
    /\ files' = [files EXCEPT ![p] = content]
    /\ executable' = (IF content # Absent /\ p \in modes THEN executable \union {p}
                                                         ELSE executable \ {p})
    /\ edited' = edited \ {p}

WriteFile ==
    /\ pc = "files" /\ next \in Paths
    /\ next' = next + 1
    /\ IF Named(plan, next)
          THEN SetFile(next, Owned(plan, next), Executables)
          ELSE UNCHANGED << files, executable, edited >>
    /\ UNCHANGED << managed, clone, plans, receipts, pc, plan, crashed >>

WriteManifest ==
    /\ pc = "files" /\ next = NumPaths + 1
    /\ pc' = "receipt"
    /\ managed' = plan
    /\ UNCHANGED << files, executable, clone, plans, receipts, plan, next, edited, crashed >>

WriteReceipt ==
    /\ pc = "receipt"
    /\ pc' = "idle" /\ plan' = << >> /\ next' = 1
    /\ receipts' = receipts \union {plan}
    /\ UNCHANGED << target, plans, edited, crashed >>

\* An operation of apply fails: what it has done is taken back.
FailApply ==
    /\ pc \in {"clone", "files", "receipt"}
    /\ pc' = "restore"
    /\ UNCHANGED << target, plans, receipts, plan, next, edited, crashed >>

-----------------------------------------------------------------------------
FilesAsApplied(q) == \A p \in Paths : Named(q, p) => files[p] = Owned(q, p)

Revertible(q) ==
    /\ q = managed
    /\ FilesAsApplied(q)
    /\ Release(q) \in Embedded => clone = Release(q)

BeginRollback(q) ==
    /\ pc = "idle"
    /\ Revertible(q)
    /\ pc' = "restore" /\ plan' = q /\ next' = NumPaths + 1
    /\ UNCHANGED << target, plans, receipts, edited, crashed >>

\* The mode of a restored file is the one the plan has for the new file, and
\* 644 if there is none.
ModesOfPlan == {p \in Executables : Owned(plan, p) # Absent}

\* Mutant: what the plan has deleted is not put back.
Restored_WritesOnly(p) == IF Owned(plan, p) = Absent THEN Absent ELSE Before(plan, p)

Restored(p) == Before(plan, p)

\* A failed apply and a rollback restore the files in reverse order.
RestoreFile ==
    /\ pc = "restore" /\ next > 1
    /\ next' = next - 1
    /\ IF Named(plan, next')
          THEN SetFile(next', Restored(next'), ModesOfPlan)
          ELSE UNCHANGED << files, executable, edited >>
    /\ UNCHANGED << managed, clone, plans, receipts, pc, plan, crashed >>

RestoreManifest ==
    /\ pc = "restore" /\ next = 1
    /\ pc' = "removeClone"
    /\ managed' = Previous(plan)
    /\ UNCHANGED << files, executable, clone, plans, receipts, plan, next, edited, crashed >>

RemoveClone ==
    /\ pc = "removeClone"
    /\ pc' = "idle" /\ plan' = << >> /\ next' = 1
    /\ clone' = (IF Release(plan) \in Embedded THEN Absent ELSE clone)
    /\ UNCHANGED << files, executable, managed, plans, receipts, edited, crashed >>

-----------------------------------------------------------------------------
\* The process dies, or an operation of a restore fails.
Crash ==
    /\ pc # "idle"
    /\ pc' = "idle" /\ plan' = << >> /\ next' = 1
    /\ crashed' = TRUE
    /\ clone' \in {clone} \union
          (IF pc \in {"clone", "removeClone"} /\ Release(plan) \in Embedded THEN {Partial} ELSE {})
    /\ UNCHANGED << files, executable, managed, plans, receipts, edited >>

\* The user writes or removes a file, or changes its mode.
Edit(p) ==
    /\ pc = "idle" \/ ConcurrentEdits
    /\ \E content \in Contents \union {Absent}, modes \in {{}, {p}} :
          /\ files' = [files EXCEPT ![p] = content]
          /\ executable' = (executable \ {p}) \union (IF content = Absent THEN {} ELSE modes)
    /\ edited' = edited \union {p}
    /\ UNCHANGED << managed, clone, plans, receipts, work, crashed >>

Next ==
    \/ \E r \in Releases : Plan(r)
    \/ \E q \in plans : BeginApply(q)
    \/ CloneEmbedded \/ WriteFile \/ WriteManifest \/ WriteReceipt \/ FailApply
    \/ \E q \in receipts : BeginRollback(q)
    \/ RestoreFile \/ RestoreManifest \/ RemoveClone
    \/ Crash
    \/ \E p \in Paths : Edit(p)

Spec == Init /\ [][Next]_vars

-----------------------------------------------------------------------------
\* Every variable stays within its type, and commands work on plans that were
\* made.
TypeOK ==
    /\ files \in Files
    /\ executable \subseteq {p \in Paths : files[p] # Absent}
    /\ managed \in Seq(Changes) /\ plan \in Seq(Changes)
    /\ clone \in Releases \union {Absent, Partial}
    /\ plans \subseteq Seq(Changes) /\ receipts \subseteq plans
    /\ pc \in Labels /\ next \in 1..(NumPaths + 1)
    /\ edited \subseteq Paths /\ crashed \in BOOLEAN
    /\ \A q \in plans : q # << >>
    /\ pc # "idle" => plan \in plans

\* Every change of a plan found exactly what the one before it installed: what
\* a rollback or a failed apply puts back was generated, and never was the
\* user's, whatever the user did between the plans.
PlansAreChains ==
    \A q \in plans : \A i \in 1..Len(q) : \A p \in Paths :
        q[i].before[p] = (IF i = 1 THEN Absent ELSE Generates[q[i - 1].release][p])

\* What nothing generates: only the user can have written it.
Authored == Contents \ {Generates[r][p] : r \in Releases, p \in Paths}

\* No command overwrites or removes what the user has written, however old
\* its plan or its receipt is, whatever fails, and wherever it died before:
\* "target drift fails closed".
AuthoredIsKept ==
    [][\A p \in Paths : files[p] \in Authored /\ files'[p] # files[p] => p \in edited']_vars

\* Between commands that did not die, the target is what the manifest says,
\* but for what the user has written since: an apply that failed has left
\* nothing behind, a rollback leaves no orphan, and what the manifest names
\* is there, with its clone.
ManifestHolds ==
    pc = "idle" /\ ~ crashed =>
        /\ \A p \in Paths \ edited : files[p] = Owned(managed, p)
        /\ managed # << >> /\ Release(managed) \in Embedded => clone = Release(managed)
=============================================================================
