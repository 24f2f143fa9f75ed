---------------------- MODULE ProjectTransaction_proofs ----------------------
(***************************************************************************)
(* What the project bootstrapper guarantees for any number of files,       *)
(* releases, plans, failures and crashes.  Only that the user's files are  *)
(* kept needs a user who does not edit while a command runs: the           *)
(* assumption ConcurrentEdits = FALSE of that theorem, without which TLC   *)
(* refutes AuthoredIsKept.                                                 *)
(*                                                                         *)
(* The proofs rest on what a command under way knows of the target: but    *)
(* for edits meanwhile, the files before next are as its plan wants them   *)
(* and the others as the plan found them (Working), and what a plan found  *)
(* is what the one before it had generated (Chain), so no step meets a     *)
(* file that the user wrote.                                               *)
(***************************************************************************)
EXTENDS ProjectTransaction, SequenceTheorems, TLAPS

Chain(q) ==
    \A i \in 1..Len(q) : \A p \in Paths :
        q[i].before[p] = (IF i = 1 THEN Absent ELSE Generates[q[i - 1].release][p])

\* The files that the plan of the command under way names, but for those that
\* the user may have edited meanwhile.
FilesFollowPlan ==
    \A p \in Paths : Named(plan, p) /\ (ConcurrentEdits => p \notin edited) =>
        files[p] = (IF p < next THEN Owned(plan, p) ELSE Before(plan, p))

\* What a command knows of the target at each of its steps.
Working ==
    /\ pc # "idle" => plan \in plans /\ FilesFollowPlan
    /\ pc = "clone" => next = 1
    /\ pc \in {"clone", "files"} => managed = Previous(plan)
    /\ pc = "receipt" => managed = plan /\ next = NumPaths + 1
    /\ pc = "restore" => managed \in {plan, Previous(plan)}
    /\ pc = "removeClone" => managed = Previous(plan) /\ next = 1

\* As long as no command has died, the files are as the manifest says, those
\* excepted that the command under way may have changed.
Settled ==
    ~ crashed =>
        \A p \in Paths \ edited :
            pc = "idle" \/ ~ Named(plan, p) => files[p] = Owned(managed, p)

\* The changes of a plan that come with a clone.
Cloning(q) == {i \in 1..Len(q) : q[i].release \in Embedded}

\* The clone c is the one of the only change of plan q that comes with one.
OnlyClone(q, c) == \A i \in Cloning(q) : Cloning(q) = {i} /\ c = q[i].release

\* As long as no command has died, the clone is that of the manifest, or the
\* one the command under way makes or removes.
CloneFollows ==
    ~ crashed =>
        /\ pc = "idle" => OnlyClone(managed, clone)
        /\ pc # "idle" /\ Release(plan) \notin Embedded => OnlyClone(Previous(plan), clone)
        /\ pc # "idle" /\ Release(plan) \in Embedded => Cloning(Previous(plan)) = {}
        /\ pc \in {"files", "receipt"} /\ Release(plan) \in Embedded => clone = Release(plan)

IInv ==
    /\ TypeOK
    /\ PlansAreChains
    /\ Chain(managed)
    /\ Working
    /\ Settled
    /\ CloneFollows

-----------------------------------------------------------------------------
\* Plans and the changes they consist of.

\* What a plan was made on has one change less, and is a chain like it.
LEMMA PreviousFacts ==
    ASSUME NEW q \in Seq(Changes), q # << >>
    PROVE  /\ Len(q) \in Nat \ {0}
           /\ q[Len(q)] \in Changes
           /\ Previous(q) \in Seq(Changes)
           /\ Len(Previous(q)) = Len(q) - 1
           /\ \A i \in 1..(Len(q) - 1) : Previous(q)[i] = q[i]
<1>1. Len(q) \in Nat /\ Len(q) # 0
  BY LenProperties, EmptySeq
<1>2. \A i \in 1..Len(q) : q[i] \in Changes
  BY ElementOfSeq
<1> DEFINE n == Len(q) - 1
<1>3. n \in Nat /\ n \in Int /\ 1 \in Int /\ \A i \in 1..n : q[i] \in Changes
  BY <1>1, <1>2
<1> HIDE DEF n
<1>4. /\ SubSeq(q, 1, n) \in Seq(Changes)
      /\ Len(SubSeq(q, 1, n)) = IF 1 <= n THEN n - 1 + 1 ELSE 0
      /\ \A i \in 1..(n - 1 + 1) : SubSeq(q, 1, n)[i] = q[1 + i - 1]
  BY <1>3, SubSeqProperties
<1>5. Previous(q) = SubSeq(q, 1, n)
  BY DEF Previous, n
<1>6. Len(Previous(q)) = n /\ \A i \in 1..n : Previous(q)[i] = q[i]
  BY <1>3, <1>4, <1>5
<1> QED
  BY <1>1, <1>2, <1>4, <1>5, <1>6 DEF n

\* What a plan of a chain found is what the manifest before it owned.
LEMMA ChainFacts ==
    ASSUME NEW q \in Seq(Changes), q # << >>, Chain(q)
    PROVE  /\ Chain(Previous(q))
           /\ \A p \in Paths : Before(q, p) = Owned(Previous(q), p)
<1>1. /\ Len(q) \in Nat \ {0} /\ Len(Previous(q)) = Len(q) - 1
      /\ \A i \in 1..(Len(q) - 1) : Previous(q)[i] = q[i]
      /\ Previous(q) \in Seq(Changes)
  BY PreviousFacts
<1>2. Chain(Previous(q))
  BY <1>1 DEF Chain
<1>3. ASSUME NEW p \in Paths PROVE Before(q, p) = Owned(Previous(q), p)
  <2>1. CASE Len(q) = 1
    <3>1. Previous(q) = << >>
      BY <1>1, <2>1, EmptySeq
    <3> QED
      BY <1>1, <2>1, <3>1 DEF Chain, Before, Owned
  <2>2. CASE Len(q) # 1
    <3>1. Previous(q) # << >>
      BY <1>1, <2>2, EmptySeq
    <3> QED
      BY <1>1, <2>2, <3>1 DEF Chain, Before, Owned, Release
  <2> QED
    BY <2>1, <2>2
<1> QED
  BY <1>2, <1>3

\* What a manifest says of a path is generated, and not the user's.
LEMMA OwnedType ==
    ASSUME NEW q \in Seq(Changes), NEW p \in Paths
    PROVE  /\ Owned(q, p) \in Contents \union {Absent}
           /\ Owned(q, p) \notin Authored
<1>1. CASE q = << >>
  BY <1>1, ReleasesAssumption DEF Owned, Authored
<1>2. CASE q # << >>
  <2>1. Release(q) \in Releases
    BY <1>2, PreviousFacts DEF Release, Changes
  <2> QED
    BY <1>2, <2>1, ReleasesAssumption DEF Owned, Authored, Files
<1> QED
  BY <1>1, <1>2

\* The plan for release r is the manifest and one more change, and a chain.
LEMMA PlannedFacts ==
    ASSUME IInv, NEW r \in Releases, Plannable(r)
    PROVE  /\ Planned(r) \in Seq(Changes)
           /\ Planned(r) # << >>
           /\ Chain(Planned(r))
<1> DEFINE owned(p) == Generates[r][p] # Absent \/ Owned(managed, p) # Absent
           e == [ release |-> r,
                  before |-> [p \in Paths |-> IF owned(p) THEN files[p] ELSE Absent] ]
<1>1. managed \in Seq(Changes) /\ Len(managed) \in Nat /\ e \in Changes
  BY LenProperties DEF IInv, TypeOK, Changes, Files
<1>2. Planned(r) = Append(managed, e)
  BY DEF Planned
<1>3. \A p \in Paths : e.before[p] = Owned(managed, p)
  BY DEF Plannable, ManagedIsIntact, NoConflict
<1> HIDE DEF e
<1>4. /\ Planned(r) \in Seq(Changes) /\ Len(Planned(r)) = Len(managed) + 1
      /\ Planned(r)[Len(managed) + 1] = e
      /\ \A i \in 1..Len(managed) : Planned(r)[i] = managed[i]
  BY <1>1, <1>2, AppendProperties
<1>5. Planned(r) # << >>
  BY <1>1, <1>4, EmptySeq
<1>6. ASSUME NEW p \in Paths
      PROVE  Owned(managed, p) = (IF Len(managed) = 0 THEN Absent
                                  ELSE Generates[managed[Len(managed)].release][p])
  BY <1>1, EmptySeq DEF Owned, Release
<1>7. ASSUME NEW i \in 1..Len(Planned(r)), NEW p \in Paths
      PROVE  Planned(r)[i].before[p]
                = (IF i = 1 THEN Absent ELSE Generates[Planned(r)[i - 1].release][p])
  <2>1. CASE i \in 1..Len(managed)
    BY <1>1, <1>4, <2>1 DEF IInv, Chain
  <2>2. CASE i = Len(managed) + 1
    BY <1>1, <1>3, <1>4, <1>6, <2>2
  <2> QED
    BY <1>1, <1>4, <2>1, <2>2
<1> QED
  BY <1>4, <1>5, <1>7 DEF Chain

\* What is known of a plan that was made.
LEMMA PlanFacts ==
    ASSUME IInv, NEW q \in plans
    PROVE  /\ q \in Seq(Changes) /\ q # << >> /\ Chain(q)
           /\ Release(q) \in Releases
           /\ Previous(q) \in Seq(Changes) /\ Chain(Previous(q))
           /\ \A p \in Paths : Before(q, p) = Owned(Previous(q), p)
<1>1. q \in Seq(Changes) /\ q # << >> /\ Chain(q)
  BY DEF IInv, TypeOK, PlansAreChains, Chain
<1> QED
  BY <1>1, PreviousFacts, ChainFacts DEF Release, Changes

\* How the clones of a plan and of the one it was made on compare.
LEMMA CloneFacts ==
    ASSUME NEW q \in Seq(Changes), q # << >>, NEW c
    PROVE  /\ Release(q) \notin Embedded => (OnlyClone(q, c) <=> OnlyClone(Previous(q), c))
           /\ Release(q) \in Embedded /\ OnlyClone(q, c) => Cloning(Previous(q)) = {}
           /\ Release(q) \in Embedded /\ Cloning(Previous(q)) = {} /\ c = Release(q)
                 => OnlyClone(q, c)
<1>1. /\ Len(q) \in Nat \ {0} /\ Len(Previous(q)) = Len(q) - 1
      /\ \A i \in 1..(Len(q) - 1) : Previous(q)[i] = q[i]
  BY PreviousFacts
<1>2. Cloning(Previous(q)) = Cloning(q) \ {Len(q)}
  BY <1>1 DEF Cloning
<1>3. Len(q) \in Cloning(q) <=> Release(q) \in Embedded
  BY <1>1 DEF Cloning, Release
<1>4. \A i \in Cloning(Previous(q)) : Previous(q)[i] = q[i]
  BY <1>1 DEF Cloning
<1>5. CASE Release(q) \notin Embedded
  BY <1>2, <1>3, <1>4, <1>5 DEF OnlyClone
<1>6. CASE Release(q) \in Embedded
  <2>1. OnlyClone(q, c) => Cloning(q) = {Len(q)}
    BY <1>3, <1>6 DEF OnlyClone
  <2>2. Cloning(Previous(q)) = {} => Cloning(q) = {Len(q)}
    BY <1>2, <1>3, <1>6
  <2>3. Cloning(q) = {Len(q)} /\ c = Release(q) => OnlyClone(q, c)
    BY DEF OnlyClone, Release
  <2> QED
    BY <1>2, <1>6, <2>1, <2>2, <2>3
<1> QED
  BY <1>5, <1>6

\* Where nothing is cloned, no change of the manifest comes with a clone.
LEMMA NoCloneFacts ==
    ASSUME NEW q \in Seq(Changes)
    PROVE  /\ OnlyClone(q, Absent) => Cloning(q) = {}
           /\ \A c : Cloning(q) = {} => OnlyClone(q, c)
<1>1. \A i \in 1..Len(q) : q[i] \in Changes
  BY ElementOfSeq
<1>2. \A i \in Cloning(q) : q[i].release # Absent
  BY <1>1, ReleasesAssumption DEF Cloning, Changes
<1> QED
  BY <1>2 DEF OnlyClone

-----------------------------------------------------------------------------
\* Before the first command the manifest is empty, and every file the user's.
LEMMA InitEstablishes == Init => IInv
<1> SUFFICES ASSUME Init PROVE IInv
  OBVIOUS
<1>1. << >> \in Seq(Changes) /\ Len(<< >>) = 0
  BY EmptySeq
<1>2. TypeOK
  <2>1. next \in 1..(NumPaths + 1)
    BY SizesAssumption DEF Init
  <2>2. pc = "idle" /\ pc \in Labels
    BY DEF Init, Labels
  <2>3. managed \in Seq(Changes) /\ plan \in Seq(Changes)
    BY <1>1 DEF Init
  <2>4. executable \subseteq {p \in Paths : files[p] # Absent}
    BY DEF Init
  <2> QED
    BY <2>1, <2>2, <2>3, <2>4 DEF Init, TypeOK
<1>3. PlansAreChains /\ Chain(managed)
  BY <1>1 DEF Init, PlansAreChains, Chain
<1>4. Working /\ Settled
  BY DEF Init, Working, Settled
<1>5. CloneFollows
  BY <1>1 DEF Init, CloneFollows, OnlyClone, Cloning
<1> QED
  BY <1>2, <1>3, <1>4, <1>5 DEF IInv

\* Planning changes nothing but the plans, and adds a chain to them.
LEMMA PlanKeeps ==
    ASSUME IInv, NEW r \in Releases, Plan(r)
    PROVE  IInv'
<1>1. /\ plans' = plans \union {Planned(r)}
      /\ Planned(r) \in Seq(Changes) /\ Planned(r) # << >> /\ Chain(Planned(r))
  BY PlannedFacts DEF Plan
<1>2. UNCHANGED << target, receipts, work, edited, crashed >> /\ pc = "idle"
  BY DEF Plan
<1>3. TypeOK'
  BY <1>1, <1>2 DEF IInv, TypeOK, target, work
<1>4. PlansAreChains' /\ Chain(managed)'
  BY <1>1, <1>2 DEF IInv, PlansAreChains, Chain, target
<1>5. Working' /\ Settled' /\ CloneFollows'
  BY <1>2 DEF IInv, Working, Settled, CloneFollows, target, work
<1> QED
  BY <1>3, <1>4, <1>5 DEF IInv

\* A command that begins has checked what it will rely on.
LEMMA BeginKeeps ==
    ASSUME IInv, NEW q \in plans, BeginApply(q) \/ (q \in receipts /\ BeginRollback(q))
    PROVE  IInv'
<1> DEFINE kept == << target, plans, receipts, edited, crashed >>
<1>1. /\ UNCHANGED kept /\ pc = "idle" /\ plan' = q
      /\ \/ Applicable(q) /\ pc' = "clone" /\ next' = 1
         \/ Revertible(q) /\ pc' = "restore" /\ next' = NumPaths + 1
  BY DEF BeginApply, BeginRollback
<1>2. /\ q \in Seq(Changes) /\ q # << >>
      /\ Previous(q) \in Seq(Changes)
      /\ \A p \in Paths : Before(q, p) = Owned(Previous(q), p)
  BY PlanFacts
<1>3. TypeOK'
  BY <1>1, <1>2, SizesAssumption DEF IInv, TypeOK, target, Labels
<1>4. PlansAreChains' /\ Chain(managed)'
  BY <1>1 DEF IInv, PlansAreChains, Chain, target
<1>5. Working'
  BY <1>1, SizesAssumption
  DEF Applicable, Revertible, FilesAsPlanned, FilesAsApplied, Working, FilesFollowPlan,
      Named, Owned, Before, target, Paths
<1>6. Settled'
  BY <1>1 DEF IInv, Settled, target
<1>7. CloneFollows'
  BY <1>1, <1>2, CloneFacts, NoCloneFacts
  DEF IInv, CloneFollows, Applicable, Revertible, target
<1> QED
  BY <1>3, <1>4, <1>5, <1>6, <1>7 DEF IInv

\* Putting one file into the state before or after the plan keeps the rest,
\* and meets no file that the user wrote.
LEMMA FileStepKeeps ==
    ASSUME IInv, NEW p \in Paths, pc \in {"files", "restore"},
           UNCHANGED << managed, clone, plans, receipts, pc, plan, crashed >>,
           NEW content,
           \/ next = p /\ next' = p + 1 /\ content = Owned(plan, p)
           \/ next = p + 1 /\ next' = p /\ content = Before(plan, p),
           NEW modes,
           IF Named(plan, p) THEN SetFile(p, content, modes)
                             ELSE UNCHANGED << files, executable, edited >>
    PROVE  /\ IInv'
           /\ ~ ConcurrentEdits =>
                 \A o \in Paths : files'[o] # files[o] => files[o] \notin Authored
<1>1. /\ plan \in plans /\ plan \in Seq(Changes)
      /\ Previous(plan) \in Seq(Changes)
      /\ Before(plan, p) = Owned(Previous(plan), p)
      /\ p \in 1..NumPaths /\ NumPaths \in Nat
  BY PlanFacts, SizesAssumption DEF IInv, Working, Paths
<1>2. /\ content \in Contents \union {Absent}
      /\ Owned(plan, p) \notin Authored /\ Before(plan, p) \notin Authored
  BY <1>1, OwnedType
<1>3. /\ files' \in Files
      /\ Named(plan, p) => files'[p] = content
      /\ \A o \in Paths : o # p \/ ~ Named(plan, p) => files'[o] = files[o]
  BY <1>2 DEF SetFile, IInv, TypeOK, Files
<1>4. executable' \subseteq {o \in Paths : files'[o] # Absent}
  BY <1>2, <1>3 DEF SetFile, IInv, TypeOK
<1>5. next' \in 1..(NumPaths + 1) /\ edited' \subseteq edited
      /\ \A o \in Paths : o # p \/ ~ Named(plan, p) => (o \in edited' <=> o \in edited)
  BY <1>1 DEF SetFile, IInv, TypeOK
<1>6. TypeOK'
  BY <1>3, <1>4, <1>5 DEF IInv, TypeOK
<1>7. PlansAreChains' /\ Chain(managed)'
  BY DEF IInv, PlansAreChains, Chain
<1>8. FilesFollowPlan'
  <2> SUFFICES ASSUME NEW o \in Paths, Named(plan, o), ConcurrentEdits => o \notin edited'
               PROVE  files'[o] = (IF o < next' THEN Owned(plan, o) ELSE Before(plan, o))
    BY DEF FilesFollowPlan, Named, Owned, Before, Release, Previous
  <2>2. CASE o = p
    BY <1>1, <1>3, <2>2
  <2>3. CASE o # p
    <3>1. o < next <=> o < next'
      BY <1>1, <2>3 DEF Paths
    <3>2. files[o] = (IF o < next THEN Owned(plan, o) ELSE Before(plan, o))
      BY <1>5, <2>3 DEF IInv, Working, FilesFollowPlan
    <3> QED
      BY <1>3, <2>3, <3>1, <3>2
  <2> QED
    BY <2>2, <2>3
<1>9. Working'
  BY <1>8 DEF IInv, Working, Previous
<1>10. Settled'
  BY <1>3, <1>5 DEF IInv, Settled, Named, Owned, Release, Previous
<1>11. CloneFollows'
  BY DEF IInv, CloneFollows, OnlyClone, Cloning, Release, Previous
<1>12. ~ ConcurrentEdits /\ Named(plan, p) => files[p] \notin Authored
  BY <1>1, <1>2 DEF IInv, Working, FilesFollowPlan
<1> QED
  BY <1>3, <1>6, <1>7, <1>9, <1>10, <1>11, <1>12 DEF IInv

\* A step of a command that leaves the files alone.
LEMMA OtherStepKeeps ==
    ASSUME IInv,
           CloneEmbedded \/ WriteManifest \/ WriteReceipt \/ FailApply
              \/ RestoreManifest \/ RemoveClone
    PROVE  IInv'
<1>1. /\ plan \in plans /\ plan \in Seq(Changes) /\ plan # << >>
      /\ Release(plan) \in Releases /\ Chain(plan)
      /\ Previous(plan) \in Seq(Changes) /\ Chain(Previous(plan))
      /\ \A p \in Paths : Before(plan, p) = Owned(Previous(plan), p)
      /\ \A p \in Paths : ~ Named(plan, p) =>
            Owned(plan, p) = Absent /\ Owned(Previous(plan), p) = Absent
      /\ FilesFollowPlan
      /\ pc # "idle"
  BY PlanFacts
  DEF IInv, Working, Named, CloneEmbedded, WriteManifest, WriteReceipt, FailApply,
      RestoreManifest, RemoveClone
<1>2. << >> \in Seq(Changes) /\ 1 \in 1..(NumPaths + 1) /\ NumPaths \in Nat
  BY EmptySeq, SizesAssumption
<1>3. CASE CloneEmbedded
  BY <1>1, <1>3, CloneFacts
  DEF CloneEmbedded, IInv, TypeOK, Labels, PlansAreChains, Working, FilesFollowPlan, Settled,
      CloneFollows
<1>4. CASE WriteManifest
  BY <1>1, <1>4
  DEF WriteManifest, IInv, TypeOK, Labels, PlansAreChains, Working, FilesFollowPlan, Settled,
      CloneFollows
<1>5. CASE WriteReceipt
  <2>1. TypeOK' /\ PlansAreChains' /\ Chain(managed)' /\ Working'
    BY <1>1, <1>2, <1>5 DEF WriteReceipt, IInv, TypeOK, Labels, PlansAreChains, Working, target, Chain
  <2>2. \A p \in Paths \ edited : Named(plan, p) => files[p] = Owned(plan, p)
    BY <1>1, <1>2, <1>5 DEF WriteReceipt, IInv, Working, FilesFollowPlan, Paths
  <2>3. Settled'
    BY <1>5, <2>2 DEF WriteReceipt, IInv, Working, Settled, target
  <2>4. CloneFollows'
    BY <1>1, <1>5, CloneFacts DEF WriteReceipt, IInv, Working, CloneFollows, target
  <2> QED
    BY <2>1, <2>3, <2>4 DEF IInv
<1>6. CASE FailApply
  BY <1>1, <1>6
  DEF FailApply, IInv, TypeOK, Labels, PlansAreChains, Working, FilesFollowPlan, Settled,
      CloneFollows, target, Chain
<1>7. CASE RestoreManifest
  BY <1>1, <1>7
  DEF RestoreManifest, IInv, TypeOK, Labels, PlansAreChains, Working, FilesFollowPlan, Settled,
      CloneFollows
<1>8. CASE RemoveClone
  <2>1. TypeOK' /\ PlansAreChains' /\ Chain(managed)' /\ Working'
    BY <1>1, <1>2, <1>8 DEF RemoveClone, IInv, TypeOK, Labels, PlansAreChains, Working, Chain
  <2>2. \A p \in Paths \ edited : Named(plan, p) => files[p] = Owned(Previous(plan), p)
    BY <1>1, <1>2, <1>8 DEF RemoveClone, IInv, Working, FilesFollowPlan, Paths
  <2>3. Settled'
    BY <1>8, <2>2 DEF RemoveClone, IInv, Working, Settled
  <2>4. CloneFollows'
    BY <1>1, <1>8, NoCloneFacts DEF RemoveClone, IInv, Working, CloneFollows
  <2> QED
    BY <2>1, <2>3, <2>4 DEF IInv
<1> QED
  BY <1>3, <1>4, <1>5, <1>6, <1>7, <1>8

\* After a crash nothing is claimed but the types, and that plans are chains.
LEMMA CrashKeeps ==
    ASSUME IInv, Crash
    PROVE  IInv'
<1>1. << >> \in Seq(Changes) /\ 1 \in 1..(NumPaths + 1)
  BY EmptySeq, SizesAssumption
<1>2. TypeOK'
  <2>1. Release(plan) \in Embedded => Release(plan) \in Releases
    BY ReleasesAssumption
  <2> QED
    BY <1>1, <2>1 DEF Crash, IInv, TypeOK, Labels
<1> QED
  BY <1>2 DEF Crash, IInv, PlansAreChains, Chain, Working, Settled, CloneFollows

\* The user edits a file between the commands, or during one that then knows
\* nothing of it.
LEMMA EditKeeps ==
    ASSUME IInv, NEW p \in Paths, Edit(p)
    PROVE  IInv'
<1>1. /\ pc = "idle" \/ ConcurrentEdits
      /\ edited' = edited \union {p}
      /\ UNCHANGED << managed, clone, plans, receipts, work, crashed >>
  BY DEF Edit
<1>2. PICK content \in Contents \union {Absent}, modes \in {{}, {p}} :
          /\ files' = [files EXCEPT ![p] = content]
          /\ executable' = (executable \ {p}) \union (IF content = Absent THEN {} ELSE modes)
  BY DEF Edit
<1>3. files' \in Files /\ \A o \in Paths : files'[o] = (IF o = p THEN content ELSE files[o])
  BY <1>2 DEF IInv, TypeOK, Files
<1>4. executable' \subseteq {o \in Paths : files'[o] # Absent}
  BY <1>2, <1>3 DEF IInv, TypeOK
<1>5. TypeOK'
  BY <1>1, <1>3, <1>4 DEF IInv, TypeOK, work
<1>6. Settled'
  BY <1>1, <1>3 DEF IInv, Settled, work
<1>7. Working'
  BY <1>1, <1>3 DEF IInv, Working, FilesFollowPlan, work
<1> QED
  BY <1>1, <1>5, <1>6, <1>7 DEF IInv, PlansAreChains, Chain, CloneFollows, work

\* Every step keeps the invariant, and no step but the user's changes a file
\* that the user wrote, unless it was meanwhile.
LEMMA NextKeeps ==
    ASSUME IInv, Next
    PROVE  /\ IInv'
           /\ ~ ConcurrentEdits => \A p \in Paths :
                 files[p] \in Authored /\ files'[p] # files[p] => p \in edited'
<1>1. ASSUME NEW r \in Releases, Plan(r) PROVE IInv' /\ UNCHANGED files
  BY <1>1, PlanKeeps DEF Plan, target
<1>2. ASSUME NEW q \in plans, BeginApply(q) PROVE IInv' /\ UNCHANGED files
  BY <1>2, BeginKeeps DEF BeginApply, target
<1>3. ASSUME NEW q \in receipts, BeginRollback(q) PROVE IInv' /\ UNCHANGED files
  <2>1. q \in plans
    BY DEF IInv, TypeOK
  <2> QED
    BY <1>3, <2>1, BeginKeeps DEF BeginRollback, target
<1>4. CASE WriteFile
  <2>1. next \in Paths /\ next' = next + 1 /\ pc \in {"files", "restore"}
    BY <1>4 DEF WriteFile
  <2>2. /\ IInv'
        /\ ~ ConcurrentEdits =>
              \A o \in Paths : files'[o] # files[o] => files[o] \notin Authored
    BY <1>4, <2>1, FileStepKeeps DEF WriteFile
  <2> QED
    BY <2>2
<1>5. CASE RestoreFile
  <2>1. /\ next' \in Paths /\ next = next' + 1 /\ pc \in {"files", "restore"}
    BY <1>5, SizesAssumption DEF RestoreFile, IInv, TypeOK, Paths
  <2>2. /\ IInv'
        /\ ~ ConcurrentEdits =>
              \A o \in Paths : files'[o] # files[o] => files[o] \notin Authored
    BY <1>5, <2>1, FileStepKeeps DEF RestoreFile, Restored
  <2> QED
    BY <2>2
<1>6. ASSUME CloneEmbedded \/ WriteManifest \/ WriteReceipt \/ FailApply
                \/ RestoreManifest \/ RemoveClone
      PROVE  IInv' /\ UNCHANGED files
  BY <1>6, OtherStepKeeps
  DEF CloneEmbedded, WriteManifest, WriteReceipt, FailApply, RestoreManifest, RemoveClone, target
<1>7. CASE Crash
  BY <1>7, CrashKeeps DEF Crash
<1>8. ASSUME NEW p \in Paths, Edit(p)
      PROVE  IInv' /\ \A o \in Paths : files'[o] # files[o] => o \in edited'
  <2>1. \A o \in Paths : o # p => files'[o] = files[o]
    BY <1>8 DEF Edit, IInv, TypeOK, Files
  <2> QED
    BY <1>8, <2>1, EditKeeps DEF Edit
<1> QED
  BY <1>1, <1>2, <1>3, <1>4, <1>5, <1>6, <1>7, <1>8 DEF Next

\* The invariant holds throughout.
LEMMA Invariance == Spec => []IInv
<1>1. IInv /\ UNCHANGED vars => IInv'
  BY DEF vars, target, work, IInv, TypeOK, PlansAreChains, Chain, Working, FilesFollowPlan,
         Settled, CloneFollows
<1>2. IInv /\ [Next]_vars => IInv'
  BY <1>1, NextKeeps
<1> QED
  BY <1>2, InitEstablishes, PTL DEF Spec

-----------------------------------------------------------------------------
\* The variables stay within their types, and commands work on plans that
\* were made.
THEOREM TypeCorrect == Spec => []TypeOK
<1>1. IInv => TypeOK
  BY DEF IInv
<1> QED
  BY <1>1, Invariance, PTL

\* What a rollback or a failed apply puts back was generated before.
THEOREM PlansFindTheGenerated == Spec => []PlansAreChains
<1>1. IInv => PlansAreChains
  BY DEF IInv
<1> QED
  BY <1>1, Invariance, PTL

\* No command overwrites or removes what the user has written.
THEOREM CommandsKeepTheAuthored ==
    ASSUME ConcurrentEdits = FALSE
    PROVE  Spec => AuthoredIsKept
<1>1. IInv /\ [Next]_vars =>
        [\A p \in Paths :
            files[p] \in Authored /\ files'[p] # files[p] => p \in edited']_vars
  BY NextKeeps
<1> QED
  BY <1>1, Invariance, PTL DEF Spec, AuthoredIsKept

\* Between commands that did not die the target is what the manifest says.
THEOREM ManifestIsTrue == Spec => []ManifestHolds
<1>1. ASSUME IInv, pc = "idle", ~ crashed, managed # << >>, Release(managed) \in Embedded
      PROVE  clone = Release(managed)
  <2>1. Len(managed) \in Cloning(managed)
    BY <1>1, PreviousFacts DEF IInv, TypeOK, Cloning, Release
  <2> QED
    BY <1>1, <2>1 DEF IInv, CloneFollows, OnlyClone, Release
<1>2. IInv => ManifestHolds
  BY <1>1 DEF IInv, Settled, ManifestHolds
<1> QED
  BY <1>2, Invariance, PTL
=============================================================================
