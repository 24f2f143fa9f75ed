------------------------- MODULE McpMigration_proofs -------------------------
(* Proofs about the migration: no command changes what no receipt and no   *)
(* person accounts for, or loses what a person wrote, for any mirrors,     *)
(* contents, commands, failures, deaths and edits.                         *)
EXTENDS McpMigration, TLAPS

(* What the running apply has read and backed up.                          *)
Prepared ==
  CASE pc = "prepare" -> Upto(next)
    [] pc \in {"write", "receipt", "restore"} -> changed
    [] OTHER -> {}

(* What the running command has changed and not yet accounted for.         *)
InTransit ==
  CASE pc \in {"write", "rollback"} -> Upto(next)
    [] pc = "restore" -> Upto(next + 1)
    [] pc \in {"receipt", "rolled"} -> changed
    [] OTHER -> {}

Saved(t) ==
  \/ authored[t] = Absent
  \/ <<t, authored[t]>> \in backups
  \/ \E r \in receipts : t \in r.changed /\ authored[t] = r.after[t]

BackedUp ==
  \A t \in Prepared :
     /\ after[t] \in Contents
     /\ before[t] = Absent \/ <<t, before[t]>> \in backups

PreparedIsSaved == \A t \in Prepared \ raced : Saved(t)

PreparedIsTold == \A t \in Prepared \ (torn \union raced) : told[t] = before[t]

Recorded ==
  \A t \in Targets \ (torn \union raced) : t \notin InTransit => file[t] = told[t]

Underway ==
  \A t \in InTransit \ raced :
     /\ pc \in {"write", "receipt"} => file[t] = after[t]
     /\ pc \in {"rollback", "rolled"} =>
          /\ file[t] = before[t]
          /\ before[t] = Absent \/ before[t] = planned[t]

AuthoredIsSaved ==
  \A t \in Targets \ raced : authored[t] = file[t] \/ Saved(t)

RollbackHasReceipt == pc \in {"rollback", "rolled"} => Receipt \in receipts

Syncing ==
  /\ pc # "idle" => outcome # "applied"
  /\ ~touched /\ pc \in {"prepare", "write", "receipt"} =>
       /\ \A t \in Targets \ changed : Equivalent(t)
       /\ \A t \in Prepared : after[t] = file[SourceOf[t]]
       /\ \A t \in InTransit : file[t] = after[t]

Inv ==
  /\ TypeOK
  /\ BackedUp
  /\ PreparedIsSaved
  /\ PreparedIsTold
  /\ Recorded
  /\ Underway
  /\ AuthoredIsSaved
  /\ RollbackHasReceipt
  /\ Syncing
  /\ AppliedIsInSync

-----------------------------------------------------------------------------
(***************************************************************************)
(* The mirrors before the i-th one.                                        *)
(***************************************************************************)

(* The walk over the mirrors starts with none behind it, has one more      *)
(* behind it after each, and all of them at its end.                       *)
LEMMA PrecedingFacts ==
  /\ Len(Order) \in Nat \ {0}
  /\ Preceding(0) = {}
  /\ Preceding(1) = {}
  /\ Preceding(Len(Order) + 1) = Targets
  /\ \A i \in 1..Len(Order) :
        /\ Preceding(i + 1) = Preceding(i) \union {Order[i]}
        /\ Order[i] \notin Preceding(i)
        /\ Order[i] \in Targets
<1>1. Len(Order) \in Nat /\ DOMAIN Order = 1..Len(Order)
  BY OrderAssumption
<1>2. Len(Order) # 0
  BY OrderAssumption, <1>1
<1>3. Preceding(0) = {} /\ Preceding(1) = {}
  BY <1>1 DEF Preceding
<1>4. Preceding(Len(Order) + 1) = Targets
  BY <1>1 DEF Preceding, Targets
<1>5. ASSUME NEW i \in 1..Len(Order)
      PROVE  /\ Preceding(i + 1) = Preceding(i) \union {Order[i]}
             /\ Order[i] \notin Preceding(i)
             /\ Order[i] \in Targets
  <2>1. {k \in DOMAIN Order : k < i + 1} = {k \in DOMAIN Order : k < i} \union {i}
    BY <1>1
  <2>2. Preceding(i + 1) = Preceding(i) \union {Order[i]}
    BY <2>1 DEF Preceding
  <2>3. Order[i] \notin Preceding(i)
    BY <1>1, OrderAssumption DEF Preceding
  <2>4. QED
    BY <2>2, <2>3, <1>1 DEF Targets
<1>6. QED
  BY <1>1, <1>2, <1>3, <1>4, <1>5

(* A command at a mirror is at a target of the profile.                    *)
LEMMA AtAMirror ==
  ASSUME TypeOK, next > 0
  PROVE  next \in 1..Len(Order) /\ Current \in Targets
BY PrecedingFacts DEF TypeOK, Current

-----------------------------------------------------------------------------
(***************************************************************************)
(* Types.                                                                  *)
(***************************************************************************)

\* Targets and sources are files, and apart.
LEMMA FileTypes ==
  /\ Targets \subseteq Files
  /\ Sources \subseteq Files
  /\ \A t \in Targets : SourceOf[t] \in Sources
  /\ \A t \in Targets : t \notin Sources
  /\ \A t \in Targets : Nowhere[t] = Absent
  /\ Nowhere \in [Targets -> MaybeContent]
BY SourceAssumption DEF Files, Nowhere, MaybeContent

\* The end of a command leaves its variables typed, and its walk at no mirror.
LEMMA FinishTypes ==
  ASSUME NEW result \in {"applied", "restored", "half_restored", "failed",
                         "refused", "rolled_back", "died"},
         Finish(result)
  PROVE  /\ pc' = "idle" /\ next' = 1 /\ next' \in 0..Len(Order)
         /\ changed' = {}
         /\ planned' \in [Targets -> MaybeContent]
         /\ before' \in [Targets -> MaybeContent]
         /\ after' \in [Targets -> MaybeContent]
         /\ outcome' = result
BY PrecedingFacts, FileTypes DEF Finish

\* A step of a walk stays on the walk.
LEMMA AdvanceTypes ==
  ASSUME NEW phase \in {"write", "receipt", "rolled"}, TypeOK, next > 0,
         Advance(phase)
  PROVE  next' \in 1..Len(Order) /\ pc' \in {pc, phase}
BY PrecedingFacts DEF Advance, TypeOK

\* A fault stays within the bounds.
LEMMA FaultTypes ==
  ASSUME TypeOK, Fault \/ UNCHANGED counts
  PROVE  /\ commands' \in 0..MaxCommands
         /\ faults' \in 0..MaxFaults
         /\ acts' \in 0..MaxActs
BY BoundAssumption DEF Fault, TypeOK, counts

\* So does what people do.
LEMMA ActTypes ==
  ASSUME TypeOK, Act
  PROVE  /\ commands' \in 0..MaxCommands
         /\ faults' \in 0..MaxFaults
         /\ acts' \in 0..MaxActs
BY BoundAssumption DEF Act, TypeOK

(* What every command begins with.                                         *)
BeginTypes ==
  /\ next' \in 0..Len(Order)
  /\ next' # 0
  /\ outcome' = "running"
  /\ touched' = FALSE
  /\ commands' \in 0..MaxCommands
  /\ faults' \in 0..MaxFaults
  /\ acts' \in 0..MaxActs

\* The beginning of a command keeps them.
LEMMA BeginKeepsTypes == TypeOK /\ Begin => BeginTypes
<1> SUFFICES ASSUME TypeOK, Begin PROVE BeginTypes
  OBVIOUS
<1>1. next' \in 0..Len(Order) /\ next' # 0
  BY PrecedingFacts DEF Begin
<1>2. commands' \in 0..MaxCommands
  BY BoundAssumption DEF Begin, TypeOK
<1>3. QED
  BY <1>1, <1>2 DEF Begin, BeginTypes, TypeOK

\* Apply keeps the types.
LEMMA TypeApply == TypeOK /\ Apply => TypeOK'
<1> SUFFICES ASSUME TypeOK, Apply PROVE TypeOK'
  OBVIOUS
<1> USE DEF history, counts
<1>1. CASE BeginApply
  <2>1. changed' \subseteq Targets
    BY <1>1 DEF BeginApply, Drift
  <2>2. planned' \in [Targets -> MaybeContent]
    BY <1>1, FileTypes DEF BeginApply, TypeOK
  <2>3. before' \in [Targets -> MaybeContent] /\ after' \in [Targets -> MaybeContent]
    BY <1>1, FileTypes DEF BeginApply
  <2>4. pc' = "prepare"
    BY <1>1 DEF BeginApply
  <2>5. BeginTypes
    BY <1>1, BeginKeepsTypes DEF BeginApply
  <2>6. QED
    BY <1>1, <2>1, <2>2, <2>3, <2>4, <2>5
    DEF BeginApply, BeginTypes, TypeOK, Phases
<1>2. CASE Prepare
  <2>1. next > 0
    BY <1>2 DEF Prepare, TypeOK
  <2>2. Current \in Targets /\ file[Current] \in MaybeContent
        /\ file[SourceOf[Current]] \in MaybeContent
    BY <2>1, AtAMirror, FileTypes DEF TypeOK
  <2>3. backups' \subseteq Targets \X Contents
    BY <1>2, <2>2 DEF Prepare, TypeOK, MaybeContent
  <2>4. next' \in 1..Len(Order) /\ pc' \in {pc, "write"}
    BY <1>2, <2>1, AdvanceTypes DEF Prepare
  <2>5. QED
    BY <1>2, <2>2, <2>3, <2>4 DEF Prepare, TypeOK, Phases
<1>3. CASE FailPrepare
  BY <1>3, FinishTypes, FaultTypes DEF FailPrepare, TypeOK, Phases
<1>4. CASE Write
  <2>1. next > 0
    BY <1>4 DEF Write, TypeOK
  <2>2. Current \in Targets /\ after[Current] \in MaybeContent
    BY <2>1, AtAMirror DEF TypeOK
  <2>3. next' \in 1..Len(Order) /\ pc' \in {pc, "receipt"}
    BY <1>4, <2>1, AdvanceTypes DEF Write
  <2>4. file' \in [Files -> MaybeContent] /\ \A s \in Sources : file'[s] # Absent
    BY <1>4, <2>2, FileTypes DEF Write, TypeOK
  <2>5. QED
    BY <1>4, <2>3, <2>4 DEF Write, TypeOK, Phases
<1>5. CASE FailWrite
  <2>1. next > 0
    BY <1>5 DEF FailWrite, TypeOK
  <2>2. Current \in Targets /\ after[Current] \in MaybeContent
        /\ next \in 1..Len(Order)
    BY <2>1, AtAMirror DEF TypeOK
  <2>3. file' \in [Files -> MaybeContent] /\ \A s \in Sources : file'[s] # Absent
    BY <1>5, <2>2, FileTypes DEF FailWrite, TypeOK
  <2>4. next' \in 0..Len(Order) /\ pc' = "restore" /\ torn' \subseteq Targets
    BY <1>5, <2>2, PrecedingFacts DEF FailWrite, TypeOK
  <2>5. QED
    BY <1>5, <2>3, <2>4, FaultTypes DEF FailWrite, TypeOK, Phases
<1>6. CASE WriteReceipt
  <2>1. Receipt \in Receipts
    BY DEF Receipt, Receipts, TypeOK
  <2>2. told' \in [Targets -> MaybeContent]
    BY <1>6 DEF WriteReceipt, TypeOK
  <2>3. QED
    BY <1>6, <2>1, <2>2, FinishTypes DEF WriteReceipt, TypeOK, Phases
<1>7. CASE FailReceipt
  BY <1>7, FaultTypes, PrecedingFacts DEF FailReceipt, TypeOK, Phases
<1>8. CASE Restore
  <2>1. Current \in Targets /\ before[Current] \in MaybeContent
        /\ next \in 1..Len(Order)
    BY <1>8, AtAMirror DEF Restore, TypeOK
  <2>2. file' \in [Files -> MaybeContent] /\ \A s \in Sources : file'[s] # Absent
    BY <1>8, <2>1, FileTypes DEF Restore, TypeOK
  <2>3. next' \in 0..Len(Order)
    BY <1>8, <2>1, PrecedingFacts DEF Restore
  <2>4. QED
    BY <1>8, <2>2, <2>3 DEF Restore, TypeOK, Phases
<1>9. CASE FailRestore
  <2>1. Current \in Targets /\ next \in 1..Len(Order)
    BY <1>9, AtAMirror DEF FailRestore, TypeOK
  <2>2. next' \in 0..Len(Order) /\ torn' \subseteq Targets
    BY <1>9, <2>1, PrecedingFacts DEF FailRestore, TypeOK
  <2>3. QED
    BY <1>9, <2>2, FaultTypes DEF FailRestore, TypeOK, Phases
<1>10. CASE AbandonRestore
  BY <1>10, FinishTypes, FaultTypes DEF AbandonRestore, TypeOK, Phases, Upto
<1>11. CASE EndRestore
  BY <1>11, FinishTypes DEF EndRestore, TypeOK, Phases
<1>12. QED
  BY <1>1, <1>2, <1>3, <1>4, <1>5, <1>6, <1>7, <1>8, <1>9, <1>10, <1>11
  DEF Apply

\* Rollback keeps the types.
LEMMA TypeRollback == TypeOK /\ Rollback => TypeOK'
<1> SUFFICES ASSUME TypeOK, Rollback PROVE TypeOK'
  OBVIOUS
<1> USE DEF history, counts
<1>1. ASSUME NEW r \in receipts, BeginRollback(r) PROVE TypeOK'
  <2>1. r \in Receipts
    BY DEF TypeOK
  <2>2. BeginTypes
    BY <1>1, BeginKeepsTypes DEF BeginRollback
  <2>3. /\ changed' \subseteq Targets
        /\ planned' \in [Targets -> MaybeContent]
        /\ before' \in [Targets -> MaybeContent]
        /\ after' \in [Targets -> MaybeContent]
        /\ pc' = "rollback"
    BY <1>1, <2>1 DEF BeginRollback, Receipts
  <2>4. QED
    BY <1>1, <2>2, <2>3 DEF BeginRollback, BeginTypes, TypeOK, Phases
<1>2. CASE Revert
  <2>1. next > 0
    BY <1>2 DEF Revert, TypeOK
  <2>2. Current \in Targets /\ before[Current] \in MaybeContent
    BY <2>1, AtAMirror DEF TypeOK
  <2>3. next' \in 1..Len(Order) /\ pc' \in {pc, "rolled"}
    BY <1>2, <2>1, AdvanceTypes DEF Revert
  <2>4. file' \in [Files -> MaybeContent] /\ \A s \in Sources : file'[s] # Absent
    BY <1>2, <2>2, FileTypes DEF Revert, TypeOK
  <2>5. QED
    BY <1>2, <2>3, <2>4 DEF Revert, TypeOK, Phases
<1>3. CASE RefuseRollback
  BY <1>3, FinishTypes DEF RefuseRollback, TypeOK, Phases, Upto
<1>4. CASE FailRevert
  <2>1. next > 0
    BY <1>4 DEF FailRevert, TypeOK
  <2>2. Current \in Targets /\ before[Current] \in MaybeContent
    BY <2>1, AtAMirror DEF TypeOK
  <2>3. file' \in [Files -> MaybeContent] /\ \A s \in Sources : file'[s] # Absent
    BY <1>4, <2>2, FileTypes DEF FailRevert, TypeOK
  <2>4. QED
    BY <1>4, <2>3, FinishTypes, FaultTypes DEF FailRevert, TypeOK, Phases, Upto
<1>5. CASE WriteRollbackReceipt
  <2>1. told' \in [Targets -> MaybeContent]
    BY <1>5, FileTypes DEF WriteRollbackReceipt, TypeOK, MaybeContent
  <2>2. QED
    BY <1>5, <2>1, FinishTypes DEF WriteRollbackReceipt, TypeOK, Phases
<1>6. CASE FailRollbackReceipt
  BY <1>6, FinishTypes, FaultTypes DEF FailRollbackReceipt, TypeOK, Phases
<1>7. QED
  BY <1>1, <1>2, <1>3, <1>4, <1>5, <1>6 DEF Rollback

\* What happens around the commands keeps the types.
LEMMA TypeAround == TypeOK /\ Around => TypeOK'
<1> SUFFICES ASSUME TypeOK, Around PROVE TypeOK'
  OBVIOUS
<1> USE DEF history, counts, command
<1>1. CASE Crash
  BY <1>1, FinishTypes, FaultTypes DEF Crash, TypeOK, Phases
<1>2. ASSUME NEW t \in Targets, NEW c \in MaybeContent, Edit(t, c) PROVE TypeOK'
  <2>1. file' \in [Files -> MaybeContent] /\ \A s \in Sources : file'[s] # Absent
    BY <1>2, FileTypes DEF Edit, TypeOK
  <2>2. QED
    BY <1>2, <2>1, ActTypes DEF Edit, TypeOK, Phases
<1>3. ASSUME NEW s \in Sources, NEW c \in Contents, EditSource(s, c) PROVE TypeOK'
  <2>1. file' \in [Files -> MaybeContent] /\ \A x \in Sources : file'[x] # Absent
    BY <1>3, FileTypes, AbsentAssumption DEF EditSource, TypeOK, MaybeContent
  <2>2. QED
    BY <1>3, <2>1, ActTypes DEF EditSource, TypeOK, Phases
<1>4. CASE Commit
  <2>1. head' \in [Targets -> MaybeContent]
    BY <1>4, FileTypes DEF Commit, TypeOK, MaybeContent
  <2>2. QED
    BY <1>4, <2>1, ActTypes DEF Commit, TypeOK, Phases
<1>5. CASE SwitchBranch
  BY <1>5, ActTypes DEF SwitchBranch, TypeOK, Phases
<1>6. QED
  BY <1>1, <1>2, <1>3, <1>4, <1>5 DEF Around

\* Every step keeps the types.
LEMMA TypeStep == TypeOK /\ [Next]_vars => TypeOK'
<1> SUFFICES ASSUME TypeOK, [Next]_vars PROVE TypeOK'
  OBVIOUS
<1>1. CASE Skip
  <2>1. next > 0
    BY <1>1 DEF Skip, TypeOK
  <2>2. FollowingPhase[pc] \in {"write", "receipt", "rolled"}
    BY <1>1 DEF Skip, FollowingPhase
  <2>3. next' \in 1..Len(Order) /\ pc' \in {pc, FollowingPhase[pc]}
    BY <1>1, <2>1, <2>2, AdvanceTypes DEF Skip
  <2>4. QED
    BY <1>1, <2>2, <2>3 DEF Skip, TypeOK, Phases, history, counts
<1>2. CASE UNCHANGED vars
  BY <1>2 DEF vars, command, history, counts, TypeOK
<1>3. QED
  BY <1>1, <1>2, TypeApply, TypeRollback, TypeAround DEF Next

\* The first state has them.
LEMMA TypeInit == Init => TypeOK
<1> SUFFICES ASSUME Init PROVE TypeOK
  OBVIOUS
<1>1. file \in [Files -> MaybeContent] /\ \A s \in Sources : file[s] # Absent
  BY TreesAssumption DEF Init
<1>2. \A t \in Targets : file[t] \in MaybeContent
  BY <1>1, FileTypes
<1>3. head \in [Targets -> MaybeContent]
  BY <1>2 DEF Init, MaybeContent
<1>4. told \in [Targets -> MaybeContent] /\ authored \in [Targets -> MaybeContent]
  BY <1>2 DEF Init
<1>5. /\ planned \in [Targets -> MaybeContent]
      /\ before \in [Targets -> MaybeContent]
      /\ after \in [Targets -> MaybeContent]
  BY FileTypes DEF Init
<1>6. next \in 0..Len(Order) /\ next # 0
  BY PrecedingFacts DEF Init
<1>7. commands \in 0..MaxCommands /\ faults \in 0..MaxFaults /\ acts \in 0..MaxActs
  BY BoundAssumption DEF Init
<1>8. /\ onWork \in BOOLEAN /\ touched \in BOOLEAN
      /\ backups \subseteq Targets \X Contents /\ receipts \subseteq Receipts
      /\ changed \subseteq Targets /\ raced \subseteq Targets /\ torn \subseteq Targets
  BY DEF Init
<1>9. QED
  BY <1>1, <1>3, <1>4, <1>5, <1>6, <1>7, <1>8 DEF Init, TypeOK, Phases

(* The variables of the migration stay within their types.                 *)
THEOREM TypeCorrect == Spec => []TypeOK
BY TypeInit, TypeStep, PTL DEF Spec
-----------------------------------------------------------------------------
(***************************************************************************)
(* What is prepared and what is in transit, from one step to the next.     *)
(***************************************************************************)

\* What a walk has behind it is in the hand of the command.
LEMMA WalkTypes ==
  ASSUME TypeOK
  PROVE  /\ Prepared \subseteq changed /\ InTransit \subseteq changed
         /\ changed \subseteq Targets
         /\ Prepared \subseteq InHand /\ InTransit \subseteq InHand
BY PrecedingFacts DEF TypeOK, Phases, Prepared, InTransit, InHand, Upto

\* A walk that does not move has the same mirrors behind it.
LEMMA StandingStill ==
  ASSUME UNCHANGED <<pc, next, changed>>
  PROVE  Prepared' = Prepared /\ InTransit' = InTransit
BY DEF Prepared, InTransit, Upto

\* A command that ends has no mirror in transit.
LEMMA WalkEnds ==
  ASSUME NEW result, Finish(result)
  PROVE  pc' = "idle" /\ Prepared' = {} /\ InTransit' = {}
BY DEF Finish, Prepared, InTransit

\* Nor has one that begins.
LEMMA WalkBegins ==
  ASSUME pc' \in {"prepare", "rollback"}, next' = 1
  PROVE  Prepared' = {} /\ InTransit' = {}
BY PrecedingFacts DEF Prepared, InTransit, Upto

(* Each loop has one mirror more behind it, and nothing else.              *)
LEMMA WalkAdvances ==
  ASSUME TypeOK, pc \in {"prepare", "write", "rollback"}, changed' = changed,
         Advance(FollowingPhase[pc])
  PROVE  /\ pc' \in {pc, FollowingPhase[pc]}
         /\ Current \in Targets
         /\ pc = "prepare" =>
              /\ Prepared' = Prepared \union ({Current} \intersect changed)
              /\ InTransit = {} /\ InTransit' = {}
         /\ pc = "write" =>
              /\ Prepared = changed /\ Prepared' = changed
              /\ InTransit' = InTransit \union ({Current} \intersect changed)
              /\ Current \notin InTransit
         /\ pc = "rollback" =>
              /\ Prepared = {} /\ Prepared' = {}
              /\ InTransit' = InTransit \union ({Current} \intersect changed)
              /\ Current \notin InTransit
<1>1. next \in 1..Len(Order) /\ Current \in Targets
  BY AtAMirror DEF TypeOK
<1>2. /\ Preceding(next + 1) = Preceding(next) \union {Current}
      /\ Current \notin Preceding(next)
  BY <1>1, PrecedingFacts DEF Current
<1>3. CASE next = Len(Order)
  <2>1. next' = 1 /\ pc' = FollowingPhase[pc]
    BY <1>3 DEF Advance
  <2>2. Preceding(next) \union {Current} = Targets
    BY <1>2, <1>3, PrecedingFacts
  <2>3. Upto(next) \union ({Current} \intersect changed) = changed
    BY <2>2 DEF Upto, TypeOK
  <2>4. Preceding(1) = {}
    BY PrecedingFacts
  <2>5. QED
    BY <1>1, <1>2, <2>1, <2>3, <2>4
    DEF Prepared, InTransit, Upto, FollowingPhase
<1>4. CASE next # Len(Order)
  <2>1. next' = next + 1 /\ pc' = pc
    BY <1>4 DEF Advance
  <2>2. QED
    BY <1>1, <1>2, <2>1 DEF Prepared, InTransit, Upto, FollowingPhase
<1>5. QED
  BY <1>3, <1>4

\* A restore has one mirror less in transit, and nothing else.
LEMMA WalkReturns ==
  ASSUME TypeOK, pc = "restore", pc' = "restore", next > 0, next' = next - 1,
         changed' = changed
  PROVE  /\ Current \in Targets
         /\ Prepared = changed /\ Prepared' = changed
         /\ InTransit = InTransit' \union ({Current} \intersect changed)
         /\ Current \notin InTransit'
<1>1. next \in 1..Len(Order) /\ Current \in Targets
  BY AtAMirror
<1>2. /\ Preceding(next + 1) = Preceding(next) \union {Current}
      /\ Current \notin Preceding(next)
  BY <1>1, PrecedingFacts DEF Current
<1>3. next' + 1 = next
  BY <1>1, PrecedingFacts
<1>4. QED
  BY <1>1, <1>2, <1>3 DEF Prepared, InTransit, Upto

\* What is saved stays so while it is what was authored.
LEMMA SavedStays ==
  ASSUME NEW t \in Targets, Saved(t), authored'[t] = authored[t],
         backups \subseteq backups', receipts \subseteq receipts'
  PROVE  Saved(t)'
BY DEF Saved

-----------------------------------------------------------------------------
(***************************************************************************)
(* The invariant is kept.                                                  *)
(***************************************************************************)

\* The first state satisfies the invariant.
LEMMA InvInit == Init => Inv
<1> SUFFICES ASSUME Init PROVE Inv
  OBVIOUS
<1>1. TypeOK
  BY TypeInit
<1>2. Prepared = {} /\ InTransit = {} /\ pc = "idle"
  BY DEF Init, Prepared, InTransit
<1>3. \A t \in Targets : told[t] = file[t] /\ authored[t] = file[t]
  BY DEF Init
<1>4. AppliedIsInSync /\ Syncing
  BY <1>2 DEF Init, AppliedIsInSync, Syncing
<1>5. QED
  BY <1>1, <1>2, <1>3, <1>4
  DEF Inv, BackedUp, PreparedIsSaved, PreparedIsTold, Recorded, Underway,
      AuthoredIsSaved, RollbackHasReceipt

(* A step that moves the command on without touching anything.             *)
LEMMA KeptByMovingOn ==
  ASSUME Inv, TypeOK',
         UNCHANGED <<file, backups, receipts, history, changed, planned,
                     before, after, outcome>>,
         Prepared' = Prepared, InTransit' = InTransit,
         pc' \in {"write", "receipt"} =>
            pc \in {"write", "receipt"} \/ InTransit = {},
         pc' \in {"rollback", "rolled"} => pc \in {"rollback", "rolled"},
         pc' \in {"prepare", "write", "receipt"} =>
            pc \in {"prepare", "write", "receipt"},
         pc' # "idle" => pc # "idle"
  PROVE  Inv'
<1> USE DEF history
<1>1. BackedUp' /\ PreparedIsTold' /\ Recorded'
  BY DEF Inv, BackedUp, PreparedIsTold, Recorded
<1>2. Underway'
  BY DEF Inv, Underway
<1>3. \A t \in Targets : Saved(t)' <=> Saved(t)
  BY DEF Saved
<1>4. PreparedIsSaved' /\ AuthoredIsSaved'
  BY <1>3, WalkTypes DEF Inv, PreparedIsSaved, AuthoredIsSaved
<1>5. RollbackHasReceipt'
  BY DEF Inv, RollbackHasReceipt, Receipt
<1>6. \A t \in Targets : Equivalent(t)' <=> Equivalent(t)
  BY DEF Equivalent
<1>7. Syncing'
  BY <1>6 DEF Inv, Syncing
<1>8. AppliedIsInSync'
  BY <1>6 DEF Inv, AppliedIsInSync, Drift
<1>9. QED
  BY <1>1, <1>2, <1>4, <1>5, <1>7, <1>8 DEF Inv

(* A command that ends without success owns up to what it leaves.          *)
LEMMA KeptByEnding ==
  ASSUME Inv, TypeOK', NEW result, result # "applied", Finish(result),
         UNCHANGED <<backups, receipts, told, authored, raced>>,
         torn \union InTransit \subseteq torn',
         \A t \in Targets \ torn' : file'[t] = file[t],
         AuthoredIsSaved'
  PROVE  Inv'
<1>1. pc' = "idle" /\ Prepared' = {} /\ InTransit' = {} /\ outcome' # "applied"
  BY WalkEnds DEF Finish
<1>2. BackedUp' /\ PreparedIsSaved' /\ PreparedIsTold' /\ Underway'
  BY <1>1 DEF BackedUp, PreparedIsSaved, PreparedIsTold, Underway
<1>3. Recorded'
  BY <1>1 DEF Inv, Recorded
<1>4. RollbackHasReceipt' /\ Syncing' /\ AppliedIsInSync'
  BY <1>1 DEF RollbackHasReceipt, Syncing, AppliedIsInSync
<1>5. QED
  BY <1>2, <1>3, <1>4 DEF Inv

\* Work that nothing touches stays saved.
LEMMA AuthoredStaysSaved ==
  ASSUME Inv, UNCHANGED <<file, backups, receipts, authored, raced>>
  PROVE  AuthoredIsSaved'
BY DEF Inv, AuthoredIsSaved, Saved

\* Planning a mirror keeps the invariant.
LEMMA KeptByPrepare == Inv /\ TypeOK' /\ Prepare => Inv'
<1> SUFFICES ASSUME Inv, TypeOK', Prepare PROVE Inv'
  OBVIOUS
<1> USE DEF history
<1>1. /\ pc' \in {"prepare", "write"} /\ Current \in Targets
      /\ Prepared' = Prepared \union {Current}
      /\ InTransit = {} /\ InTransit' = {}
  BY WalkAdvances DEF Prepare, FollowingPhase, Inv
<1>2. /\ before'[Current] = file[Current]
      /\ after'[Current] = file[SourceOf[Current]]
      /\ \A t \in Targets \ {Current} :
            before'[t] = before[t] /\ after'[t] = after[t]
  BY <1>1 DEF Prepare, Inv, TypeOK
<1>3. backups \subseteq backups'
  BY DEF Prepare
<1>4. file[Current] # Absent => <<Current, file[Current]>> \in backups'
  BY DEF Prepare
<1>5. file[SourceOf[Current]] \in Contents
  BY <1>1, FileTypes DEF Inv, TypeOK, MaybeContent
<1>6. BackedUp'
  BY <1>1, <1>2, <1>3, <1>4, <1>5, WalkTypes DEF Inv, BackedUp
<1>7. \A t \in Targets : Saved(t) => Saved(t)'
  BY <1>3, SavedStays DEF Prepare
<1>8. AuthoredIsSaved'
  BY <1>7 DEF Prepare, Inv, AuthoredIsSaved
<1>9. \A t \in Targets : t = Current /\ authored[t] = file[t] => Saved(t)'
  BY <1>4 DEF Prepare, Saved
<1>10. PreparedIsSaved'
  <2>1. \A t \in Targets \ raced : t = Current => Saved(t)'
    BY <1>7, <1>9 DEF Inv, AuthoredIsSaved
  <2>2. \A t \in Prepared \ raced : Saved(t)'
    BY <1>7, WalkTypes DEF Inv, PreparedIsSaved
  <2>3. QED
    BY <1>1, <2>1, <2>2 DEF Prepare, PreparedIsSaved
<1>11. PreparedIsTold'
  BY <1>1, <1>2, WalkTypes DEF Prepare, Inv, PreparedIsTold, Recorded
<1>12. Recorded' /\ Underway' /\ RollbackHasReceipt'
  BY <1>1 DEF Prepare, Inv, Recorded, Underway, RollbackHasReceipt
<1>13. Syncing'
  <2>1. outcome' # "applied"
    BY DEF Prepare, Inv, Syncing
  <2>2. \A t \in Targets : Equivalent(t)' <=> Equivalent(t)
    BY DEF Prepare, Equivalent
  <2>3. QED
    BY <1>1, <1>2, <2>1, <2>2, WalkTypes DEF Prepare, Inv, Syncing
<1>14. AppliedIsInSync'
  BY DEF Prepare, Inv, Syncing, AppliedIsInSync
<1>15. QED
  BY <1>6, <1>8, <1>10, <1>11, <1>12, <1>13, <1>14 DEF Inv

\* Writing a mirror keeps it.
LEMMA KeptByWrite == Inv /\ TypeOK' /\ Write => Inv'
<1> SUFFICES ASSUME Inv, TypeOK', Write PROVE Inv'
  OBVIOUS
<1> USE DEF history
<1>1. /\ pc' \in {"write", "receipt"} /\ Current \in Targets
      /\ Prepared = changed /\ Prepared' = changed
      /\ InTransit' = InTransit \union {Current}
      /\ Current \notin InTransit
  BY WalkAdvances DEF Write, FollowingPhase, Inv
<1>2. /\ file'[Current] = after[Current]
      /\ \A f \in Files \ {Current} : file'[f] = file[f]
  BY <1>1, FileTypes DEF Write, Inv, TypeOK
<1>3. \A t \in Targets : Saved(t)' <=> Saved(t)
  BY DEF Write, Saved
<1>4. BackedUp' /\ PreparedIsTold'
  BY <1>1 DEF Write, Inv, BackedUp, PreparedIsTold
<1>5. PreparedIsSaved'
  BY <1>1, <1>3, WalkTypes DEF Write, Inv, PreparedIsSaved
<1>6. Recorded'
  BY <1>1, <1>2, FileTypes DEF Write, Inv, Recorded
<1>7. Underway'
  BY <1>1, <1>2, FileTypes, WalkTypes DEF Write, Inv, Underway
<1>8. AuthoredIsSaved'
  BY <1>1, <1>2, <1>3, FileTypes DEF Write, Inv, AuthoredIsSaved, PreparedIsSaved
<1>9. RollbackHasReceipt'
  BY <1>1 DEF RollbackHasReceipt
<1>10. Syncing'
  <2>1. \A t \in Targets : file'[SourceOf[t]] = file[SourceOf[t]]
    BY <1>1, <1>2, FileTypes
  <2>2. \A t \in Targets \ changed : Equivalent(t)' <=> Equivalent(t)
    <3>1. \A t \in Targets \ changed : file'[t] = file[t]
      BY <1>2, FileTypes DEF Write
    <3>2. QED
      BY <2>1, <3>1 DEF Equivalent
  <2>3. QED
    BY <1>1, <1>2, <2>1, <2>2, FileTypes, WalkTypes DEF Write, Inv, Syncing
<1>11. AppliedIsInSync'
  BY DEF Write, Inv, Syncing, AppliedIsInSync
<1>12. QED
  BY <1>4, <1>5, <1>6, <1>7, <1>8, <1>9, <1>10, <1>11 DEF Inv

\* A write that fails keeps it.
LEMMA KeptByFailWrite == Inv /\ TypeOK' /\ FailWrite => Inv'
<1> SUFFICES ASSUME Inv, TypeOK', FailWrite PROVE Inv'
  OBVIOUS
<1>1. next \in 1..Len(Order) /\ Current \in Targets
  BY AtAMirror DEF FailWrite, Inv, TypeOK
<1>2. next' + 1 = next /\ pc' = "restore"
  BY <1>1, PrecedingFacts DEF FailWrite
<1>3. Prepared = changed /\ Prepared' = changed /\ InTransit' = InTransit
  BY <1>2 DEF FailWrite, Prepared, InTransit, Upto
<1>4. /\ torn \subseteq torn'
      /\ \A t \in Targets \ torn' : file'[t] = file[t]
      /\ \A t \in Targets \ {Current} : file'[t] = file[t]
  BY <1>1, FileTypes DEF FailWrite, Inv, TypeOK
<1>5. \A t \in Targets : Saved(t)' <=> Saved(t)
  BY DEF FailWrite, Saved
<1>6. BackedUp' /\ PreparedIsTold'
  BY <1>3, <1>4 DEF FailWrite, Inv, BackedUp, PreparedIsTold
<1>7. PreparedIsSaved'
  BY <1>3, <1>5, WalkTypes DEF FailWrite, Inv, PreparedIsSaved
<1>8. Recorded'
  BY <1>3, <1>4 DEF FailWrite, Inv, Recorded
<1>9. AuthoredIsSaved'
  BY <1>1, <1>3, <1>4, <1>5 DEF FailWrite, Inv, AuthoredIsSaved, PreparedIsSaved
<1>10. Underway' /\ RollbackHasReceipt'
  BY <1>2 DEF Underway, RollbackHasReceipt
<1>11. Syncing' /\ AppliedIsInSync'
  BY <1>2 DEF FailWrite, Inv, Syncing, AppliedIsInSync
<1>12. QED
  BY <1>6, <1>7, <1>8, <1>9, <1>10, <1>11 DEF Inv

\* The receipt of an apply keeps it.
LEMMA KeptByWriteReceipt == Inv /\ TypeOK' /\ WriteReceipt => Inv'
<1> SUFFICES ASSUME Inv, TypeOK', WriteReceipt PROVE Inv'
  OBVIOUS
<1>1. pc' = "idle" /\ Prepared' = {} /\ InTransit' = {}
  BY WalkEnds DEF WriteReceipt
<1>2. Prepared = changed /\ InTransit = changed
  BY DEF WriteReceipt, Prepared, InTransit
<1>3. \A t \in Targets : told'[t] = IF t \in changed THEN after[t] ELSE told[t]
  BY DEF WriteReceipt
<1>4. BackedUp' /\ PreparedIsSaved' /\ PreparedIsTold' /\ Underway'
  BY <1>1 DEF BackedUp, PreparedIsSaved, PreparedIsTold, Underway
<1>5. Recorded'
  BY <1>1, <1>2, <1>3, WalkTypes DEF WriteReceipt, Inv, Recorded, Underway
<1>6. \A t \in Targets : Saved(t) => Saved(t)'
  BY SavedStays DEF WriteReceipt
<1>7. AuthoredIsSaved'
  BY <1>6 DEF WriteReceipt, Inv, AuthoredIsSaved
<1>8. RollbackHasReceipt' /\ Syncing'
  BY <1>1 DEF RollbackHasReceipt, Syncing
<1>9. ASSUME ~touched, NEW t \in Targets PROVE Equivalent(t)
  <2>1. CASE t \in changed
    <3>1. file[t] = after[t] /\ after[t] = file[SourceOf[t]] /\ after[t] \in Contents
      BY <1>2, <1>9, <2>1 DEF WriteReceipt, Inv, Syncing, BackedUp
    <3>2. QED
      BY <3>1, AbsentAssumption DEF Equivalent
  <2>2. CASE t \notin changed
    BY <1>9, <2>2 DEF WriteReceipt, Inv, Syncing
  <2>3. QED
    BY <2>1, <2>2
<1>10. \A t \in Targets : Equivalent(t)' <=> Equivalent(t)
  BY DEF WriteReceipt, Equivalent
<1>11. AppliedIsInSync'
  BY <1>9, <1>10 DEF WriteReceipt, AppliedIsInSync, Drift
<1>12. QED
  BY <1>4, <1>5, <1>7, <1>8, <1>11 DEF Inv

\* Putting a mirror back keeps it.
LEMMA KeptByRestore == Inv /\ TypeOK' /\ Restore => Inv'
<1> SUFFICES ASSUME Inv, TypeOK', Restore PROVE Inv'
  OBVIOUS
<1> USE DEF history
<1>1. /\ pc = "restore" /\ pc' = "restore" /\ Current \in Targets
      /\ Prepared = changed /\ Prepared' = changed
      /\ InTransit = InTransit' \union ({Current} \intersect changed)
      /\ Current \notin InTransit'
  BY WalkReturns DEF Restore, Inv
<1>2. /\ Current \in changed => file'[Current] = before[Current]
      /\ \A t \in Targets : t # Current \/ t \notin changed => file'[t] = file[t]
  BY <1>1, FileTypes DEF Restore, Inv, TypeOK
<1>3. \A t \in Targets : Saved(t)' <=> Saved(t)
  BY DEF Restore, Saved
<1>4. BackedUp' /\ PreparedIsTold'
  BY <1>1 DEF Restore, Inv, BackedUp, PreparedIsTold
<1>5. PreparedIsSaved'
  BY <1>1, <1>3, WalkTypes DEF Restore, Inv, PreparedIsSaved
<1>6. Recorded'
  BY <1>1, <1>2 DEF Restore, Inv, Recorded, PreparedIsTold
<1>7. AuthoredIsSaved'
  BY <1>1, <1>2, <1>3 DEF Restore, Inv, AuthoredIsSaved, PreparedIsSaved
<1>8. Underway' /\ RollbackHasReceipt'
  BY <1>1 DEF Underway, RollbackHasReceipt
<1>9. Syncing' /\ AppliedIsInSync'
  BY <1>1 DEF Restore, Inv, Syncing, AppliedIsInSync
<1>10. QED
  BY <1>4, <1>5, <1>6, <1>7, <1>8, <1>9 DEF Inv

\* A restore that fails keeps it.
LEMMA KeptByFailRestore == Inv /\ TypeOK' /\ FailRestore => Inv'
<1> SUFFICES ASSUME Inv, TypeOK', FailRestore PROVE Inv'
  OBVIOUS
<1>1. /\ pc = "restore" /\ pc' = "restore"
      /\ Prepared = changed /\ Prepared' = changed
      /\ InTransit \subseteq InTransit' \union {Current}
  BY WalkReturns DEF FailRestore, Inv
<1>2. \A t \in Targets : Saved(t)' <=> Saved(t)
  BY DEF FailRestore, Saved
<1>3. BackedUp' /\ PreparedIsTold'
  BY <1>1 DEF FailRestore, Inv, BackedUp, PreparedIsTold
<1>4. PreparedIsSaved'
  BY <1>1, <1>2, WalkTypes DEF FailRestore, Inv, PreparedIsSaved
<1>5. Recorded'
  BY <1>1 DEF FailRestore, Inv, Recorded
<1>6. AuthoredIsSaved'
  BY <1>2 DEF FailRestore, Inv, AuthoredIsSaved
<1>7. Underway' /\ RollbackHasReceipt' /\ Syncing' /\ AppliedIsInSync'
  BY <1>1 DEF FailRestore, Underway, RollbackHasReceipt, Syncing, AppliedIsInSync
<1>8. QED
  BY <1>3, <1>4, <1>5, <1>6, <1>7 DEF Inv

\* The beginning of an apply keeps it.
LEMMA KeptByBeginApply == Inv /\ TypeOK' /\ BeginApply => Inv'
<1> SUFFICES ASSUME Inv, TypeOK', BeginApply PROVE Inv'
  OBVIOUS
<1>1. /\ pc' = "prepare" /\ Prepared' = {} /\ InTransit' = {} /\ InTransit = {}
      /\ outcome' = "running"
  BY WalkBegins DEF BeginApply, Begin, InTransit
<1>2. BackedUp' /\ PreparedIsSaved' /\ PreparedIsTold' /\ Underway'
  BY <1>1 DEF BackedUp, PreparedIsSaved, PreparedIsTold, Underway
<1>3. Recorded'
  BY <1>1 DEF BeginApply, Inv, Recorded
<1>4. \A t \in Targets : Saved(t)' <=> Saved(t)
  BY DEF BeginApply, Saved
<1>5. AuthoredIsSaved'
  BY <1>4 DEF BeginApply, Inv, AuthoredIsSaved
<1>6. \A t \in Targets : Equivalent(t)' <=> Equivalent(t)
  BY DEF BeginApply, Equivalent
<1>7. \A t \in Targets \ changed' : Equivalent(t)
  BY DEF BeginApply, Drift
<1>8. Syncing'
  BY <1>1, <1>6, <1>7 DEF Syncing
<1>9. RollbackHasReceipt' /\ AppliedIsInSync'
  BY <1>1 DEF RollbackHasReceipt, AppliedIsInSync
<1>10. QED
  BY <1>2, <1>3, <1>5, <1>8, <1>9 DEF Inv

\* The beginning of a rollback keeps it.
LEMMA KeptByBeginRollback ==
  ASSUME Inv, TypeOK', NEW r \in receipts, BeginRollback(r)
  PROVE  Inv'
<1>1. /\ pc' = "rollback" /\ Prepared' = {} /\ InTransit' = {} /\ InTransit = {}
      /\ outcome' = "running"
  BY WalkBegins DEF BeginRollback, Begin, InTransit
<1>2. BackedUp' /\ PreparedIsSaved' /\ PreparedIsTold' /\ Underway'
  BY <1>1 DEF BackedUp, PreparedIsSaved, PreparedIsTold, Underway
<1>3. Recorded'
  BY <1>1 DEF BeginRollback, Inv, Recorded
<1>4. \A t \in Targets : Saved(t)' <=> Saved(t)
  BY DEF BeginRollback, Saved
<1>5. AuthoredIsSaved'
  BY <1>4 DEF BeginRollback, Inv, AuthoredIsSaved
<1>6. RollbackHasReceipt'
  <2>1. r \in Receipts
    BY DEF Inv, TypeOK
  <2>2. Receipt' = r
    BY <2>1 DEF BeginRollback, Receipt, Receipts
  <2>3. QED
    BY <2>2 DEF BeginRollback, RollbackHasReceipt
<1>7. Syncing' /\ AppliedIsInSync'
  BY <1>1 DEF Syncing, AppliedIsInSync
<1>8. QED
  BY <1>2, <1>3, <1>5, <1>6, <1>7 DEF Inv

(* What an apply left in a target, and a rollback takes out of it, is kept *)
(* by the receipt.                                                         *)
LEMMA RevertibleIsSaved ==
  ASSUME Inv, pc = "rollback", NEW t \in Targets \ raced, t \in changed,
         Revertible(t)
  PROVE  Saved(t)
<1>1. authored[t] = after[t] \/ Saved(t)
  BY DEF Inv, AuthoredIsSaved, Revertible
<1>2. Receipt \in receipts /\ Receipt.changed = changed /\ Receipt.after = after
  BY DEF Inv, RollbackHasReceipt, Receipt
<1>3. QED
  BY <1>1, <1>2 DEF Saved

\* Reverting a mirror keeps it.
LEMMA KeptByRevert == Inv /\ TypeOK' /\ Revert => Inv'
<1> SUFFICES ASSUME Inv, TypeOK', Revert PROVE Inv'
  OBVIOUS
<1> USE DEF history
<1>1. /\ pc' \in {"rollback", "rolled"} /\ Current \in Targets
      /\ Prepared' = {}
      /\ InTransit' = InTransit \union {Current}
      /\ Current \notin InTransit
  BY WalkAdvances DEF Revert, FollowingPhase, Inv
<1>2. /\ file'[Current] = before[Current]
      /\ \A t \in Targets \ {Current} : file'[t] = file[t]
  BY <1>1, FileTypes DEF Revert, Inv, TypeOK
<1>3. BackedUp' /\ PreparedIsSaved' /\ PreparedIsTold'
  BY <1>1 DEF BackedUp, PreparedIsSaved, PreparedIsTold
<1>4. Recorded'
  BY <1>1, <1>2 DEF Revert, Inv, Recorded
<1>5. before[Current] = Absent \/ before[Current] = planned[Current]
  BY DEF Revert, Revertible
<1>6. Underway'
  BY <1>1, <1>2, <1>5, WalkTypes DEF Revert, Inv, Underway
<1>7. \A t \in Targets : Saved(t)' <=> Saved(t)
  BY DEF Revert, Saved
<1>8. Current \in Targets \ raced => Saved(Current)
  BY RevertibleIsSaved DEF Revert
<1>9. AuthoredIsSaved'
  BY <1>2, <1>7, <1>8 DEF Revert, Inv, AuthoredIsSaved
<1>10. RollbackHasReceipt'
  BY DEF Revert, Inv, RollbackHasReceipt, Receipt
<1>11. Syncing' /\ AppliedIsInSync'
  BY <1>1 DEF Revert, Inv, Syncing, AppliedIsInSync
<1>12. QED
  BY <1>3, <1>4, <1>6, <1>9, <1>10, <1>11 DEF Inv

\* A revert that fails keeps it.
LEMMA KeptByFailRevert == Inv /\ TypeOK' /\ FailRevert => Inv'
<1> SUFFICES ASSUME Inv, TypeOK', FailRevert PROVE Inv'
  OBVIOUS
<1>1. next \in 1..Len(Order) /\ Current \in Targets
  BY AtAMirror DEF FailRevert, Inv, TypeOK
<1>2. Upto(next + 1) = InTransit \union {Current}
  <2>1. Preceding(next + 1) = Preceding(next) \union {Current}
    BY <1>1, PrecedingFacts DEF Current
  <2>2. QED
    BY <2>1 DEF FailRevert, InTransit, Upto
<1>3. torn \union InTransit \subseteq torn' /\ Current \in torn'
  BY <1>2 DEF FailRevert
<1>4. \A t \in Targets \ {Current} : file'[t] = file[t]
  BY <1>1, FileTypes DEF FailRevert, Inv, TypeOK
<1>5. \A t \in Targets : Saved(t)' <=> Saved(t)
  BY DEF FailRevert, Saved
<1>6. Current \in Targets \ raced => Saved(Current)
  BY RevertibleIsSaved DEF FailRevert
<1>7. AuthoredIsSaved'
  BY <1>4, <1>5, <1>6 DEF FailRevert, Inv, AuthoredIsSaved
<1>8. QED
  BY <1>3, <1>4, <1>7, KeptByEnding DEF FailRevert

\* The receipt of a rollback keeps it.
LEMMA KeptByWriteRollbackReceipt ==
  Inv /\ TypeOK' /\ WriteRollbackReceipt => Inv'
<1> SUFFICES ASSUME Inv, TypeOK', WriteRollbackReceipt PROVE Inv'
  OBVIOUS
<1>1. /\ pc' = "idle" /\ Prepared' = {} /\ InTransit' = {}
      /\ outcome' = "rolled_back"
  BY WalkEnds DEF WriteRollbackReceipt, Finish
<1>2. InTransit = changed
  BY DEF WriteRollbackReceipt, InTransit
<1>3. \A t \in Targets :
         told'[t] = IF t \notin changed THEN told[t]
                    ELSE IF before[t] = Absent THEN Absent ELSE planned[t]
  BY DEF WriteRollbackReceipt
<1>4. BackedUp' /\ PreparedIsSaved' /\ PreparedIsTold' /\ Underway'
  BY <1>1 DEF BackedUp, PreparedIsSaved, PreparedIsTold, Underway
<1>5. Recorded'
  BY <1>1, <1>2, <1>3, WalkTypes
  DEF WriteRollbackReceipt, Inv, Recorded, Underway
<1>6. AuthoredIsSaved'
  BY AuthoredStaysSaved DEF WriteRollbackReceipt
<1>7. RollbackHasReceipt' /\ Syncing' /\ AppliedIsInSync'
  BY <1>1 DEF RollbackHasReceipt, Syncing, AppliedIsInSync
<1>8. QED
  BY <1>4, <1>5, <1>6, <1>7 DEF Inv

\* Every step of an apply keeps the invariant.
LEMMA KeptByApply == Inv /\ TypeOK' /\ Apply => Inv'
<1> SUFFICES ASSUME Inv, TypeOK', Apply PROVE Inv'
  OBVIOUS
<1>1. CASE FailPrepare
  <2>1. InTransit = {}
    BY <1>1 DEF FailPrepare, InTransit
  <2>2. QED
    BY <1>1, <2>1, KeptByEnding, AuthoredStaysSaved DEF FailPrepare, history
<1>2. CASE FailReceipt
  <2>1. next' + 1 = Len(Order) + 1 /\ pc' = "restore"
    BY <1>2 DEF FailReceipt
  <2>2. InTransit' = changed
    BY <1>2, <2>1, PrecedingFacts DEF FailReceipt, InTransit, Upto, Inv, TypeOK
  <2>3. InTransit = changed /\ Prepared = changed /\ Prepared' = changed
    BY <1>2, <2>1 DEF FailReceipt, InTransit, Prepared
  <2>4. QED
    BY <1>2, <2>1, <2>2, <2>3, KeptByMovingOn DEF FailReceipt
<1>3. CASE AbandonRestore
  <2>1. InTransit = Upto(next + 1)
    BY <1>3 DEF AbandonRestore, InTransit
  <2>2. QED
    BY <1>3, <2>1, KeptByEnding, AuthoredStaysSaved DEF AbandonRestore
<1>4. CASE EndRestore
  <2>1. InTransit = {}
    BY <1>4, PrecedingFacts DEF EndRestore, InTransit, Upto
  <2>2. outcome # "applied"
    BY <1>4 DEF EndRestore, Inv, Syncing
  <2>3. QED
    BY <1>4, <2>1, <2>2, KeptByEnding, AuthoredStaysSaved
    DEF EndRestore, history
<1>5. QED
  BY <1>1, <1>2, <1>3, <1>4, KeptByBeginApply, KeptByPrepare, KeptByWrite,
     KeptByFailWrite, KeptByWriteReceipt, KeptByRestore, KeptByFailRestore
  DEF Apply

\* Every step of a rollback keeps it.
LEMMA KeptByRollback == Inv /\ TypeOK' /\ Rollback => Inv'
<1> SUFFICES ASSUME Inv, TypeOK', Rollback PROVE Inv'
  OBVIOUS
<1>1. CASE RefuseRollback
  <2>1. InTransit = Upto(next)
    BY <1>1 DEF RefuseRollback, InTransit
  <2>2. QED
    BY <1>1, <2>1, KeptByEnding, AuthoredStaysSaved DEF RefuseRollback
<1>2. CASE FailRollbackReceipt
  <2>1. InTransit = changed
    BY <1>2 DEF FailRollbackReceipt, InTransit
  <2>2. QED
    BY <1>2, <2>1, KeptByEnding, AuthoredStaysSaved DEF FailRollbackReceipt
<1>3. QED
  BY <1>1, <1>2, KeptByBeginRollback, KeptByRevert, KeptByFailRevert,
     KeptByWriteRollbackReceipt DEF Rollback

\* An edit of a target keeps it.
LEMMA KeptByEdit ==
  ASSUME Inv, TypeOK', NEW t \in Targets, NEW c \in MaybeContent, Edit(t, c)
  PROVE  Inv'
<1> USE DEF command
<1>1. Prepared' = Prepared /\ InTransit' = InTransit
  BY StandingStill DEF Edit
<1>2. /\ file'[t] = c /\ told'[t] = c /\ authored'[t] = c
      /\ \A u \in Targets \ {t} : /\ file'[u] = file[u]
                                  /\ told'[u] = told[u]
                                  /\ authored'[u] = authored[u]
  BY FileTypes DEF Edit, Inv, TypeOK
<1>3. t \in Prepared \union InTransit => t \in raced'
  BY WalkTypes DEF Edit, Inv
<1>4. \A u \in Targets \ {t} :
         (u \in raced' <=> u \in raced) /\ (u \in torn' <=> u \in torn)
  BY DEF Edit
<1>5. \A u \in Targets \ {t} : Saved(u) => Saved(u)'
  BY <1>2, SavedStays DEF Edit
<1>6. BackedUp'
  BY <1>1 DEF Edit, Inv, BackedUp
<1>7. PreparedIsSaved'
  BY <1>1, <1>3, <1>4, <1>5, WalkTypes DEF Inv, PreparedIsSaved
<1>8. PreparedIsTold'
  BY <1>1, <1>2, <1>3, <1>4, WalkTypes DEF Edit, Inv, PreparedIsTold
<1>9. Recorded'
  BY <1>1, <1>2, <1>4 DEF Inv, Recorded
<1>10. Underway'
  BY <1>1, <1>2, <1>3, <1>4, WalkTypes DEF Edit, Inv, Underway
<1>11. AuthoredIsSaved'
  BY <1>2, <1>4, <1>5 DEF Inv, AuthoredIsSaved
<1>12. RollbackHasReceipt'
  BY DEF Edit, Inv, RollbackHasReceipt, Receipt
<1>13. Syncing' /\ AppliedIsInSync'
  BY DEF Edit, Inv, Syncing, AppliedIsInSync
<1>14. QED
  BY <1>6, <1>7, <1>8, <1>9, <1>10, <1>11, <1>12, <1>13 DEF Inv

\* An edit of a source keeps it.
LEMMA KeptByEditSource ==
  ASSUME Inv, TypeOK', NEW s \in Sources, NEW c \in Contents, EditSource(s, c)
  PROVE  Inv'
<1> USE DEF command
<1>1. Prepared' = Prepared /\ InTransit' = InTransit
  BY StandingStill DEF EditSource
<1>2. \A u \in Targets : file'[u] = file[u]
  BY FileTypes DEF EditSource, Inv, TypeOK
<1>3. \A u \in Targets : Saved(u)' <=> Saved(u)
  BY DEF EditSource, Saved
<1>4. BackedUp' /\ PreparedIsTold'
  BY <1>1 DEF EditSource, Inv, BackedUp, PreparedIsTold
<1>5. PreparedIsSaved' /\ AuthoredIsSaved'
  BY <1>1, <1>2, <1>3, WalkTypes
  DEF EditSource, Inv, PreparedIsSaved, AuthoredIsSaved
<1>6. Recorded' /\ Underway'
  BY <1>1, <1>2, WalkTypes DEF EditSource, Inv, Recorded, Underway
<1>7. RollbackHasReceipt'
  BY DEF EditSource, Inv, RollbackHasReceipt, Receipt
<1>8. Syncing' /\ AppliedIsInSync'
  BY DEF EditSource, Inv, Syncing, AppliedIsInSync
<1>9. QED
  BY <1>4, <1>5, <1>6, <1>7, <1>8 DEF Inv

\* What happens around the commands keeps it.
LEMMA KeptAround == Inv /\ TypeOK' /\ Around => Inv'
<1> SUFFICES ASSUME Inv, TypeOK', Around PROVE Inv'
  OBVIOUS
<1>1. CASE Crash
  <2>1. InTransit \subseteq IF pc = "prepare" THEN {} ELSE changed
    BY WalkTypes DEF InTransit, Inv
  <2>2. QED
    BY <1>1, <2>1, KeptByEnding, AuthoredStaysSaved DEF Crash
<1>2. CASE Commit
  BY <1>2, StandingStill, KeptByMovingOn DEF Commit, command
<1>3. CASE SwitchBranch
  BY <1>3, StandingStill, KeptByMovingOn DEF SwitchBranch, command
<1>4. QED
  BY <1>1, <1>2, <1>3, KeptByEdit, KeptByEditSource DEF Around

\* A step of nobody keeps it.
LEMMA KeptBySkip == Inv /\ TypeOK' /\ Skip => Inv'
<1> SUFFICES ASSUME Inv, TypeOK', Skip PROVE Inv'
  OBVIOUS
<1>1. /\ pc \in {"prepare", "write", "rollback"}
      /\ pc' \in {pc, FollowingPhase[pc]}
      /\ Prepared' = Prepared /\ InTransit' = InTransit
      /\ pc = "prepare" => InTransit = {}
  BY WalkAdvances DEF Skip, Inv
<1>2. QED
  BY <1>1, KeptByMovingOn DEF Skip, FollowingPhase

\* Every step keeps the invariant.
LEMMA InvStep == Inv /\ [Next]_vars => Inv'
<1> SUFFICES ASSUME Inv, [Next]_vars PROVE Inv'
  OBVIOUS
<1>1. TypeOK'
  BY TypeStep DEF Inv
<1>2. CASE UNCHANGED vars
  BY <1>1, <1>2, StandingStill, KeptByMovingOn DEF vars, command
<1>3. QED
  BY <1>1, <1>2, KeptBySkip, KeptByApply, KeptByRollback, KeptAround DEF Next

\* The invariant holds throughout.
LEMMA InvAlways == Spec => []Inv
BY InvInit, InvStep, PTL DEF Spec

-----------------------------------------------------------------------------
(***************************************************************************)
(* What the migration promises.                                            *)
(***************************************************************************)

(* Between commands a target differs from what people and receipts say of  *)
(* it only where a death, an undo that failed or an edit under a command's *)
(* hands left it so.                                                       *)
THEOREM ReceiptsAccountForTargets == Spec => []TargetsAreReceipted
<1>1. Inv => TargetsAreReceipted
  BY DEF Inv, Recorded, InTransit, TargetsAreReceipted
<1>2. QED
  BY <1>1, InvAlways, PTL

(* apply, its restoration and rollback lose nothing a person wrote: not    *)
(* with any failures or deaths, only to an edit under their hands.         *)
THEOREM WhatPeopleWroteIsKept == Spec => []AuthoredIsKept
<1>1. Inv => AuthoredIsKept
  BY DEF Inv, AuthoredIsSaved, Saved, AuthoredIsKept
<1>2. QED
  BY <1>1, InvAlways, PTL

(* An apply that reports success leaves nothing for the next one to do.    *)
THEOREM AppliedMeansInSync == Spec => []AppliedIsInSync
<1>1. Inv => AppliedIsInSync
  BY DEF Inv
<1>2. QED
  BY <1>1, InvAlways, PTL
=============================================================================
