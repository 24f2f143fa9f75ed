---------------------------- MODULE McpMigration ----------------------------
(* The migration of a repository's MCP configuration                       *)
(* (src/mcp/production/migrate.py): `apply` copies each declared source    *)
(* over its mirror, `rollback` undoes one apply by its receipt.  One step  *)
(* is one file operation, or the end of a command.  One command runs at a  *)
(* time; people edit files, commit and switch branches at any moment, and  *)
(* a command may fail or die at any step.                                  *)
(* Contents are [value, layout] records: a JSON mirror is in sync when the *)
(* values agree, any other when the bytes do.  Rollback and verify         *)
(* receipts, which no command reads but the chain check, are left out, and *)
(* so is that check: a single writer whose clock goes forward always       *)
(* passes it.                                                              *)
EXTENDS Naturals, Sequences

CONSTANTS
  Order,        \* the mirrors' targets, in the order of the profile
  Sources,      \* the files they are copied from
  SourceOf,     \* the source of each target
  JsonMirrors,  \* the targets compared as JSON
  Ignored,      \* the targets git ignores, which are never dirty
  Contents,     \* what a file may hold
  Absent,       \* there is no file
  Trees,        \* the working trees to begin with
  MaxCommands,  \* bound on commands
  MaxFaults,    \* bound on failures and deaths
  MaxActs      \* bound on what people do

Targets == {Order[i] : i \in DOMAIN Order}
Files == Targets \union Sources
MaybeContent == Contents \union {Absent}

ASSUME OrderAssumption ==
  /\ Order \in Seq(Targets)
  /\ Order # << >>
  /\ \A i, j \in DOMAIN Order : Order[i] = Order[j] => i = j
ASSUME SourceAssumption ==
  /\ SourceOf \in [Targets -> Sources]
  /\ Targets \intersect Sources = {}
ASSUME AbsentAssumption == Absent \notin Contents
ASSUME TreesAssumption ==
  \A tree \in Trees :
     /\ tree \in [Files -> MaybeContent]
     /\ \A s \in Sources : tree[s] # Absent
ASSUME BoundAssumption ==
  MaxCommands \in Nat /\ MaxFaults \in Nat /\ MaxActs \in Nat

VARIABLES
  file,      \* the working tree
  head,      \* the targets as committed
  onWork,    \* the branch is a named one that is not protected
  backups,   \* the contents backed up, with their targets
  receipts,  \* the apply receipts
  pc,        \* where the running command is
  next,      \* the mirror it is at
  changed,   \* the targets it changes
  planned,   \* what the plan found there
  before,    \* what the preparation found there, and backed up
  after,     \* what is written there
  outcome,   \* what the last command reported
  told,      \* history: what people and receipts say each target holds
  authored,  \* history: what people last wrote to each target
  raced,     \* history: edited under a command's hands
  torn,      \* history: left behind by a death or an undo that failed
  touched,   \* history: edited since the command began
  commands, faults, acts

command == <<next, changed, planned, before, after>>
history == <<told, authored, raced, torn, touched>>
counts == <<commands, faults, acts>>
vars == <<file, head, onWork, backups, receipts, pc, command, outcome,
          history, counts>>

Receipt == [changed |-> changed, planned |-> planned,
            before |-> before, after |-> after]

Equivalent(t) ==
  /\ file[t] # Absent
  /\ IF t \in JsonMirrors THEN file[SourceOf[t]].value = file[t].value
     ELSE file[SourceOf[t]] = file[t]

Drift == {t \in Targets : ~Equivalent(t)}

(* git status reports the destination neither modified nor untracked.      *)
IsClean(t) == t \in Ignored \/ file[t] = head[t]

Preceding(i) == {Order[j] : j \in {k \in DOMAIN Order : k < i}}

(* The targets of this command's changes that come before the i-th mirror. *)
Upto(i) == Preceding(i) \intersect changed

(* The command is done with mirror `next`: it goes on to the next one, or  *)
(* from the last one to `phase`.                                           *)
Advance(phase) ==
  IF next = Len(Order) THEN next' = 1 /\ pc' = phase
  ELSE next' = next + 1 /\ pc' = pc

FollowingPhase ==
  [prepare |-> "write", write |-> "receipt", rollback |-> "rolled"]

Current == Order[next]

(* The loops pass over the mirrors that were in sync.                      *)
Skip ==
  /\ pc \in {"prepare", "write", "rollback"}
  /\ Current \notin changed
  /\ Advance(FollowingPhase[pc])
  /\ UNCHANGED <<file, head, onWork, backups, receipts, changed, planned,
                 before, after, outcome, history, counts>>

Fault ==
  /\ faults < MaxFaults
  /\ faults' = faults + 1
  /\ UNCHANGED <<commands, acts>>

Nowhere == [t \in Targets |-> Absent]

(* The command ends, and its variables with it.                            *)
Finish(result) ==
  /\ pc' = "idle"
  /\ outcome' = result
  /\ next' = 1
  /\ changed' = {}
  /\ planned' = Nowhere
  /\ before' = Nowhere
  /\ after' = Nowhere

-----------------------------------------------------------------------------
(***************************************************************************)
(* apply.                                                                  *)
(***************************************************************************)

(* A command begins, on a branch that may be changed.                      *)
Begin ==
  /\ commands < MaxCommands
  /\ commands' = commands + 1
  /\ UNCHANGED <<faults, acts>>
  /\ pc = "idle"
  /\ onWork
  /\ next' = 1
  /\ outcome' = "running"
  /\ touched' = FALSE

BeginApply ==
  /\ Begin
  /\ \A t \in Drift : IsClean(t)
  /\ changed' = Drift
  /\ planned' = [t \in Targets |-> file[t]]
  /\ before' = Nowhere
  /\ after' = Nowhere
  /\ pc' = "prepare"
  /\ UNCHANGED <<file, head, onWork, backups, receipts, told, authored, raced,
                 torn>>

(* A mistaken Prepare that takes what the plan found for what is there.    *)
PreparePlanned ==
  /\ pc = "prepare"
  /\ Current \in changed
  /\ before' = [before EXCEPT ![Current] = planned[Current]]
  /\ after' = [after EXCEPT ![Current] = file[SourceOf[Current]]]
  /\ backups' = IF planned[Current] = Absent THEN backups
                ELSE backups \union {<<Current, planned[Current]>>}
  /\ Advance("write")
  /\ UNCHANGED <<file, head, onWork, receipts, changed, planned, outcome,
                 history, counts>>

(* The target is read again, backed up under this run, and the source read.*)
Prepare ==
  /\ pc = "prepare"
  /\ Current \in changed
  /\ before' = [before EXCEPT ![Current] = file[Current]]
  /\ after' = [after EXCEPT ![Current] = file[SourceOf[Current]]]
  /\ backups' = IF file[Current] = Absent THEN backups
                ELSE backups \union {<<Current, file[Current]>>}
  /\ Advance("write")
  /\ UNCHANGED <<file, head, onWork, receipts, changed, planned, outcome,
                 history, counts>>

FailPrepare ==
  /\ pc = "prepare"
  /\ Current \in changed
  /\ Fault
  /\ Finish("failed")
  /\ UNCHANGED <<file, head, onWork, backups, receipts, history>>

(* A mistaken Write that replaces and does not create.                     *)
WriteInPlace ==
  /\ pc = "write"
  /\ Current \in changed
  /\ file' = IF file[Current] = Absent THEN file
             ELSE [file EXCEPT ![Current] = after[Current]]
  /\ Advance("receipt")
  /\ UNCHANGED <<head, onWork, backups, receipts, changed, planned, before,
                 after, outcome, history, counts>>

Write ==
  /\ pc = "write"
  /\ Current \in changed
  /\ file' = [file EXCEPT ![Current] = after[Current]]
  /\ Advance("receipt")
  /\ UNCHANGED <<head, onWork, backups, receipts, changed, planned, before,
                 after, outcome, history, counts>>

(* _atomic_write raises before its os.replace, or after it: at the sync of *)
(* the directory or in the checks that follow.  Only the targets whose     *)
(* write has returned are put back, those before mirror `next`.            *)
FailWrite ==
  /\ pc = "write"
  /\ Current \in changed
  /\ Fault
  /\ \/ UNCHANGED <<file, torn>>
     \/ /\ file' = [file EXCEPT ![Current] = after[Current]]
        /\ torn' = torn \union {Current}
  /\ pc' = "restore"
  /\ next' = next - 1
  /\ UNCHANGED <<head, onWork, backups, receipts, changed, planned, before,
                 after, outcome, told, authored, raced, touched>>

(* write_receipt, which looks at the branch again.                         *)
WriteReceipt ==
  /\ pc = "receipt"
  /\ onWork
  /\ receipts' = receipts \union {Receipt}
  /\ told' = [t \in Targets |-> IF t \in changed THEN after[t] ELSE told[t]]
  /\ torn' = torn \ changed
  /\ Finish("applied")
  /\ UNCHANGED <<file, head, onWork, backups, authored, raced,
                 touched, counts>>

(* A mistaken FailReceipt that does not put the last target back.          *)
FailReceiptShort ==
  /\ pc = "receipt"
  /\ \/ Fault
     \/ ~onWork /\ UNCHANGED counts
  /\ pc' = "restore"
  /\ next' = Len(Order) - 1
  /\ UNCHANGED <<file, head, onWork, backups, receipts, changed, planned,
                 before, after, outcome, history>>

FailReceipt ==
  /\ pc = "receipt"
  /\ \/ Fault
     \/ ~onWork /\ UNCHANGED counts
  /\ pc' = "restore"
  /\ next' = Len(Order)
  /\ UNCHANGED <<file, head, onWork, backups, receipts, changed, planned,
                 before, after, outcome, history>>

(* What was written is put back in the reverse order, without a look at    *)
(* what is there now.                                                      *)
Restore ==
  /\ pc = "restore"
  /\ next > 0
  /\ file' = IF Current \in changed
             THEN [file EXCEPT ![Current] = before[Current]]
             ELSE file
  /\ next' = next - 1
  /\ UNCHANGED <<head, onWork, backups, receipts, pc, changed, planned,
                 before, after, outcome, history, counts>>

(* An OSError is noted and the others are still put back.                  *)
FailRestore ==
  /\ pc = "restore"
  /\ next > 0
  /\ Current \in changed
  /\ Fault
  /\ torn' = torn \union {Current}
  /\ outcome' = "half_restored"
  /\ next' = next - 1
  /\ UNCHANGED <<file, head, onWork, backups, receipts, pc, changed, planned,
                 before, after, told, authored, raced, touched>>

(* A MigrationError of the write leaves the loop.                          *)
AbandonRestore ==
  /\ pc = "restore"
  /\ next > 0
  /\ Current \in changed
  /\ Fault
  /\ torn' = torn \union Upto(next + 1)
  /\ Finish("failed")
  /\ UNCHANGED <<file, head, onWork, backups, receipts, told,
                 authored, raced, touched>>

EndRestore ==
  /\ pc = "restore"
  /\ next = 0
  /\ Finish(IF outcome = "half_restored" THEN outcome
            ELSE "restored")
  /\ UNCHANGED <<file, head, onWork, backups, receipts, history, counts>>

-----------------------------------------------------------------------------
(***************************************************************************)
(* rollback.                                                               *)
(***************************************************************************)

BeginRollback(r) ==
  /\ Begin
  /\ changed' = r.changed
  /\ planned' = r.planned
  /\ before' = r.before
  /\ after' = r.after
  /\ pc' = "rollback"
  /\ UNCHANGED <<file, head, onWork, backups, receipts, told, authored, raced,
                 torn>>

(* The target is as the apply left it, and its backup as the plan found it.*)
Revertible(t) ==
  /\ file[t] # Absent
  /\ file[t] = after[t]
  /\ before[t] # Absent => <<t, before[t]>> \in backups /\ before[t] = planned[t]

Revert ==
  /\ pc = "rollback"
  /\ Current \in changed
  /\ Revertible(Current)
  /\ file' = [file EXCEPT ![Current] = before[Current]]
  /\ Advance("rolled")
  /\ UNCHANGED <<head, onWork, backups, receipts, changed, planned, before,
                 after, outcome, history, counts>>

(* A refusal leaves the targets before this one reverted.                  *)
RefuseRollback ==
  /\ pc = "rollback"
  /\ Current \in changed
  /\ ~Revertible(Current)
  /\ torn' = torn \union Upto(next)
  /\ Finish("refused")
  /\ UNCHANGED <<file, head, onWork, backups, receipts, told,
                 authored, raced, touched, counts>>

FailRevert ==
  /\ pc = "rollback"
  /\ Current \in changed
  /\ Revertible(Current)
  /\ Fault
  /\ file' \in {file, [file EXCEPT ![Current] = before[Current]]}
  /\ torn' = torn \union Upto(next + 1)
  /\ Finish("failed")
  /\ UNCHANGED <<head, onWork, backups, receipts, told, authored,
                 raced, touched>>

(* The receipt says what the plan found; where a target was deleted before *)
(* its preparation there is nothing to put back, whatever the receipt says.*)
WriteRollbackReceipt ==
  /\ pc = "rolled"
  /\ onWork
  /\ told' = [t \in Targets |->
               IF t \notin changed THEN told[t]
               ELSE IF before[t] = Absent THEN Absent ELSE planned[t]]
  /\ torn' = torn \ changed
  /\ Finish("rolled_back")
  /\ UNCHANGED <<file, head, onWork, backups, receipts, authored,
                 raced, touched, counts>>

FailRollbackReceipt ==
  /\ pc = "rolled"
  /\ \/ Fault
     \/ ~onWork /\ UNCHANGED counts
  /\ torn' = torn \union changed
  /\ Finish("failed")
  /\ UNCHANGED <<file, head, onWork, backups, receipts, told,
                 authored, raced, touched>>

-----------------------------------------------------------------------------
(***************************************************************************)
(* Deaths and people.                                                      *)
(***************************************************************************)

Crash ==
  /\ pc # "idle"
  /\ Fault
  /\ torn' = IF pc = "prepare" THEN torn ELSE torn \union changed
  /\ Finish("died")
  /\ UNCHANGED <<file, head, onWork, backups, receipts, told,
                 authored, raced, touched>>

(* The targets the running command has read and will write, or has written.*)
InHand ==
  CASE pc = "idle" -> {}
    [] pc \in {"prepare", "rollback"} -> Upto(next)
    [] OTHER -> changed

Act ==
  /\ acts < MaxActs
  /\ acts' = acts + 1
  /\ UNCHANGED <<commands, faults>>

Edit(t, c) ==
  /\ Act
  /\ c # file[t]
  /\ file' = [file EXCEPT ![t] = c]
  /\ told' = [told EXCEPT ![t] = c]
  /\ authored' = [authored EXCEPT ![t] = c]
  /\ raced' = IF t \in InHand THEN raced \union {t} ELSE raced \ {t}
  /\ torn' = torn \ {t}
  /\ touched' = TRUE
  /\ UNCHANGED <<head, onWork, backups, receipts, pc, command, outcome>>

EditSource(s, c) ==
  /\ Act
  /\ c # file[s]
  /\ file' = [file EXCEPT ![s] = c]
  /\ touched' = TRUE
  /\ UNCHANGED <<head, onWork, backups, receipts, pc, command, outcome,
                 told, authored, raced, torn>>

Commit ==
  /\ Act
  /\ head' = [t \in Targets |-> IF t \in Ignored THEN Absent ELSE file[t]]
  /\ UNCHANGED <<file, onWork, backups, receipts, pc, command, outcome,
                 history>>

SwitchBranch ==
  /\ Act
  /\ onWork' = ~onWork
  /\ UNCHANGED <<file, head, backups, receipts, pc, command, outcome, history>>

Init ==
  /\ file \in Trees
  /\ head = [t \in Targets |-> IF t \in Ignored THEN Absent ELSE file[t]]
  /\ onWork = TRUE
  /\ backups = {}
  /\ receipts = {}
  /\ pc = "idle"
  /\ next = 1
  /\ changed = {}
  /\ planned = Nowhere
  /\ before = Nowhere
  /\ after = Nowhere
  /\ outcome = "none"
  /\ told = [t \in Targets |-> file[t]]
  /\ authored = [t \in Targets |-> file[t]]
  /\ raced = {}
  /\ torn = {}
  /\ touched = FALSE
  /\ commands = 0
  /\ faults = 0
  /\ acts = 0

Apply ==
  \/ BeginApply \/ Prepare \/ FailPrepare \/ Write \/ FailWrite
  \/ WriteReceipt \/ FailReceipt
  \/ Restore \/ FailRestore \/ AbandonRestore \/ EndRestore

Rollback ==
  \/ \E r \in receipts : BeginRollback(r)
  \/ Revert \/ RefuseRollback \/ FailRevert
  \/ WriteRollbackReceipt \/ FailRollbackReceipt

Around ==
  \/ Crash
  \/ \E t \in Targets, c \in MaybeContent : Edit(t, c)
  \/ \E s \in Sources, c \in Contents : EditSource(s, c)
  \/ Commit
  \/ SwitchBranch

Next == Skip \/ Apply \/ Rollback \/ Around

Spec == Init /\ [][Next]_vars

-----------------------------------------------------------------------------
(***************************************************************************)
(* Properties.                                                             *)
(***************************************************************************)

Receipts == [changed : SUBSET Targets,
             planned : [Targets -> MaybeContent],
             before : [Targets -> MaybeContent],
             after : [Targets -> MaybeContent]]

Phases == {"idle", "prepare", "write", "receipt", "restore", "rollback",
           "rolled"}

TypeOK ==
  /\ file \in [Files -> MaybeContent]
  /\ \A s \in Sources : file[s] # Absent
  /\ head \in [Targets -> MaybeContent]
  /\ onWork \in BOOLEAN
  /\ backups \subseteq Targets \X Contents
  /\ receipts \subseteq Receipts
  /\ pc \in Phases
  /\ next \in 0..Len(Order)
  /\ next = 0 => pc \in {"restore", "idle"}
  /\ changed \subseteq Targets
  /\ planned \in [Targets -> MaybeContent]
  /\ before \in [Targets -> MaybeContent]
  /\ after \in [Targets -> MaybeContent]
  /\ outcome \in {"none", "running", "applied", "restored", "half_restored",
                  "failed", "refused", "rolled_back", "died"}
  /\ told \in [Targets -> MaybeContent]
  /\ authored \in [Targets -> MaybeContent]
  /\ raced \subseteq Targets
  /\ torn \subseteq Targets
  /\ touched \in BOOLEAN
  /\ commands \in 0..MaxCommands
  /\ faults \in 0..MaxFaults
  /\ acts \in 0..MaxActs

(* Between commands every target holds what the people or the last receipt *)
(* about it say: an apply or a rollback that ends otherwise, and is not    *)
(* among those that left it torn, has changed nothing.                     *)
TargetsAreReceipted ==
  pc = "idle" => \A t \in Targets \ (torn \union raced) : file[t] = told[t]

(* No command loses what a person wrote, committed or not: it is in its    *)
(* place, in a backup, or what an apply had written there itself.          *)
AuthoredIsKept ==
  \A t \in Targets \ raced :
     \/ authored[t] \in {Absent, file[t]}
     \/ <<t, authored[t]>> \in backups
     \/ \E r \in receipts : t \in r.changed /\ authored[t] = r.after[t]

(* An apply that reports success leaves every mirror in sync, unless       *)
(* somebody edited meanwhile: what `verify` then looks for.                *)
AppliedIsInSync == outcome = "applied" /\ ~touched => Drift = {}
=============================================================================
