--------------------------- MODULE WorkerGateway ---------------------------
(* The Worker gateway (loopx-worker-gateway/scripts/gateway_runtime.py):   *)
(* each run of `gateway.py run` claims an output directory, starts one     *)
(* Worker in a detached worktree, waits for it or kills it, checks what it *)
(* has done, removes the worktree and writes a receipt.  A run waits for   *)
(* the Worker and for the end of its streams, which a helper the Worker    *)
(* has started may hold open.  One step is one thing a Worker or a helper  *)
(* can come between; failures and deaths of the gateway may strike         *)
(* anywhere.  A Worker is modelled with at most one helper.                *)
EXTENDS Naturals, Sequences

CONSTANTS
  Runs,        \* runs of the gateway
  Outputs,     \* the directories they are given
  Entries,     \* what git status may list of a worktree: <<path>>, or
               \* <<new, old>> for a rename
  Untracked,   \* the entries git diff does not show, being new
  Cut,         \* a path without its first three characters
  AfterArrow,  \* a path after its first " -> ", or as it is
  Allowed,     \* the paths within the writable roots; none if it only reads
  None,        \* nothing there
  MaxMishaps   \* bound on failures and deaths

ASSUME EntriesAssumption ==
  /\ \A e \in Entries : Len(e) \in 1..2
  /\ Untracked \subseteq Entries

VARIABLES
  phase,     \* where each run is
  output,    \* the directory it has claimed
  made,      \* the directories there are
  receipt,   \* the receipt in each directory
  tree,      \* the entries changed in each worktree, or None
  leader,    \* the Worker's process: None, "alive", or how it ended
  helper,    \* the process it has left in the background
  reported,  \* the exit its event stream ends with
  timedOut,  \* the run has killed the process group
  diff,      \* the diff it has recorded
  residue,   \* it saw the worktree outlive its removal
  verdict,   \* what it is about to receipt, or None
  mishaps

work == <<tree, leader, helper, reported>>
gatewayVars == <<phase, output, made, receipt, work, timedOut, diff, residue,
                 verdict, mishaps>>

Ends == {"success", "failure", "killed"}

(* A helper is in the Worker's process group or has left it, and holds the *)
(* Worker's streams or has closed them.                                    *)
Helpers == [group : BOOLEAN, streams : BOOLEAN, running : BOOLEAN]

(* None is no directory, no change, no process and no verdict.             *)
ASSUME NoneAssumption ==
  /\ \A changes \in SUBSET Entries : None # changes
  /\ None \notin Helpers
  /\ None \notin Outputs /\ None \notin Ends \union {"alive", "PASS", "FAIL"}

ASSUME MishapsAssumption == MaxMishaps \in Nat

HelperRuns(r) == helper[r] # None /\ helper[r].running

StreamsClosed(r) == leader[r] # "alive" /\ ~(HelperRuns(r) /\ helper[r].streams)

Mishap == mishaps < MaxMishaps /\ mishaps' = mishaps + 1

Go(r, from, to) ==
  /\ phase[r] = from
  /\ phase' = [phase EXCEPT ![r] = to]

-----------------------------------------------------------------------------
(***************************************************************************)
(* The beginning of a run.                                                 *)
(***************************************************************************)

(* An adapter that is not implemented, or a network policy that cannot be  *)
(* attested: a receipt without a run, whatever the directory holds.        *)
Decline(r, o) ==
  /\ Go(r, "idle", "done")
  /\ made' = made \union {o}
  /\ receipt' = [receipt EXCEPT ![o] = [status |-> "DECLINED"]]
  /\ UNCHANGED <<output, work, timedOut, diff, residue, verdict, mishaps>>

(* The directory is made exclusively.                                      *)
Claim(r, o) ==
  /\ o \notin made
  /\ Go(r, "idle", "claimed")
  /\ made' = made \union {o}
  /\ output' = [output EXCEPT ![r] = o]
  /\ UNCHANGED <<receipt, work, timedOut, diff, residue, verdict, mishaps>>

(* So a directory serves one run, and what a dead run has left refuses the *)
(* run that would repeat it.                                               *)
Refuse(r, o) ==
  /\ o \in made
  /\ Go(r, "idle", "done")
  /\ UNCHANGED <<output, made, receipt, work, timedOut, diff, residue, verdict,
                 mishaps>>

AddWorktree(r) ==
  /\ Go(r, "claimed", "launch")
  /\ tree' = [tree EXCEPT ![r] = {}]
  /\ UNCHANGED <<output, made, receipt, leader, helper, reported, timedOut,
                 diff, residue, verdict, mishaps>>

FailToAdd(r) ==
  /\ Go(r, "claimed", "done")
  /\ Mishap
  /\ UNCHANGED <<output, made, receipt, work, timedOut, diff, residue, verdict>>

Launch(r) ==
  /\ Go(r, "launch", "wait")
  /\ leader' = [leader EXCEPT ![r] = "alive"]
  /\ UNCHANGED <<output, made, receipt, tree, helper, reported, timedOut, diff,
                 residue, verdict, mishaps>>

-----------------------------------------------------------------------------
(***************************************************************************)
(* The wait.                                                               *)
(***************************************************************************)

(* communicate() returns when the Worker has ended and its streams have.   *)
Reap(r) ==
  /\ StreamsClosed(r)
  /\ Go(r, "wait", "paths")
  /\ UNCHANGED <<output, made, receipt, work, timedOut, diff, residue, verdict,
                 mishaps>>

(* A mistaken Timeout that waits for the Worker's process only.            *)
TimeoutOfLeader(r) ==
  /\ leader[r] = "alive"
  /\ Go(r, "wait", "drain")
  /\ timedOut' = [timedOut EXCEPT ![r] = TRUE]
  /\ leader' = [leader EXCEPT ![r] = "killed"]
  /\ helper' = IF helper[r] # None /\ helper[r].group
               THEN [helper EXCEPT ![r].running = FALSE] ELSE helper
  /\ UNCHANGED <<output, made, receipt, tree, reported, diff, residue, verdict,
                 mishaps>>

(* A mistaken Timeout that kills the Worker and not its group.             *)
TimeoutKillsOne(r) ==
  /\ Go(r, "wait", "drain")
  /\ timedOut' = [timedOut EXCEPT ![r] = TRUE]
  /\ leader' = [leader EXCEPT ![r] = IF @ = "alive" THEN "killed" ELSE @]
  /\ UNCHANGED <<output, made, receipt, tree, helper, reported, diff, residue,
                 verdict, mishaps>>

(* The time is up: the whole group is killed.  A Worker that had ended,    *)
(* perhaps just now and with its streams closed, keeps its exit code.      *)
Timeout(r) ==
  /\ Go(r, "wait", "drain")
  /\ timedOut' = [timedOut EXCEPT ![r] = TRUE]
  /\ leader' = [leader EXCEPT ![r] = IF @ = "alive" THEN "killed" ELSE @]
  /\ helper' = IF helper[r] # None /\ helper[r].group
               THEN [helper EXCEPT ![r].running = FALSE] ELSE helper
  /\ UNCHANGED <<output, made, receipt, tree, reported, diff, residue, verdict,
                 mishaps>>

(* The second communicate() has no timeout.                                *)
Drain(r) ==
  /\ StreamsClosed(r)
  /\ Go(r, "drain", "paths")
  /\ UNCHANGED <<output, made, receipt, work, timedOut, diff, residue, verdict,
                 mishaps>>

-----------------------------------------------------------------------------
(***************************************************************************)
(* The checks, the cleanup and the receipt.                                *)
(***************************************************************************)

(* changed_paths takes three characters off every path, of which only the  *)
(* new one of a rename has a status before it, and what follows an arrow,  *)
(* which the format it asks for does not have.                             *)
AsRead(e) ==
  [i \in DOMAIN e |-> AfterArrow[IF i = 1 THEN e[1] ELSE Cut[e[2]]]]

CheckPaths(r) ==
  /\ Go(r, "paths", "events")
  /\ \A e \in tree[r] : \A i \in DOMAIN e : AsRead(e)[i] \in Allowed
  /\ UNCHANGED <<output, made, receipt, work, timedOut, diff, residue, verdict,
                 mishaps>>

(* A path outside the roots; or, whatever the paths, too much output.      *)
RejectWork(r) ==
  /\ Go(r, "paths", "cleanup")
  /\ UNCHANGED <<output, made, receipt, work, timedOut, diff, residue, verdict,
                 mishaps>>

(* The last event must be a PROCESS_EXIT with the exit code of the process.*)
CheckEvents(r) ==
  /\ reported[r] = leader[r]
  /\ Go(r, "events", "diff")
  /\ UNCHANGED <<output, made, receipt, work, timedOut, diff, residue, verdict,
                 mishaps>>

RejectEvents(r) ==
  /\ reported[r] # leader[r]
  /\ Go(r, "events", "cleanup")
  /\ UNCHANGED <<output, made, receipt, work, timedOut, diff, residue, verdict,
                 mishaps>>

(* A mistaken Verdict that looks at the exit code alone.                   *)
VerdictByExit(r) == IF leader[r] = "success" THEN "PASS" ELSE "FAIL"

Verdict(r) ==
  IF leader[r] = "success" /\ ~timedOut[r] THEN "PASS" ELSE "FAIL"

TakeDiff(r) ==
  /\ Go(r, "diff", "cleanup")
  /\ diff' = [diff EXCEPT ![r] = tree[r] \ Untracked]
  /\ verdict' = [verdict EXCEPT ![r] = Verdict(r)]
  /\ UNCHANGED <<output, made, receipt, work, timedOut, residue, mishaps>>

(* git, a read or a write fails: the worktree is removed all the same.     *)
FailCommand(r) ==
  /\ phase[r] \in {"launch", "paths", "events", "diff"}
  /\ phase' = [phase EXCEPT ![r] = "cleanup"]
  /\ Mishap
  /\ UNCHANGED <<output, made, receipt, work, timedOut, diff, residue, verdict>>

(* Without a verdict the failure goes on to end the run.                   *)
AfterCleanup(r) == IF verdict[r] = None THEN "done" ELSE "receipt"

Cleanup(r) ==
  /\ Go(r, "cleanup", AfterCleanup(r))
  /\ tree' = [tree EXCEPT ![r] = None]
  /\ UNCHANGED <<output, made, receipt, leader, helper, reported, timedOut,
                 diff, residue, verdict, mishaps>>

(* What the removal leaves goes with the temporary directory around it...  *)
CleanupTwice(r) ==
  /\ Go(r, "cleanup", AfterCleanup(r))
  /\ Mishap
  /\ tree' = [tree EXCEPT ![r] = None]
  /\ residue' = [residue EXCEPT ![r] = TRUE]
  /\ UNCHANGED <<output, made, receipt, leader, helper, reported, timedOut,
                 diff, verdict>>

(* ...or that fails too, and so does the run.                              *)
FailToClean(r) ==
  /\ Go(r, "cleanup", "done")
  /\ Mishap
  /\ UNCHANGED <<output, made, receipt, work, timedOut, diff, residue, verdict>>

(* validate_receipt refuses a PASS that has left anything.                 *)
WriteReceipt(r) ==
  /\ Go(r, "receipt", "done")
  /\ receipt' =
       IF verdict[r] = "PASS" /\ residue[r] THEN receipt
       ELSE [receipt EXCEPT ![output[r]] =
               [status |-> verdict[r], run |-> r, timedOut |-> timedOut[r],
                diff |-> diff[r]]]
  /\ UNCHANGED <<output, made, work, timedOut, diff, residue, verdict, mishaps>>

(* The gateway is killed; Worker and worktree stay.                        *)
Crash(r) ==
  /\ phase[r] \notin {"idle", "done"}
  /\ phase' = [phase EXCEPT ![r] = "done"]
  /\ Mishap
  /\ UNCHANGED <<output, made, receipt, work, timedOut, diff, residue, verdict>>

-----------------------------------------------------------------------------
(***************************************************************************)
(* Workers and their helpers.                                              *)
(***************************************************************************)

gateway == <<phase, output, made, receipt, timedOut, diff, residue, verdict,
             mishaps>>

Active(r) == leader[r] = "alive" \/ HelperRuns(r)

Change(r, e) ==
  /\ Active(r)
  /\ tree[r] # None
  /\ tree' = [tree EXCEPT ![r] = @ \union {e}]
  /\ UNCHANGED <<gateway, leader, helper, reported>>

Report(r, end) ==
  /\ Active(r)
  /\ reported' = [reported EXCEPT ![r] = end]
  /\ UNCHANGED <<gateway, tree, leader, helper>>

Fork(r, h) ==
  /\ leader[r] = "alive"
  /\ helper[r] = None
  /\ h.running
  /\ helper' = [helper EXCEPT ![r] = h]
  /\ UNCHANGED <<gateway, tree, leader, reported>>

Exit(r, end) ==
  /\ leader[r] = "alive"
  /\ leader' = [leader EXCEPT ![r] = end]
  /\ UNCHANGED <<gateway, tree, helper, reported>>

HelperExit(r) ==
  /\ HelperRuns(r)
  /\ helper' = [helper EXCEPT ![r].running = FALSE]
  /\ UNCHANGED <<gateway, tree, leader, reported>>

GatewayInit ==
  /\ phase = [r \in Runs |-> "idle"]
  /\ output = [r \in Runs |-> None]
  /\ made = {}
  /\ receipt = [o \in Outputs |-> None]
  /\ tree = [r \in Runs |-> None]
  /\ leader = [r \in Runs |-> None]
  /\ helper = [r \in Runs |-> None]
  /\ reported = [r \in Runs |-> None]
  /\ timedOut = [r \in Runs |-> FALSE]
  /\ diff = [r \in Runs |-> {}]
  /\ residue = [r \in Runs |-> FALSE]
  /\ verdict = [r \in Runs |-> None]
  /\ mishaps = 0

(* What a run that has begun does by itself, sooner or later.              *)
Step(r) ==
  \/ AddWorktree(r) \/ Launch(r) \/ Reap(r) \/ Timeout(r) \/ Drain(r)
  \/ CheckPaths(r) \/ RejectWork(r) \/ CheckEvents(r) \/ RejectEvents(r)
  \/ TakeDiff(r) \/ Cleanup(r) \/ WriteReceipt(r)

Begin(r) == \E o \in Outputs : Decline(r, o) \/ Claim(r, o) \/ Refuse(r, o)

Misfortune(r) ==
  \/ FailToAdd(r) \/ FailCommand(r)
  \/ CleanupTwice(r) \/ FailToClean(r)
  \/ Crash(r)

Worker(r) ==
  \/ \E e \in Entries : Change(r, e)
  \/ \E end \in Ends : Report(r, end)
  \/ \E end \in Ends \ {"killed"} : Exit(r, end)
  \/ \E h \in Helpers : Fork(r, h)
  \/ HelperExit(r)

GatewayNext == \E r \in Runs : Begin(r) \/ Step(r) \/ Misfortune(r) \/ Worker(r)

GatewaySpec == GatewayInit /\ [][GatewayNext]_gatewayVars

FairGatewaySpec == GatewaySpec /\ \A r \in Runs : WF_gatewayVars(Step(r))

-----------------------------------------------------------------------------
(***************************************************************************)
(* Properties.                                                             *)
(***************************************************************************)

Executed == {o \in Outputs : receipt[o] # None /\ receipt[o].status # "DECLINED"}

(* A receipt says PASS only of a Worker that ended by itself and with      *)
(* success within its time, and whose worktree is gone.                    *)
PassIsEarned ==
  \A o \in Executed :
     LET r == receipt[o].run IN
     receipt[o].status = "PASS" =>
        leader[r] = "success" /\ ~timedOut[r] /\ tree[r] = None

(* A helper that no wait notices and no kill reaches.                      *)
Unnoticed(r) ==
  /\ helper[r] # None
  /\ ~helper[r].streams
  /\ ~(helper[r].group /\ timedOut[r])

(* A path that is taken for another one, which is within the roots.        *)
Misread(e, i) == AsRead(e)[i] # e[i] /\ AsRead(e)[i] \in Allowed

(* The diff in a receipt is within the writable roots, which were checked  *)
(* earlier: nobody writes in between, but for a helper that has closed the *)
(* Worker's streams and was not killed with its group.  A path that the    *)
(* check misreads is not seen (the old name of a rename, or an arrow).     *)
DiffIsLeased ==
  \A o \in Executed :
     \/ Unnoticed(receipt[o].run)
     \/ \A e \in receipt[o].diff :
           \A i \in DOMAIN e : e[i] \in Allowed \/ Misread(e, i)

(* A run ends, however the Worker behaves, unless a helper that has left   *)
(* the process group keeps the Worker's streams open.                      *)
RunsEnd ==
  \A r \in Runs :
     phase[r] # "idle" ~>
        \/ phase[r] = "done"
        \/ HelperRuns(r) /\ helper[r].streams /\ ~helper[r].group
=============================================================================
