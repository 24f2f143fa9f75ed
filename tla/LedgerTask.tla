----------------------------- MODULE LedgerTask -----------------------------
(***************************************************************************)
(* The deterministic task reducer of the LoopX ledger (ledger_reduce.py),  *)
(* driven by the events that ledger_event.py lets through.                 *)
(*                                                                         *)
(* One action is one committed event: the checks of the event validator    *)
(* and of the reducer branch are its guard, the branch's assignments and   *)
(* the closing update_quota_state are its effect.  A rejected event leaves *)
(* no trace in the state, so rejections are the absence of an action.      *)
(*                                                                         *)
(* Abstracted: evidence (an artifact id collision only rejects),           *)
(* last_failure_ref, depends_on and timestamps, none of which any branch   *)
(* reads; state_revision is kept as opened, "is it past zero", the one     *)
(* thing the reducer asks of it.                                           *)
(***************************************************************************)
EXTENDS KernelTaskState, FiniteSetsExt

CONSTANTS
    Openings,       \* the initial status functions considered
    Observable,     \* gate verdicts considered
    Deltas,         \* quota_delta payloads considered, well-formed or not
    AttemptCap,     \* bound: attempts of one Todo that are explored
    UsedCap         \* bound: usage of one resource that is explored

ASSUME OpeningsAssumption == Openings \subseteq [Todos -> {"PENDING", "READY"}]

ASSUME ObservableAssumption == Observable \subseteq Verdicts

ASSUME DeltasAssumption == Deltas \subseteq [Resources -> Int]

ASSUME CapsAssumption == AttemptCap \in Nat /\ UsedCap \in Nat

VARIABLES
    opened,         \* some event has been committed
    granted         \* history: <<decision, Todo>> of the SCOPED_EXCEPTION
                    \* decisions in the event log

vars == << stateVars, opened, granted >>

\* Todo edges a STATE_TRANSITION_COMMITTED event may name.
AllowedTransitions == {
    << "READY",        "DISPATCHED" >>,
    << "RETRY",        "DISPATCHED" >>,
    << "DISPATCHED",   "RUNNING" >>,
    << "RUNNING",      "RETRY" >>,
    << "RUNNING",      "HITL_PENDING" >>,
    << "RETRY",        "HITL_PENDING" >>,
    << "HITL_PENDING", "READY" >>,
    << "HITL_PENDING", "CANCELLED" >>,
    << "RUNNING",      "COMPLETED" >>,
    << "RUNNING",      "COMPLETED_WITH_EXCEPTION" >>,
    << "RUNNING",      "FAILED" >>,
    << "READY",        "CANCELLED" >> }

-----------------------------------------------------------------------------
(* update_quota_state, and the revision every branch ends with.            *)

\* Mutant: the limit itself still counts as available.
Exhausted_Strict(u) == \E r \in DOMAIN Limits : u[r] > Limits[r]

Exhausted(u) == \E r \in DOMAIN Limits : u[r] >= Limits[r]

\* Commit an event whose branch left lifecycle l, current Todo c, statuses s
\* and usage u: an exhausted quota takes an ACTIVE task, and its current
\* Todo whatever its status, to HITL_PENDING.
Commit(l, c, s, u) ==
    LET escalates == Exhausted(u) /\ l = "ACTIVE"
    IN  /\ used' = u
        /\ quota' = (IF Exhausted(u) THEN "EXHAUSTED" ELSE "AVAILABLE")
        /\ lifecycle' = (IF escalates THEN "HITL_PENDING" ELSE l)
        /\ current' = c
        /\ status' = (IF escalates /\ c # NoTodo
                      THEN [s EXCEPT ![c] = "HITL_PENDING"] ELSE s)
        /\ opened' = TRUE

CommitStatus(t, new) ==
    Commit(lifecycle, current, [status EXCEPT ![t] = new], used)

Debited(u, d) == [r \in Resources |-> u[r] + d[r]]

\* Mutant: an observed worker is not charged to the task's quota.
OneAttempt_Free == [r \in Resources |-> 0]

OneAttempt == [r \in Resources |-> IF r = "attempts" THEN 1 ELSE 0]

WithinCap(u) == \A r \in Resources : u[r] <= UsedCap

-----------------------------------------------------------------------------
Init ==
    /\ lifecycle = "READY"
    /\ current \in Todos
    /\ status \in Openings
    /\ attempts = [t \in Todos |-> 0]
    /\ results = [t \in Todos |-> [g \in Gates |-> NoResult]]
    /\ exception = [t \in Todos |-> NoException]
    /\ decisions = {}
    /\ used = [r \in Resources |-> 0]
    /\ quota = "AVAILABLE"
    /\ opened = FALSE
    /\ granted = {}

\* TASK_INITIALIZED: only as the first event of the ledger.
InitializeTask ==
    /\ ~ opened
    /\ lifecycle = "READY"
    /\ Commit("ACTIVE", current, status, used)
    /\ UNCHANGED << attempts, results, exception, decisions, granted >>

\* Mutant: only a Todo already in flight is refused.
AcceptCommand_NotInFlight(t) ==
    /\ status[t] \notin {"DISPATCHED", "RUNNING"}
    /\ Commit(lifecycle, t, [status EXCEPT ![t] = "DISPATCHED"], used)
    /\ UNCHANGED << attempts, results, exception, decisions, granted >>

\* COMMAND_ACCEPTED dispatches a Todo and makes it the current one.
AcceptCommand(t) ==
    /\ status[t] \in {"READY", "RETRY"}
    /\ Commit(lifecycle, t, [status EXCEPT ![t] = "DISPATCHED"], used)
    /\ UNCHANGED << attempts, results, exception, decisions, granted >>

\* COMMAND_REJECTED is recorded and changes nothing of the task.
RejectCommand ==
    /\ Commit(lifecycle, current, status, used)
    /\ UNCHANGED << attempts, results, exception, decisions, granted >>

\* WORKER_OBSERVED starts an attempt and charges it.
ObserveWorker(t) ==
    /\ status[t] = "DISPATCHED"
    /\ attempts[t] < AttemptCap
    /\ WithinCap(Debited(used, OneAttempt))
    /\ attempts' = [attempts EXCEPT ![t] = @ + 1]
    /\ Commit(lifecycle, current, [status EXCEPT ![t] = "RUNNING"],
              Debited(used, OneAttempt))
    /\ UNCHANGED << results, exception, decisions, granted >>

\* GATE_OBSERVED replaces the gate's result, stamped with the attempt.
ObserveGate(t, g, v) ==
    /\ status[t] = "RUNNING"
    /\ results' = [results EXCEPT ![t][g] = [verdict |-> v, attempt |-> attempts[t]]]
    /\ Commit(lifecycle, current, status, used)
    /\ UNCHANGED << attempts, exception, decisions, granted >>

\* Mutant: the sign of the delta is not checked.
NonNegative_Unchecked(d) == TRUE

NonNegative(d) == \A r \in Resources : d[r] >= 0

\* QUOTA_DEBITED adds reported usage.
DebitQuota(d) ==
    /\ NonNegative(d)
    /\ WithinCap(Debited(used, d))
    /\ Commit(lifecycle, current, status, Debited(used, d))
    /\ UNCHANGED << attempts, results, exception, decisions, granted >>

\* HITL_REQUESTED: the transition it carries is validated, then ignored.
RequestHitl(t) ==
    /\ opened
    /\ status[t] \in {"RUNNING", "RETRY"}
    /\ Commit("HITL_PENDING", current,
              [status EXCEPT ![t] = "HITL_PENDING"], used)
    /\ UNCHANGED << attempts, results, exception, decisions, granted >>

\* Mutant: any decision scoped to a Todo counts as an exception.
Excepts_Any(action, t) == t # NoTodo

Excepts(action, t) == action = "SCOPED_EXCEPTION" /\ t # NoTodo

\* HUMAN_DECISION_RECORDED: an exception scoped to a Todo marks it, at any
\* time and in any status.
RecordDecision(d, action, t) ==
    /\ decisions' = decisions \union {d}
    /\ exception' = (IF Excepts(action, t)
                     THEN [exception EXCEPT ![t] = d] ELSE exception)
    /\ granted' = (IF action = "SCOPED_EXCEPTION" /\ t # NoTodo
                   THEN granted \union {<< d, t >>} ELSE granted)
    /\ Commit(lifecycle, current, status, used)
    /\ UNCHANGED << attempts, results >>

-----------------------------------------------------------------------------
(* STATE_TRANSITION_COMMITTED, by what its target does.                    *)

\* The event names the Todo's present status and a committed reason event.
MayMove(t, target) ==
    /\ opened
    /\ << status[t], target >> \in AllowedTransitions

Advance(t, target) ==
    /\ MayMove(t, target)
    /\ target \in {"READY", "DISPATCHED", "RUNNING", "RETRY"}
    /\ CommitStatus(t, target)
    /\ UNCHANGED << attempts, results, exception, decisions, granted >>

Escalate(t) ==
    /\ MayMove(t, "HITL_PENDING")
    /\ Commit("HITL_PENDING", current,
              [status EXCEPT ![t] = "HITL_PENDING"], used)
    /\ UNCHANGED << attempts, results, exception, decisions, granted >>

\* A Todo that fails or is cancelled ends the whole task.
Stop(t, target) ==
    /\ MayMove(t, target)
    /\ target \in {"FAILED", "CANCELLED"}
    /\ Commit(target, NoTodo, [status EXCEPT ![t] = target], used)
    /\ UNCHANGED << attempts, results, exception, decisions, granted >>

\* Mutant: a critical gate that was never observed does not block.
CriticalGatesPass_Absent(t) ==
    \A g \in GatesOf[t] \intersect Critical :
        results[t][g].verdict \in {"PASS", "ABSENT"}

CriticalGatesPass(t) ==
    \A g \in GatesOf[t] \intersect Critical : results[t][g].verdict = "PASS"

CompletionAdmitted(t, target) ==
    \/ target = "COMPLETED" /\ CriticalGatesPass(t) /\ exception[t] = NoException
    \/ target = "COMPLETED_WITH_EXCEPTION" /\ exception[t] # NoException

\* Mutant: a Todo completed under an exception still counts as open.
Unfinished_IgnoresExcepted(t) == { o \in Todos \ {t} : status[o] # "COMPLETED" }

\* Mutant: failed and cancelled Todos no longer keep the task open.
Unfinished_StoppedIsDone(t) ==
    { o \in Todos \ {t} : status[o] \notin Finished \union {"FAILED", "CANCELLED"} }

\* The others the task still waits for: only the two completed statuses count.
Unfinished(t) == { o \in Todos \ {t} : status[o] \notin Finished }

\* Completing a Todo hands the task to the first unfinished one, opening it
\* if it is PENDING, or completes the task.
Complete(t, target) ==
    LET done == [status EXCEPT ![t] = target]
        open == Unfinished(t)
    IN  /\ MayMove(t, target)
        /\ CompletionAdmitted(t, target)
        /\ \/ \E next \in open :
                /\ \A o \in open : next <= o
                /\ Commit("ACTIVE", next,
                          [done EXCEPT ![next] =
                              IF @ = "PENDING" THEN "READY" ELSE @], used)
           \/ /\ open = {}
              /\ Commit(IF \E o \in Todos : done[o] = "COMPLETED_WITH_EXCEPTION"
                        THEN "COMPLETED_WITH_EXCEPTION" ELSE "COMPLETED",
                        NoTodo, done, used)
        /\ UNCHANGED << attempts, results, exception, decisions, granted >>

-----------------------------------------------------------------------------
TodoStep(t) ==
    \/ AcceptCommand(t)
    \/ ObserveWorker(t)
    \/ \E g \in Gates, v \in Observable : ObserveGate(t, g, v)
    \/ RequestHitl(t)
    \/ \E s \in Statuses : Advance(t, s)
    \/ Escalate(t)
    \/ \E s \in Statuses : Stop(t, s)
    \/ \E s \in Finished : Complete(t, s)

Next ==
    \/ InitializeTask
    \/ RejectCommand
    \/ \E t \in Todos : TodoStep(t)
    \/ \E d \in Deltas : DebitQuota(d)
    \/ \E d \in DecisionIds, a \in {"SCOPED_EXCEPTION", "CANCEL"},
          t \in Todos \union {NoTodo} : RecordDecision(d, a, t)

Spec == Init /\ [][Next]_vars

-----------------------------------------------------------------------------
(* Properties.                                                             *)

\* The state has the kernel's shape and every counter is a natural number.
TypeOK ==
    /\ TaskStateType
    /\ opened \in BOOLEAN
    /\ granted \subseteq DecisionIds \X Todos

\* The task never points at a Todo that is already finished: whoever
\* completes the current Todo has to move the pointer, and no command may
\* bring a finished Todo back under it (ledger_reduce.py:151-157).
CurrentIsUnfinished ==
    current # NoTodo => status[current] \notin Finished

\* An ordinarily completed Todo still has PASS recorded for each of its
\* critical gates, whatever was observed, retried or escalated since
\* (kernel contract_validate.py:109-115, ledger README.md:90).
CompletedIsGated == \A t \in Todos : CompletionGated(t)

\* A Todo completed with an exception names a Human decision in the event
\* log that granted a scoped exception to this very Todo (README.md:91,
\* kernel contract_validate.py:104-105 and 116-117).
ExceptionIsGranted ==
    \A t \in Todos :
        /\ ExceptionRecorded(t)
        /\ status[t] = "COMPLETED_WITH_EXCEPTION" =>
              << exception[t], t >> \in granted

\* The task is complete exactly when all of its Todos are, and it is an
\* ordinary completion exactly when each of them was.  A Todo that is failed or
\* cancelled now is so in the way of the task's completion, for as long as it
\* stays that: the quota step may overwrite it while it is current, and the
\* task may then still complete (ledger_reduce.py:192-195).
CompletionIsTotal ==
    /\ lifecycle \in Finished <=> \A t \in Todos : status[t] \in Finished
    /\ CompletedTaskIsComplete
    /\ lifecycle = "COMPLETED_WITH_EXCEPTION" =>
          \E t \in Todos : status[t] = "COMPLETED_WITH_EXCEPTION"

\* quota.state agrees with the usage and an exhausted task is never ACTIVE,
\* the kernel's own rule (contract_validate.py:188-191).
ExhaustedIsNeverActive == QuotaConsistent

\* Every attempt of every Todo has been charged to the task.
AttemptsAreCharged ==
    used["attempts"] >= MapThenSumSet(LAMBDA t : attempts[t], Todos)

\* A finished Todo keeps its status and its gate results for good.  Quota
\* exhaustion overwrites the status of the current Todo without looking at
\* it, so this rests on CurrentIsUnfinished.
FinishedIsFinal ==
    [][\A t \in Todos : status[t] \in Finished =>
          status'[t] = status[t] /\ results'[t] = results[t]]_vars

(* What the kernel says of a task state and the reducer does not keep;     *)
(* refuted by a run of its own.                                            *)

\* The kernel's validator admits every state the reducer produces: a task in
\* a terminal lifecycle has no current Todo (contract_validate.py:140-145), a
\* live one has a current Todo that can be worked on (:146-151), an ordinarily
\* completed Todo carries no exception_ref (:106-108), and every gate result
\* belongs to an attempt (contract_common.py:494-499).
KernelAdmits ==
    /\ TerminalHasNoCurrent
    /\ ActiveCurrentWorkable
    /\ \A t \in Todos :
        /\ CompletionUnexcepted(t)
        /\ \A g \in Gates : GateResultAdmitted(t, g)
=============================================================================
