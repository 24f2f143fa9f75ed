--------------------------- MODULE OffloadWorkflow ---------------------------
(* The dual-agent offload workflow of one job                              *)
(* (src/loop_wiki/dual-agent-offload-workflow/workflow_reducer.py and      *)
(* workflow_contract.py), with its boundaries for retries, human waits and *)
(* compensations (workflow_retry_restart.py, workflow_human_wait.py,       *)
(* workflow_compensation.py).  The reducer folds a hash-chained history; a *)
(* step is one event that the reducer and every boundary accept, so a      *)
(* restarted worker that replays the history is in the same state.         *)
(* An event decides the state it leads to, not the one it comes from: any  *)
(* event whose target the current state allows is accepted.                *)
EXTENDS Naturals

CONSTANTS
  MaxAttempts,      \* retry_policy.max_attempts of the job
  SideEffectClass,  \* side_effect_class of the job
  Effects,          \* the effects its requests may name
  NoEffect          \* no effect is named

ASSUME MaxAttemptsAssumption == MaxAttempts \in Nat \ {0}
ASSUME SideEffectClassAssumption ==
  SideEffectClass \in {"READ_ONLY", "REVERSIBLE_WRITE", "IRREVERSIBLE_WRITE"}
ASSUME NoEffectAssumption == NoEffect \notin Effects

VARIABLES
  workflowState,    \* the state of the replay
  retries,          \* the RETRY_REQUESTED events so far
  waitingSeen,      \* a HUMAN_WAIT_REQUIRED event was seen
  decisionSeen,     \* a human decision was seen
  effectRequests,   \* the effects an admission was requested for
  lineage,          \* the effect a compensation was requested for
  licensed,         \* history: an admission, a resume or a charged retry
                    \* followed the last dispatch
  cancelRequested   \* history: the cancellation was requested

workflowVars == <<workflowState, retries, waitingSeen, decisionSeen,
                  effectRequests, lineage, licensed, cancelRequested>>

WorkflowTransitions ==
  [SUBMITTED |-> {"ADMISSION_PENDING"},
   ADMISSION_PENDING |->
     {"ADMITTED", "POLICY_REFUSED", "RUNTIME_ABSENT", "DEADLINE_EXPIRED"},
   ADMITTED |-> {"DELIVERY_PENDING", "WAITING_FOR_HUMAN", "CANCEL_REQUESTED"},
   DELIVERY_PENDING |->
     {"REMOTE_DISPATCHED", "RETRY_SCHEDULED", "CANCEL_REQUESTED",
      "DEADLINE_EXPIRED", "RUNTIME_ABSENT"},
   REMOTE_DISPATCHED |->
     {"RUNNING", "RETRY_SCHEDULED", "CANCEL_REQUESTED", "ACTIVITY_FAILED"},
   RUNNING |->
     {"WAITING_FOR_RESULT", "WAITING_FOR_HUMAN", "RETRY_SCHEDULED",
      "CANCEL_REQUESTED", "ACTIVITY_FAILED", "DEADLINE_EXPIRED"},
   WAITING_FOR_RESULT |->
     {"VERIFYING", "RETRY_SCHEDULED", "CANCEL_REQUESTED", "DEADLINE_EXPIRED"},
   WAITING_FOR_HUMAN |->
     {"ADMITTED", "CANCEL_REQUESTED", "DEADLINE_EXPIRED", "POLICY_REFUSED"},
   VERIFYING |->
     {"RECONCILING", "RESULT_STALE", "RESULT_REFUSED", "COMPENSATING",
      "FAILED_CLEANUP"},
   RECONCILING |-> {"COMPLETED", "COMPENSATING", "FAILED_CLEANUP", "FAILED"},
   RETRY_SCHEDULED |->
     {"DELIVERY_PENDING", "CANCEL_REQUESTED", "DEADLINE_EXPIRED"},
   CANCEL_REQUESTED |-> {"CANCELLING"},
   CANCELLING |-> {"CANCELLED", "COMPENSATING", "FAILED_CLEANUP"},
   ACTIVITY_FAILED |-> {"RETRY_SCHEDULED", "COMPENSATING", "FAILED"},
   COMPENSATING |-> {"COMPENSATED", "COMPENSATION_FAILED"}]

WorkflowTerminals ==
  {"CANCELLED", "DEADLINE_EXPIRED", "POLICY_REFUSED", "RUNTIME_ABSENT",
   "RESULT_STALE", "RESULT_REFUSED", "COMPENSATED", "COMPENSATION_FAILED",
   "FAILED_CLEANUP", "FAILED", "COMPLETED"}

WorkflowStates == DOMAIN WorkflowTransitions \union WorkflowTerminals

(* Targets of the events that carry nothing a boundary keeps: what they    *)
(* carry is checked on its own (the digests of timers, deadlines,          *)
(* cancellations, the attempt a timer is for).                             *)
PlainTargets ==
  {"ADMISSION_PENDING", "ADMITTED", "DELIVERY_PENDING", "RUNNING",
   "WAITING_FOR_RESULT", "VERIFYING", "RECONCILING", "COMPLETED",
   "CANCELLING", "CANCELLED", "DEADLINE_EXPIRED", "POLICY_REFUSED",
   "RUNTIME_ABSENT", "ACTIVITY_FAILED", "RESULT_STALE", "RESULT_REFUSED",
   "FAILED_CLEANUP", "FAILED"}

Licensing == {"ADMITTED", "RETRY_SCHEDULED"}

-----------------------------------------------------------------------------

(* The part of every transition: the reducer's guard, its state, and what  *)
(* the history variables note of it.                                       *)
MoveTo(target) ==
  /\ workflowState \notin WorkflowTerminals
  /\ target \in WorkflowTransitions[workflowState]
  /\ workflowState' = target
  /\ licensed' = IF target = "REMOTE_DISPATCHED" THEN FALSE
                 ELSE licensed \/ target \in Licensing
  /\ cancelRequested' = (cancelRequested \/ target = "CANCEL_REQUESTED")

(* An event without a payload a boundary keeps.  ADMISSION_ALLOWED and a   *)
(* HUMAN_APPROVED that names no human decision are two of them: both lead  *)
(* to ADMITTED, from the human wait as well.                               *)
PlainEvent ==
  /\ \E target \in PlainTargets : MoveTo(target)
  /\ UNCHANGED <<retries, waitingSeen, decisionSeen, effectRequests, lineage>>

(* A mistaken RemoteDispatched that redelivers a job whose worker is gone. *)
RemoteDispatchedAgain ==
  /\ workflowState \in {"DELIVERY_PENDING", "RUNNING"}
  /\ workflowState' = "REMOTE_DISPATCHED"
  /\ licensed' = FALSE
  /\ UNCHANGED <<retries, waitingSeen, decisionSeen, effectRequests, lineage,
                 cancelRequested>>

RemoteDispatched ==
  /\ MoveTo("REMOTE_DISPATCHED")
  /\ UNCHANGED <<retries, waitingSeen, decisionSeen, effectRequests, lineage>>

(* A mistaken RetryRequested that charges the retry and skips the table.   *)
RetryRequestedAnywhere ==
  /\ retries + 1 <= MaxAttempts - 1
  /\ workflowState \notin WorkflowTerminals
  /\ workflowState' = "RETRY_SCHEDULED"
  /\ licensed' = TRUE
  /\ retries' = retries + 1
  /\ UNCHANGED <<waitingSeen, decisionSeen, effectRequests, lineage,
                 cancelRequested>>

(* Both the reducer and the retry boundary charge the retry first.         *)
RetryRequested ==
  /\ retries + 1 <= MaxAttempts - 1
  /\ MoveTo("RETRY_SCHEDULED")
  /\ retries' = retries + 1
  /\ UNCHANGED <<waitingSeen, decisionSeen, effectRequests, lineage>>

CancelRequested ==
  /\ MoveTo("CANCEL_REQUESTED")
  /\ UNCHANGED <<retries, waitingSeen, decisionSeen, effectRequests, lineage>>

HumanWaitRequired ==
  /\ MoveTo("WAITING_FOR_HUMAN")
  /\ waitingSeen' = TRUE
  /\ UNCHANGED <<retries, decisionSeen, effectRequests, lineage>>

(* HUMAN_APPROVED or POLICY_REFUSED with a human decision: one per job, by *)
(* a human, bound to the job's policy, runtime and source.                 *)
HumanDecision ==
  /\ waitingSeen
  /\ ~decisionSeen
  /\ \E target \in {"ADMITTED", "POLICY_REFUSED"} : MoveTo(target)
  /\ decisionSeen' = TRUE
  /\ UNCHANGED <<retries, waitingSeen, effectRequests, lineage>>

(* EFFECT_REQUESTED moves no state and is accepted in every state that is  *)
(* not terminal, while the job is being cancelled too.                     *)
EffectRequested(e) ==
  /\ workflowState \notin WorkflowTerminals
  /\ SideEffectClass # "READ_ONLY"
  /\ effectRequests' = effectRequests \union {e}
  /\ UNCHANGED <<workflowState, retries, waitingSeen, decisionSeen, lineage,
                 licensed, cancelRequested>>

(* COMPENSATION_REQUIRED names a reversible effect and its state, which    *)
(* has to be COMMITTED.                                                    *)
CompensationRequired(e, originalEffectState) ==
  /\ SideEffectClass = "REVERSIBLE_WRITE"
  /\ originalEffectState = "COMMITTED"
  /\ MoveTo("COMPENSATING")
  /\ lineage' = e
  /\ UNCHANGED <<retries, waitingSeen, decisionSeen, effectRequests>>

(* COMPENSATED and COMPENSATION_FAILED name the effect of the request.     *)
CompensationAnswered(e, target) ==
  /\ lineage # NoEffect
  /\ e = lineage
  /\ target \in {"COMPENSATED", "COMPENSATION_FAILED"}
  /\ MoveTo(target)
  /\ UNCHANGED <<retries, waitingSeen, decisionSeen, effectRequests, lineage>>

WorkflowInit ==
  /\ workflowState = "SUBMITTED"
  /\ retries = 0
  /\ waitingSeen = FALSE
  /\ decisionSeen = FALSE
  /\ effectRequests = {}
  /\ lineage = NoEffect
  /\ licensed = FALSE
  /\ cancelRequested = FALSE

(* The events that the effect plane has no part in.                        *)
WorkflowAlone ==
  \/ PlainEvent
  \/ RemoteDispatched
  \/ RetryRequested
  \/ CancelRequested
  \/ HumanWaitRequired
  \/ HumanDecision

WorkflowNext ==
  \/ WorkflowAlone
  \/ \E e \in Effects :
        \/ EffectRequested(e)
        \/ CompensationRequired(e, "COMMITTED")
        \/ \E target \in WorkflowStates : CompensationAnswered(e, target)

WorkflowSpec == WorkflowInit /\ [][WorkflowNext]_workflowVars

-----------------------------------------------------------------------------
(***************************************************************************)
(* Properties.                                                             *)
(***************************************************************************)

WorkflowTypeOK ==
  /\ workflowState \in WorkflowStates
  /\ retries \in 0..(MaxAttempts - 1)
  /\ waitingSeen \in BOOLEAN
  /\ decisionSeen \in BOOLEAN
  /\ effectRequests \subseteq Effects
  /\ lineage \in Effects \union {NoEffect}
  /\ licensed \in BOOLEAN
  /\ cancelRequested \in BOOLEAN

(* No remote dispatch is for free: since the one before it the job was     *)
(* admitted, resumed after a human wait, or charged a retry.               *)
DispatchIsLicensed ==
  [][workflowState # "REMOTE_DISPATCHED" /\ workflowState' = "REMOTE_DISPATCHED"
       => licensed]_workflowVars

(* A job whose cancellation was requested is never dispatched, resumed or  *)
(* completed again: it ends cancelled, compensated or in need of cleanup.  *)
CancelIsHonoured ==
  cancelRequested =>
    workflowState \in {"CANCEL_REQUESTED", "CANCELLING", "CANCELLED",
                       "COMPENSATING", "COMPENSATED", "COMPENSATION_FAILED",
                       "FAILED_CLEANUP"}
=============================================================================
