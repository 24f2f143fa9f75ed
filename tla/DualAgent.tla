------------------------------ MODULE DualAgent ------------------------------
(* The two halves of the dual-agent lane together: a job's workflow, which *)
(* may only request effects and compensations, and the effect plane, which *)
(* alone commits them.  What crosses between them is the EFFECT_REQUESTED  *)
(* event, whose request an admission request carries.  Nothing crosses     *)
(* back: the state of the original effect that a COMPENSATION_REQUIRED     *)
(* event names, and the receipt that a COMPENSATED event names, are the    *)
(* caller's word, and the workflow compares them with no ledger.           *)
EXTENDS EffectPlane, OffloadWorkflow

ASSUME EffectsAssumption == Effects = Base

vars == <<planeVars, workflowVars>>

(* An admission request carries the workflow's request for its key, so     *)
(* until the workflow made one there is nothing to present.                *)
Requested(r) == r \in links \/ r \in effectRequests

RequestEffect ==
  /\ \E r \in Base : EffectRequested(r)
  /\ UNCHANGED planeVars

(* The effect a payload names need not be one the job requested, nor be in *)
(* the state the payload claims.                                           *)
RequestCompensation ==
  /\ \E r \in Base, claimed \in {"COMMITTED", "UNKNOWN_EFFECT"} :
        CompensationRequired(r, claimed)
  /\ UNCHANGED planeVars

(* Nor is an answer compared with a link or with what the child came to.   *)
AnswerCompensation ==
  /\ \E r \in Base, target \in {"COMPENSATED", "COMPENSATION_FAILED"} :
        CompensationAnswered(r, target)
  /\ UNCHANGED planeVars

WorkflowMoves == WorkflowAlone /\ UNCHANGED planeVars

PlaneMoves ==
  /\ \/ \E r \in Presented : Requested(r) /\ PlaneStep(r)
     \/ \E p \in Base : Link(p)
  /\ UNCHANGED workflowVars

Init == PlaneInit /\ WorkflowInit

Next ==
  \/ WorkflowMoves
  \/ RequestEffect
  \/ RequestCompensation
  \/ AnswerCompensation
  \/ PlaneMoves

Spec == Init /\ [][Next]_vars
=============================================================================
