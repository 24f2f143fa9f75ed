----------------------------- MODULE EffectPlane -----------------------------
(* The effect plane of the dual-agent lane: the ledger's reducer composed  *)
(* with the gate, the provider adapter and the linked compensations        *)
(* (src/loop_wiki/dual-agent-effect-ledger/effect_policy_gate.py,          *)
(* effect_provider_adapter.py, effect_compensation.py).                    *)
(*                                                                         *)
(* The functions of those files take each other's results: no packet       *)
(* without an authorisation, no readback receipt without an observation,   *)
(* no commit proposal without a receipt.  The reducer asks for none of     *)
(* them.  The canonical writer of this module appends an event only when   *)
(* it holds the results that propose it, the way the repository's tests    *)
(* drive the reducer; it may send a packet any number of times, and take   *)
(* whichever of the answers it has for each event.                         *)
EXTENDS EffectLedger

CONSTANTS
  Answers,       \* what the provider's answers are classified as
  PacketAttempt  \* the attempt identity a request is sent with

ASSUME AnswersAssumption ==
  Answers \subseteq {"SUCCESS", "FAILURE", "TIMEOUT", "CONNECTION_LOST"}
ASSUME PacketAttemptAssumption == PacketAttempt \in AttemptIds

VARIABLES
  reserved,    \* the requests whose reservation was accepted
  authorized,  \* the requests there is an execution authorisation for
  observed,    \* what the answers to each request's packets were classified as
  links        \* the compensations linked to a committed parent

evidenceVars == <<reserved, authorized, observed, links>>
planeVars == <<effectState, attempts, readback,
               reserved, authorized, observed, links>>

(* A failed answer has no outcome of that name in the ledger.              *)
LedgerOutcome(o) == IF o = "FAILURE" THEN "RETRYABLE_FAILURE" ELSE o

(* The effect_state_proposal of classify_attempt_result.                   *)
Proposal(o) ==
  CASE o = "SUCCESS" -> "EFFECT_OBSERVED"
    [] o = "FAILURE" -> "ATTEMPT_FAILED"
    [] OTHER -> "RESULT_UNKNOWN"

(* The requests a writer may hold: what callers made and what was linked.  *)
Presented == Base \union links

-----------------------------------------------------------------------------
(***************************************************************************)
(* Admission.                                                              *)
(***************************************************************************)

(* The writer walks a request through the states before its reservation,   *)
(* or gives up on it where the gate refuses.                               *)
Admit(r) ==
  /\ \E target \in {"INTENT_VALIDATED", "POLICY_AND_APPROVAL_CHECKED",
                    "IDEMPOTENCY_RESERVED", "READ_ONLY_NO_EFFECT",
                    "POLICY_REFUSED", "APPROVAL_REQUIRED",
                    "PRECONDITION_STALE"} :
        Transition(r, target, "SUCCESS")
  /\ UNCHANGED evidenceVars

Reserve(r) ==
  /\ Reservable(reserved, r)
  /\ Transition(r, "PRECONDITION_REVALIDATED", "SUCCESS")
  /\ reserved' = reserved \union {r}
  /\ UNCHANGED <<authorized, observed, links>>

RefuseDuplicate(r) ==
  /\ \E p \in reserved : Duplicates(p, r)
  /\ Transition(r, "DUPLICATE_REFUSED", "SUCCESS")
  /\ UNCHANGED evidenceVars

(* authorize_effect, for policy, approval and precondition observations    *)
(* that agree with the request; those that do not are Admit's refusals.  A *)
(* linked compensation brings its authorisation with it.                   *)
Authorize(r) ==
  /\ Transition(r, "EXECUTION_AUTHORIZED", "SUCCESS")
  /\ authorized' = authorized \union {r}
  /\ UNCHANGED <<reserved, observed, links>>

-----------------------------------------------------------------------------
(***************************************************************************)
(* The provider.                                                           *)
(***************************************************************************)

(* build_attempt_packet, the provider's answer and classify_attempt_result.*)
(* One authorisation is good for any number of packets: after a lost       *)
(* answer, or along the other route, a packet is sent again.               *)
Dispatch(r, o) ==
  /\ r \in authorized
  /\ observed' = [observed EXCEPT ![r] = @ \union {o}]
  /\ UNCHANGED <<ledgerVars, reserved, authorized, links>>

(* An attempt is recorded after an answer; all packets carry the attempt   *)
(* identity of the request, which the ledger takes once.                   *)
Record(r) ==
  /\ \E o \in observed[r] : RecordAttempt(r, PacketAttempt, LedgerOutcome(o))
  /\ UNCHANGED evidenceVars

EnterAttempted(r) ==
  /\ Transition(r, "EFFECT_ATTEMPTED", "SUCCESS")
  /\ UNCHANGED evidenceVars

FollowProposal(r) ==
  /\ effectState[r] = "EFFECT_ATTEMPTED"
  /\ \E o \in observed[r] : Transition(r, Proposal(o), "SUCCESS")
  /\ UNCHANGED evidenceVars

(* The answers a readback and a commit may follow.                         *)
Admissible(r) == observed[r] \ {"FAILURE"}

(* validate_target_readback, and the event the receipt is appended as.     *)
ReadTarget(r, d) ==
  /\ Admissible(r) # {}
  /\ RecordReadback(r, d)
  /\ UNCHANGED evidenceVars

(* An unknown result is reconciled, an observed effect may be put in doubt *)
(* again, and what cannot be reconciled ends as a compensation.            *)
Reconcile(r) ==
  /\ \/ Transition(r, "RECONCILIATION_REQUIRED", "SUCCESS")
     \/ /\ effectState[r] = "RECONCILIATION_REQUIRED"
        /\ Transition(r, "EFFECT_OBSERVED", "SUCCESS")
     \/ \E target \in {"COMPENSATION_REQUIRED", "COMPENSATING", "COMPENSATED",
                       "COMPENSATION_FAILED"} :
           Transition(r, target, "SUCCESS")
  /\ UNCHANGED evidenceVars

(* propose_commit, and the commit the canonical writer makes of it.        *)
Commit(r) ==
  /\ readback[r] # NoReadback
  /\ \E o \in Admissible(r) :
        Transition(r, "EFFECT_COMMITTED",
                   IF o = "SUCCESS" THEN o ELSE "READBACK_VERIFIED")
  /\ UNCHANGED evidenceVars

-----------------------------------------------------------------------------
(***************************************************************************)
(* Compensation.                                                           *)
(***************************************************************************)

(* A mistaken Link that takes an attempted and read parent for committed.  *)
LinkUncommitted(p) ==
  LET child == Compensation(p, readback[p])
  IN  /\ p.reversible
      /\ p.disposition = "DECLARED"
      /\ attempts[p] # {}
      /\ readback[p] # NoReadback
      /\ links' = links \union {child}
      /\ authorized' = authorized \union {child}
      /\ UNCHANGED <<ledgerVars, reserved, observed>>

(* build_compensation_link: authorises the child there and then, under     *)
(* policy, approval and precondition observations it makes up itself.      *)
Link(p) ==
  LET child == Compensation(p, readback[p])
  IN  /\ p.reversible
      /\ p.disposition = "DECLARED"
      /\ effectState[p] = "EFFECT_COMMITTED"
      /\ attempts[p] # {}
      /\ readback[p] # NoReadback
      /\ links' = links \union {child}
      /\ authorized' = authorized \union {child}
      /\ UNCHANGED <<ledgerVars, reserved, observed>>

PlaneInit ==
  /\ LedgerInit
  /\ reserved = {}
  /\ authorized = {}
  /\ observed = [r \in Requests |-> {}]
  /\ links = {}

PlaneStep(r) ==
  \/ Admit(r)
  \/ Reserve(r)
  \/ RefuseDuplicate(r)
  \/ Authorize(r)
  \/ \E o \in Answers : Dispatch(r, o)
  \/ Record(r)
  \/ EnterAttempted(r)
  \/ FollowProposal(r)
  \/ \E d \in Digests : ReadTarget(r, d)
  \/ Reconcile(r)
  \/ Commit(r)

PlaneNext ==
  \/ \E r \in Presented : PlaneStep(r)
  \/ \E p \in Base : Link(p)

PlaneSpec == PlaneInit /\ [][PlaneNext]_planeVars

-----------------------------------------------------------------------------
(***************************************************************************)
(* Properties.                                                             *)
(***************************************************************************)

PlaneTypeOK ==
  /\ effectState \in [Requests -> EffectStates]
  /\ attempts \in [Requests -> SUBSET [id : AttemptIds, outcome : Outcomes]]
  /\ readback \in [Requests -> Digests \union {NoReadback}]
  /\ reserved \subseteq Requests
  /\ authorized \subseteq Requests
  /\ observed \in [Requests -> SUBSET Answers]
  /\ links \subseteq Requests

(* What was reserved agrees: two reservations that share an effect or a    *)
(* key are of one tenant and one request digest, and no two requests hold  *)
(* the same identity (reservation_batch looks at all prior ones).          *)
ReservationsAgree ==
  \A p, c \in reserved : p # c => ~Collides(p, c) /\ ~Duplicates(p, c)

(* A committed effect earned it, however often its packet was sent: it was *)
(* reserved and authorised, the ledger has exactly one attempt of it,      *)
(* under the identity of its request and with the outcome of an answer     *)
(* there was, an answer did not fail, and a readback followed one.  The    *)
(* recorded outcome need not be of the answer that earned the commit.  The *)
(* reducer alone gives none of this but the readback and some attempt.     *)
CommitIsEarned ==
  \A r \in Requests : effectState[r] = "EFFECT_COMMITTED" =>
     /\ r \in reserved \cap authorized
     /\ \E o \in observed[r] :
           attempts[r] = {[id |-> PacketAttempt, outcome |-> LedgerOutcome(o)]}
     /\ Admissible(r) # {}
     /\ readback[r] # NoReadback

(* A linked compensation stands on a parent that is committed, reversible  *)
(* and declares one, was derived from the readback the parent still has,   *)
(* and is the parent's only one; nothing compensates a compensation.       *)
CompensationIsGrounded ==
  \A c \in links : \E p \in Base :
     /\ p.reversible /\ p.disposition = "DECLARED"
     /\ effectState[p] = "EFFECT_COMMITTED"
     /\ c = Compensation(p, readback[p])
=============================================================================
