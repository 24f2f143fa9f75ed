---------------------------- MODULE EffectLedger ----------------------------
(* The reducer of the dual-agent effect ledger                             *)
(* (src/loop_wiki/dual-agent-effect-ledger/effect_reducer.py and           *)
(* effect_contract.py).  The reducer folds one hash-chained history per    *)
(* admission request; a step of this module is one event the reducer       *)
(* accepts, an event it refuses is no step.  A TASK_PROJECTION event       *)
(* changes nothing the reducer keeps and is left out, and so is the commit *)
(* count, which is one exactly in the state EFFECT_COMMITTED.              *)
EXTENDS FiniteSets, Sequences

CONSTANTS
  Base,        \* the admission requests that callers make
  Digests,     \* what a readback of the target may digest to
  AttemptIds,  \* the identities an attempt may be recorded under
  NoReadback   \* no readback is recorded yet

ASSUME NoReadbackAssumption == NoReadback \notin Digests

VARIABLES
  effectState,   \* the state of each request's effect
  attempts,      \* the attempts recorded for it
  readback       \* the digest of its latest readback

ledgerVars == <<effectState, attempts, readback>>

Unresolved == {"RESULT_UNKNOWN", "RECONCILIATION_REQUIRED"}

EffectTerminals ==
  {"EFFECT_COMMITTED", "READ_ONLY_NO_EFFECT", "DUPLICATE_REFUSED",
   "POLICY_REFUSED", "APPROVAL_REQUIRED", "PRECONDITION_STALE",
   "ATTEMPT_FAILED", "COMPENSATED", "COMPENSATION_FAILED"}

(* The targets TRANSITIONS gives each state that is not terminal.          *)
EffectTransitions ==
  [EFFECT_PROPOSED |-> {"INTENT_VALIDATED", "READ_ONLY_NO_EFFECT"},
   INTENT_VALIDATED |-> {"POLICY_AND_APPROVAL_CHECKED"},
   POLICY_AND_APPROVAL_CHECKED |->
     {"IDEMPOTENCY_RESERVED", "POLICY_REFUSED", "APPROVAL_REQUIRED"},
   IDEMPOTENCY_RESERVED |-> {"PRECONDITION_REVALIDATED", "DUPLICATE_REFUSED"},
   PRECONDITION_REVALIDATED |-> {"EXECUTION_AUTHORIZED", "PRECONDITION_STALE"},
   EXECUTION_AUTHORIZED |-> {"EFFECT_ATTEMPTED"},
   EFFECT_ATTEMPTED |-> {"EFFECT_OBSERVED", "RESULT_UNKNOWN", "ATTEMPT_FAILED"},
   EFFECT_OBSERVED |-> {"EFFECT_COMMITTED", "RECONCILIATION_REQUIRED"},
   RESULT_UNKNOWN |-> {"RECONCILIATION_REQUIRED"},
   RECONCILIATION_REQUIRED |-> {"EFFECT_OBSERVED", "COMPENSATION_REQUIRED"},
   COMPENSATION_REQUIRED |-> {"COMPENSATING"},
   COMPENSATING |-> {"COMPENSATED", "COMPENSATION_FAILED"}]

EffectStates == DOMAIN EffectTransitions \union EffectTerminals

Outcomes == {"RETRYABLE_FAILURE", "SUCCESS", "TIMEOUT", "CONNECTION_LOST",
             "UNKNOWN"}

(* What an event may name as its attempt result.                           *)
Results == Outcomes \union {"READBACK_VERIFIED"}

(***************************************************************************)
(* Identities.  An effect id or a key is a sequence of labels: what        *)
(* build_compensation_link suffixes with ":comp" gets one label more.      *)
(***************************************************************************)

Identity(r) == <<r.scope, r.effect, r.key>>

SharesEffectOrKey(p, c) == p.effect = c.effect \/ p.key = c.key

(* classify_duplicate refuses a candidate that shares the effect or the    *)
(* key of a prior one across tenants, or with another request digest.      *)
Collides(p, c) ==
  /\ SharesEffectOrKey(p, c)
  /\ p.scope # c.scope \/ p.digest # c.digest

Duplicates(p, c) == ~Collides(p, c) /\ Identity(p) = Identity(c)

(* A mistaken Reservable that only knows an exact repeat.                  *)
ReservableUnlessRepeated(reserved, c) ==
  \A p \in reserved : ~Duplicates(p, c)

(* reservation_batch: accepted when no prior one collides or is the same.  *)
Reservable(reserved, c) ==
  \A p \in reserved : ~Collides(p, c) /\ ~Duplicates(p, c)

(* The request build_compensation_link derives from a parent and its       *)
(* latest readback: its own identity, a digest of the parent's identity    *)
(* and readback, and a compensation that is left to humans.                *)
Compensation(p, d) ==
  [p EXCEPT !.effect = Append(p.effect, "comp"),
            !.key = Append(p.key, "comp"),
            !.digest = <<p.scope, p.effect, p.key, d>>,
            !.disposition = "HUMAN_OWNED"]

Requests == Base \union {Compensation(p, d) : p \in Base, d \in Digests}

-----------------------------------------------------------------------------
(***************************************************************************)
(* Events.                                                                 *)
(***************************************************************************)

Open(r) == effectState[r] \notin EffectTerminals

(* A mistaken RecordAttempt that takes the answer to a repeated packet for *)
(* a new attempt.                                                          *)
RecordAttemptAgain(r, a, o) ==
  /\ Open(r)
  /\ effectState[r] \notin Unresolved
  /\ attempts' = [attempts EXCEPT ![r] = @ \union {[id |-> a, outcome |-> o]}]
  /\ UNCHANGED <<effectState, readback>>

(* ATTEMPT_RECORDED: in any open state but the unresolved ones, and before *)
(* the execution is authorised as well as after it.                        *)
RecordAttempt(r, a, o) ==
  /\ Open(r)
  /\ effectState[r] \notin Unresolved
  /\ \A t \in attempts[r] : t.id # a
  /\ attempts' = [attempts EXCEPT ![r] = @ \union {[id |-> a, outcome |-> o]}]
  /\ UNCHANGED <<effectState, readback>>

(* READBACK_RECORDED: a verified readback of the request's own target at   *)
(* the version its precondition names; before an attempt as well.          *)
RecordReadback(r, d) ==
  /\ Open(r)
  /\ readback' = [readback EXCEPT ![r] = d]
  /\ UNCHANGED <<effectState, attempts>>

(* STATE_TRANSITION.  `result` is the attempt result the event itself      *)
(* names: it is compared with no recorded attempt.                         *)
Transition(r, target, result) ==
  /\ Open(r)
  /\ target = "EFFECT_ATTEMPTED" => attempts[r] # {}
  /\ target = "EFFECT_COMMITTED" =>
       /\ attempts[r] # {}
       /\ readback[r] # NoReadback
       /\ result \notin {"TIMEOUT", "CONNECTION_LOST", "UNKNOWN"}
  /\ target \in EffectTransitions[effectState[r]]
  /\ effectState' = [effectState EXCEPT ![r] = target]
  /\ UNCHANGED <<attempts, readback>>

LedgerInit ==
  /\ effectState = [r \in Requests |-> "EFFECT_PROPOSED"]
  /\ attempts = [r \in Requests |-> {}]
  /\ readback = [r \in Requests |-> NoReadback]

LedgerNext ==
  \E r \in Requests :
     \/ \E a \in AttemptIds, o \in Outcomes : RecordAttempt(r, a, o)
     \/ \E d \in Digests : RecordReadback(r, d)
     \/ \E target \in EffectStates, result \in Results :
           Transition(r, target, result)

LedgerSpec == LedgerInit /\ [][LedgerNext]_ledgerVars
=============================================================================
