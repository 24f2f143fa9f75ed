-------------------------- MODULE DualAgent_proofs --------------------------
(***************************************************************************)
(* What the dual-agent lane guarantees for any set of requests, readbacks  *)
(* and provider answers, and any retry budget.                             *)
(*                                                                         *)
(* First the effect plane: its reservations agree, its commits are earned  *)
(* however often a packet is sent, and its compensations are grounded.     *)
(* The invariant ties a request's state to the evidence the plane holds    *)
(* for it (Evidence): from the reservation on it is reserved, from the     *)
(* authorisation on authorised, one attempt at most is recorded and with   *)
(* the outcome of an answer there was, and a readback comes after one.     *)
(*                                                                         *)
(* Next the ledger by itself, whoever writes to it: no effect is beyond    *)
(* its execution without an attempt on record.                             *)
(*                                                                         *)
(* Then the composition with the workflow: it is a behaviour of both its   *)
(* halves, so what was proved of the plane holds of it; no dispatch is for *)
(* free, and a cancelled job stays cancelled.                              *)
(***************************************************************************)
EXTENDS DualAgent, TLAPS

AuthorizedStates ==
    {"EXECUTION_AUTHORIZED", "EFFECT_ATTEMPTED", "EFFECT_OBSERVED",
     "EFFECT_COMMITTED", "RESULT_UNKNOWN", "RECONCILIATION_REQUIRED"}

ReservedStates == AuthorizedStates \union {"PRECONDITION_REVALIDATED"}

\* The attempts that the answers to a request's packets account for.
Recordable(r) == {[id |-> PacketAttempt, outcome |-> LedgerOutcome(o)] : o \in observed[r]}

\* What the plane holds for a request in the state the ledger has it in.
Evidence(r) ==
    /\ effectState[r] \in ReservedStates => r \in reserved
    /\ effectState[r] \in AuthorizedStates => r \in authorized
    /\ attempts[r] \subseteq Recordable(r)
    /\ \A s, t \in attempts[r] : s = t
    /\ readback[r] # NoReadback => Admissible(r) # {}
    /\ effectState[r] = "EFFECT_COMMITTED" =>
         attempts[r] # {} /\ readback[r] # NoReadback

IInv ==
    /\ PlaneTypeOK
    /\ ReservationsAgree
    /\ CompensationIsGrounded
    /\ \A r \in Requests : Evidence(r)

-----------------------------------------------------------------------------
\* The state each target is reached from.
LEMMA Sources ==
    ASSUME NEW s \in EffectStates \ EffectTerminals
    PROVE  /\ "PRECONDITION_REVALIDATED" \in EffectTransitions[s]
                => s = "IDEMPOTENCY_RESERVED"
           /\ "EXECUTION_AUTHORIZED" \in EffectTransitions[s]
                => s = "PRECONDITION_REVALIDATED"
           /\ "EFFECT_ATTEMPTED" \in EffectTransitions[s]
                => s = "EXECUTION_AUTHORIZED"
           /\ "RECONCILIATION_REQUIRED" \in EffectTransitions[s]
                => s \in {"EFFECT_OBSERVED", "RESULT_UNKNOWN"}
           /\ "EFFECT_COMMITTED" \in EffectTransitions[s]
                => s = "EFFECT_OBSERVED"
           /\ EffectTransitions[s] \subseteq EffectStates
  BY DEF EffectStates, EffectTerminals, EffectTransitions

\* The derived requests are requests too.
LEMMA RequestFacts ==
    /\ Base \subseteq Requests
    /\ \A p \in Base, d \in Digests : Compensation(p, d) \in Requests
  BY DEF Requests

\* A collision or a repetition is one whichever request came first.
LEMMA AgreementIsSymmetric ==
    ASSUME NEW p, NEW c
    PROVE  /\ Collides(p, c) <=> Collides(c, p)
           /\ Duplicates(p, c) <=> Duplicates(c, p)
<1>1. Collides(p, c) <=> Collides(c, p)
  BY DEF Collides, SharesEffectOrKey
<1> QED
  BY <1>1 DEF Duplicates

-----------------------------------------------------------------------------
\* Every step of the plane is one of the reducer's, or none.
LEMMA StepIsLedgerStep ==
    ASSUME PlaneTypeOK, [PlaneNext]_planeVars
    PROVE  [LedgerNext]_ledgerVars
<1>1. ASSUME NEW r \in Requests, NEW target \in EffectStates, NEW result \in Results,
             Transition(r, target, result)
      PROVE  LedgerNext
  BY <1>1 DEF LedgerNext
<1>2. "SUCCESS" \in Results /\ "READBACK_VERIFIED" \in Results
  BY DEF Results, Outcomes
<1>3. ASSUME NEW r \in Presented, PlaneStep(r)
      PROVE  [LedgerNext]_ledgerVars
  <2>1. r \in Requests
    BY RequestFacts DEF Presented, PlaneTypeOK
  <2>2. CASE Admit(r)
    BY <1>1, <1>2, <2>1, <2>2 DEF Admit, EffectStates, EffectTransitions, EffectTerminals
  <2>3. CASE Reserve(r) \/ RefuseDuplicate(r) \/ Authorize(r) \/ EnterAttempted(r)
    BY <1>1, <1>2, <2>1, <2>3 DEF Reserve, RefuseDuplicate, Authorize, EnterAttempted,
       EffectStates, EffectTransitions, EffectTerminals
  <2>4. CASE \E o \in Answers : Dispatch(r, o)
    BY <2>4 DEF Dispatch
  <2>5. CASE Record(r)
    <3>1. PICK o \in observed[r] : RecordAttempt(r, PacketAttempt, LedgerOutcome(o))
      BY <2>5 DEF Record
    <3>2. LedgerOutcome(o) \in Outcomes
      BY <2>1, AnswersAssumption DEF LedgerOutcome, Outcomes, PlaneTypeOK
    <3> QED
      BY <2>1, <3>1, <3>2, PacketAttemptAssumption DEF LedgerNext
  <2>6. CASE FollowProposal(r)
    <3>1. PICK o \in observed[r] : Transition(r, Proposal(o), "SUCCESS")
      BY <2>6 DEF FollowProposal
    <3>2. Proposal(o) \in EffectStates
      BY DEF Proposal, EffectStates, EffectTransitions, EffectTerminals
    <3> QED
      BY <1>1, <1>2, <2>1, <3>1, <3>2
  <2>7. CASE \E d \in Digests : ReadTarget(r, d)
    BY <2>1, <2>7 DEF ReadTarget, LedgerNext
  <2>8. CASE Reconcile(r)
    BY <1>1, <1>2, <2>1, <2>8 DEF Reconcile, EffectStates, EffectTransitions, EffectTerminals
  <2>9. CASE Commit(r)
    <3>1. PICK o \in Admissible(r) :
             Transition(r, "EFFECT_COMMITTED",
                        IF o = "SUCCESS" THEN o ELSE "READBACK_VERIFIED")
      BY <2>9 DEF Commit
    <3>2. "EFFECT_COMMITTED" \in EffectStates
      BY DEF EffectStates, EffectTerminals
    <3> QED
      BY <1>1, <1>2, <2>1, <3>1, <3>2
  <2> QED
    BY <1>3, <2>2, <2>3, <2>4, <2>5, <2>6, <2>7, <2>8, <2>9 DEF PlaneStep
<1>4. ASSUME NEW p \in Base, Link(p)
      PROVE  [LedgerNext]_ledgerVars
  BY <1>4 DEF Link
<1>5. CASE UNCHANGED planeVars
  BY <1>5 DEF planeVars, ledgerVars
<1> QED
  BY <1>3, <1>4, <1>5 DEF PlaneNext

-----------------------------------------------------------------------------
\* A committed effect keeps its state and its readback.
LEMMA CommittedStays ==
    ASSUME PlaneTypeOK, [PlaneNext]_planeVars,
           NEW r \in Requests, effectState[r] = "EFFECT_COMMITTED"
    PROVE  effectState'[r] = "EFFECT_COMMITTED" /\ readback'[r] = readback[r]
<1>1. [LedgerNext]_ledgerVars
  BY StepIsLedgerStep
<1>2. ~ Open(r)
  BY DEF Open, EffectTerminals
<1>3. ASSUME NEW q \in Requests,
             \/ \E a \in AttemptIds, o \in Outcomes : RecordAttempt(q, a, o)
             \/ \E d \in Digests : RecordReadback(q, d)
             \/ \E t \in EffectStates, o \in Results : Transition(q, t, o)
      PROVE  effectState'[r] = effectState[r] /\ readback'[r] = readback[r]
  <2>1. q # r
    BY <1>2, <1>3 DEF RecordAttempt, RecordReadback, Transition
  <2> QED
    BY <1>3, <2>1 DEF RecordAttempt, RecordReadback, Transition, PlaneTypeOK
<1> QED
  BY <1>1, <1>3 DEF LedgerNext, ledgerVars

\* A step grounds the compensations it links, and keeps the others grounded.
LEMMA GroundedStep ==
    ASSUME PlaneTypeOK, CompensationIsGrounded, [PlaneNext]_planeVars
    PROVE  CompensationIsGrounded'
<1> SUFFICES ASSUME NEW c \in links'
             PROVE  \E p \in Base :
                       /\ p.reversible /\ p.disposition = "DECLARED"
                       /\ effectState'[p] = "EFFECT_COMMITTED"
                       /\ c = Compensation(p, readback'[p])
  BY DEF CompensationIsGrounded
<1>1. CASE c \in links
  <2>1. PICK p \in Base : /\ p.reversible /\ p.disposition = "DECLARED"
                          /\ effectState[p] = "EFFECT_COMMITTED"
                          /\ c = Compensation(p, readback[p])
    BY <1>1 DEF CompensationIsGrounded
  <2>2. effectState'[p] = "EFFECT_COMMITTED" /\ readback'[p] = readback[p]
    BY <2>1, CommittedStays, RequestFacts
  <2> QED
    BY <2>1, <2>2
<1>2. CASE c \notin links
  <2>1. PICK p \in Base : Link(p) /\ c = Compensation(p, readback[p])
    BY <1>2 DEF PlaneNext, planeVars, PlaneStep, Link, Admit, Reserve, RefuseDuplicate,
       Authorize, Dispatch, Record, EnterAttempted, FollowProposal, ReadTarget,
       Reconcile, Commit, evidenceVars
  <2> QED
    BY <2>1 DEF Link, ledgerVars
<1> QED
  BY <1>1, <1>2

\* A reservation is only made beside those it agrees with.
LEMMA AgreeStep ==
    ASSUME ReservationsAgree, [PlaneNext]_planeVars
    PROVE  ReservationsAgree'
<1>1. CASE reserved' = reserved
  BY <1>1 DEF ReservationsAgree
<1>2. ASSUME NEW r \in Presented, Reserve(r)
      PROVE  ReservationsAgree'
  <2>1. \A p \in reserved : ~ Collides(p, r) /\ ~ Duplicates(p, r)
    BY <1>2 DEF Reserve, Reservable
  <2>2. \A p \in reserved : ~ Collides(r, p) /\ ~ Duplicates(r, p)
    BY <2>1, AgreementIsSymmetric
  <2>3. reserved' = reserved \union {r}
    BY <1>2 DEF Reserve
  <2> QED
    BY <2>1, <2>2, <2>3 DEF ReservationsAgree
<1> QED
  BY <1>1, <1>2 DEF PlaneNext, planeVars, PlaneStep, Link, Admit, RefuseDuplicate,
     Authorize, Dispatch, Record, EnterAttempted, FollowProposal, ReadTarget,
     Reconcile, Commit, evidenceVars

\* A step of the plane keeps the types.
LEMMA TypeStep ==
    ASSUME PlaneTypeOK, [PlaneNext]_planeVars
    PROVE  PlaneTypeOK'
<1>1. [LedgerNext]_ledgerVars
  BY StepIsLedgerStep
<1>2. /\ effectState' \in [Requests -> EffectStates]
      /\ attempts' \in [Requests -> SUBSET [id : AttemptIds, outcome : Outcomes]]
      /\ readback' \in [Requests -> Digests \union {NoReadback}]
  BY <1>1 DEF LedgerNext, ledgerVars, RecordAttempt, RecordReadback, Transition, PlaneTypeOK
<1>3. Presented \subseteq Requests
  BY RequestFacts DEF Presented, PlaneTypeOK
<1>4. ASSUME NEW r \in Presented, PlaneStep(r)
      PROVE  PlaneTypeOK'
  BY <1>2, <1>3, <1>4 DEF PlaneTypeOK, PlaneStep, Admit, Reserve, RefuseDuplicate,
     Authorize, Dispatch, Record, EnterAttempted, FollowProposal, ReadTarget,
     Reconcile, Commit, evidenceVars
<1>5. ASSUME NEW p \in Base, Link(p)
      PROVE  PlaneTypeOK'
  <2>1. readback[p] \in Digests
    BY <1>5, RequestFacts DEF Link, PlaneTypeOK
  <2> QED
    BY <1>2, <1>5, <2>1, RequestFacts DEF Link, PlaneTypeOK, ledgerVars
<1> QED
  BY <1>2, <1>4, <1>5 DEF PlaneNext, planeVars, PlaneTypeOK

-----------------------------------------------------------------------------
\* The evidence for a request.

\* A step that is about another request leaves its evidence alone.
LEMMA EvidenceFrame ==
    ASSUME NEW r \in Requests, Evidence(r),
           effectState'[r] = effectState[r], attempts'[r] = attempts[r],
           readback'[r] = readback[r], observed'[r] = observed[r],
           reserved \subseteq reserved', authorized \subseteq authorized'
    PROVE  Evidence(r)'
  BY DEF Evidence, Recordable, Admissible, LedgerOutcome

\* A transition keeps the evidence when its target asks for none that the
\* source did not, and when it does not commit.
LEMMA EvidenceTransition ==
    ASSUME NEW r \in Requests, Evidence(r), PlaneTypeOK,
           NEW target \in EffectStates, NEW result, Transition(r, target, result),
           observed' = observed, reserved \subseteq reserved', authorized \subseteq authorized',
           target \in ReservedStates => r \in reserved',
           target \in AuthorizedStates => r \in authorized'
    PROVE  Evidence(r)'
<1>1. /\ effectState'[r] = target
      /\ attempts' = attempts /\ readback' = readback
  BY DEF Transition, PlaneTypeOK
<1>2. target = "EFFECT_COMMITTED" => attempts[r] # {} /\ readback[r] # NoReadback
  BY DEF Transition
<1> QED
  BY <1>1, <1>2 DEF Evidence, Recordable, Admissible, LedgerOutcome

\* A step of a request keeps the evidence of that request.
LEMMA EvidenceStep ==
    ASSUME PlaneTypeOK, NEW r \in Presented, r \in Requests, Evidence(r), PlaneStep(r)
    PROVE  Evidence(r)'
<1> USE DEF ReservedStates, AuthorizedStates
<1>0. /\ "SUCCESS" \in Results
      /\ Open(r) => effectState[r] \in EffectStates \ EffectTerminals
  BY DEF Results, Outcomes, Open, PlaneTypeOK
<1>1. CASE Admit(r)
  BY <1>1, EvidenceTransition DEF Admit, evidenceVars, EffectStates, EffectTransitions,
     EffectTerminals
<1>2. CASE Reserve(r)
  <2>1. "PRECONDITION_REVALIDATED" \in EffectStates
    BY DEF EffectStates, EffectTransitions
  <2> QED
    BY <1>2, <2>1, EvidenceTransition DEF Reserve
<1>3. CASE RefuseDuplicate(r)
  <2>1. "DUPLICATE_REFUSED" \in EffectStates
    BY DEF EffectStates, EffectTerminals
  <2> QED
    BY <1>3, <2>1, EvidenceTransition DEF RefuseDuplicate, evidenceVars
<1>4. CASE Authorize(r)
  <2>1. effectState[r] = "PRECONDITION_REVALIDATED"
    BY <1>0, <1>4, Sources DEF Authorize, Transition
  <2>2. r \in reserved
    BY <2>1 DEF Evidence
  <2>3. "EXECUTION_AUTHORIZED" \in EffectStates
    BY DEF EffectStates, EffectTransitions
  <2> QED
    BY <1>4, <2>2, <2>3, EvidenceTransition DEF Authorize
<1>5. CASE \E o \in Answers : Dispatch(r, o)
  <2>1. /\ observed[r] \subseteq observed'[r]
        /\ reserved' = reserved /\ UNCHANGED ledgerVars
        /\ authorized' = authorized
    BY <1>5 DEF Dispatch, PlaneTypeOK
  <2>2. Recordable(r) \subseteq Recordable(r)' /\ Admissible(r) \subseteq Admissible(r)'
    BY <2>1 DEF Recordable, Admissible, LedgerOutcome
  <2> QED
    BY <2>1, <2>2 DEF Evidence, ledgerVars
<1>6. CASE Record(r)
  <2>1. PICK o \in observed[r] : RecordAttempt(r, PacketAttempt, LedgerOutcome(o))
    BY <1>6 DEF Record
  <2> DEFINE made == [id |-> PacketAttempt, outcome |-> LedgerOutcome(o)]
  <2>2. made \in Recordable(r)
    BY DEF Recordable
  \* The ledger takes the packet's identity once.
  <2>3. attempts[r] = {}
    <3>1. \A t \in attempts[r] : t.id # PacketAttempt
      BY <2>1 DEF RecordAttempt
    <3>2. \A t \in attempts[r] : t.id = PacketAttempt
      BY DEF Evidence, Recordable
    <3> QED
      BY <3>1, <3>2
  <2>4. /\ attempts'[r] = {made}
        /\ effectState' = effectState /\ readback' = readback
    BY <2>1, <2>3 DEF RecordAttempt, PlaneTypeOK
  <2>5. observed' = observed /\ reserved' = reserved /\ authorized' = authorized
    BY <1>6 DEF Record, evidenceVars
  <2>6. Recordable(r)' = Recordable(r) /\ Admissible(r)' = Admissible(r)
    BY <2>5 DEF Recordable, Admissible, LedgerOutcome
  <2> HIDE DEF made
  <2> QED
    BY <2>2, <2>4, <2>5, <2>6 DEF Evidence
<1>7. CASE EnterAttempted(r)
  <2>1. effectState[r] = "EXECUTION_AUTHORIZED"
    BY <1>0, <1>7, Sources DEF EnterAttempted, Transition
  <2>2. r \in reserved /\ r \in authorized
    BY <2>1 DEF Evidence
  <2>3. "EFFECT_ATTEMPTED" \in EffectStates
    BY DEF EffectStates, EffectTransitions
  <2> QED
    BY <1>7, <2>2, <2>3, EvidenceTransition DEF EnterAttempted, evidenceVars
<1>8. CASE FollowProposal(r)
  <2>1. r \in reserved /\ r \in authorized
    BY <1>8 DEF FollowProposal, Evidence
  <2>2. PICK o \in observed[r] : Transition(r, Proposal(o), "SUCCESS")
    BY <1>8 DEF FollowProposal
  <2>3. Proposal(o) \in EffectStates
    BY DEF Proposal, EffectStates, EffectTransitions, EffectTerminals
  <2> QED
    BY <1>8, <2>1, <2>2, <2>3, EvidenceTransition DEF FollowProposal, evidenceVars
<1>9. CASE \E d \in Digests : ReadTarget(r, d)
  <2>1. PICK d \in Digests : ReadTarget(r, d)
    BY <1>9
  <2>2. /\ readback'[r] = d
        /\ effectState' = effectState /\ attempts' = attempts
        /\ observed' = observed /\ reserved' = reserved /\ authorized' = authorized
    BY <2>1 DEF ReadTarget, RecordReadback, evidenceVars, PlaneTypeOK
  <2>3. Admissible(r) # {} /\ d # NoReadback
    BY <2>1, NoReadbackAssumption DEF ReadTarget
  <2>4. Recordable(r)' = Recordable(r) /\ Admissible(r)' = Admissible(r)
    BY <2>2 DEF Recordable, Admissible, LedgerOutcome
  <2> QED
    BY <2>2, <2>3, <2>4 DEF Evidence
<1>10. CASE Reconcile(r)
  <2>1. CASE Transition(r, "RECONCILIATION_REQUIRED", "SUCCESS")
    <3>1. r \in reserved /\ r \in authorized
      BY <1>0, <2>1, Sources DEF Transition, Evidence
    <3>2. "RECONCILIATION_REQUIRED" \in EffectStates
      BY DEF EffectStates, EffectTransitions
    <3> QED
      BY <1>10, <2>1, <3>1, <3>2, EvidenceTransition DEF Reconcile, evidenceVars
  <2>2. CASE effectState[r] = "RECONCILIATION_REQUIRED"
             /\ Transition(r, "EFFECT_OBSERVED", "SUCCESS")
    <3>1. r \in reserved /\ r \in authorized
      BY <2>2 DEF Evidence
    <3>2. "EFFECT_OBSERVED" \in EffectStates
      BY DEF EffectStates, EffectTransitions
    <3> QED
      BY <1>10, <2>2, <3>1, <3>2, EvidenceTransition DEF Reconcile, evidenceVars
  <2>3. ASSUME NEW target \in {"COMPENSATION_REQUIRED", "COMPENSATING", "COMPENSATED",
                                "COMPENSATION_FAILED"},
               Transition(r, target, "SUCCESS")
        PROVE  Evidence(r)'
    <3>1. target \in EffectStates
      BY DEF EffectStates, EffectTransitions, EffectTerminals
    <3> QED
      BY <1>10, <2>3, <3>1, EvidenceTransition DEF Reconcile, evidenceVars
  <2> QED
    BY <1>10, <2>1, <2>2, <2>3 DEF Reconcile
<1>11. CASE Commit(r)
  <2>1. PICK result : Transition(r, "EFFECT_COMMITTED", result)
    BY <1>11 DEF Commit
  <2>2. effectState[r] = "EFFECT_OBSERVED"
    BY <1>0, <2>1, Sources DEF Transition
  <2>3. r \in reserved /\ r \in authorized
    BY <2>2 DEF Evidence
  <2>4. "EFFECT_COMMITTED" \in EffectStates
    BY DEF EffectStates, EffectTerminals
  <2> QED
    BY <1>11, <2>1, <2>3, <2>4, EvidenceTransition DEF Commit, evidenceVars
<1> QED
  BY <1>1, <1>2, <1>3, <1>4, <1>5, <1>6, <1>7, <1>8, <1>9, <1>10, <1>11 DEF PlaneStep

-----------------------------------------------------------------------------
(***************************************************************************)
(* The theorems.                                                           *)
(***************************************************************************)

\* Before any request is presented the invariant holds.
LEMMA InitEstablishesIInv ==
    ASSUME PlaneInit
    PROVE  IInv
<1>1. PlaneTypeOK
  BY DEF PlaneInit, LedgerInit, PlaneTypeOK, EffectStates, EffectTransitions
<1>2. ReservationsAgree /\ CompensationIsGrounded
  BY DEF PlaneInit, ReservationsAgree, CompensationIsGrounded
<1>3. \A r \in Requests : Evidence(r)
  BY DEF PlaneInit, LedgerInit, Evidence, ReservedStates, AuthorizedStates
<1> QED
  BY <1>1, <1>2, <1>3 DEF IInv

\* Every step of the plane keeps the invariant.
LEMMA StepPreservesIInv ==
    ASSUME IInv, [PlaneNext]_planeVars
    PROVE  IInv'
<1> USE DEF IInv
<1>1. PlaneTypeOK' /\ ReservationsAgree' /\ CompensationIsGrounded'
  BY TypeStep, AgreeStep, GroundedStep
<1>2. ASSUME NEW r \in Requests
      PROVE  Evidence(r)'
  <2>1. CASE UNCHANGED planeVars
    BY <2>1, EvidenceFrame DEF planeVars
  <2>2. ASSUME NEW p \in Base, Link(p)
        PROVE  Evidence(r)'
    BY <2>2, EvidenceFrame DEF Link, ledgerVars
  <2>3. ASSUME NEW q \in Presented, PlaneStep(q)
        PROVE  Evidence(r)'
    <3>1. CASE q = r
      BY <2>3, <3>1, EvidenceStep
    <3>2. CASE q # r
      <4>1. q \in Requests
        BY RequestFacts DEF Presented, PlaneTypeOK
      <4>2. /\ effectState'[r] = effectState[r] /\ attempts'[r] = attempts[r]
            /\ readback'[r] = readback[r] /\ observed'[r] = observed[r]
            /\ reserved \subseteq reserved' /\ authorized \subseteq authorized'
        BY <2>3, <3>2, <4>1 DEF PlaneTypeOK, PlaneStep, Admit, Reserve, RefuseDuplicate,
           Authorize, Dispatch, Record, EnterAttempted, FollowProposal, ReadTarget,
           Reconcile, Commit, evidenceVars, ledgerVars, Transition, RecordAttempt,
           RecordReadback
      <4> QED
        BY <4>2, EvidenceFrame
    <3> QED
      BY <3>1, <3>2
  <2> QED
    BY <2>1, <2>2, <2>3 DEF PlaneNext
<1> QED
  BY <1>1, <1>2

\* What the evidence of a committed request comes to.
LEMMA EarnedOfEvidence ==
    ASSUME IInv
    PROVE  CommitIsEarned
<1> SUFFICES ASSUME NEW r \in Requests, effectState[r] = "EFFECT_COMMITTED"
             PROVE  /\ r \in reserved \cap authorized
                    /\ \E o \in observed[r] :
                          attempts[r] = {[id |-> PacketAttempt, outcome |-> LedgerOutcome(o)]}
                    /\ Admissible(r) # {}
                    /\ readback[r] # NoReadback
  BY DEF CommitIsEarned
<1>1. Evidence(r)
  BY DEF IInv
<1>2. r \in reserved /\ r \in authorized /\ readback[r] # NoReadback
  BY <1>1 DEF Evidence, ReservedStates, AuthorizedStates
<1>3. PICK t \in attempts[r] : attempts[r] = {t}
  BY <1>1 DEF Evidence
<1>4. PICK o \in observed[r] : t = [id |-> PacketAttempt, outcome |-> LedgerOutcome(o)]
  BY <1>1 DEF Evidence, Recordable
<1> QED
  BY <1>1, <1>2, <1>3, <1>4 DEF Evidence

\* The invariant of the plane holds throughout.
LEMMA PlaneInvariant == PlaneSpec => []IInv
<1>1. PlaneInit => IInv
  BY InitEstablishesIInv
<1>2. IInv /\ [PlaneNext]_planeVars => IInv'
  BY StepPreservesIInv
<1> QED
  BY <1>1, <1>2, PTL DEF PlaneSpec

\* The plane's state has its types.
THEOREM PlaneTypeCorrect == PlaneSpec => []PlaneTypeOK
<1>1. IInv => PlaneTypeOK
  BY DEF IInv
<1> QED
  BY <1>1, PlaneInvariant, PTL

\* Reservations that were accepted agree (reservation_batch).
THEOREM ReservationsAlwaysAgree == PlaneSpec => []ReservationsAgree
<1>1. IInv => ReservationsAgree
  BY DEF IInv
<1> QED
  BY <1>1, PlaneInvariant, PTL

\* A committed effect was reserved and authorised, has one attempt with the
\* outcome of an answer there was, and was read back after an answer that did
\* not fail (propose_commit and the reducer's checks of a commit together).
THEOREM CommitsAreEarned == PlaneSpec => []CommitIsEarned
<1>1. IInv => CommitIsEarned
  BY EarnedOfEvidence
<1> QED
  BY <1>1, PlaneInvariant, PTL

\* A linked compensation stands on its committed parent as it was read back
\* (build_compensation_link over terminal histories).
THEOREM CompensationsAreGrounded == PlaneSpec => []CompensationIsGrounded
<1>1. IInv => CompensationIsGrounded
  BY DEF IInv
<1> QED
  BY <1>1, PlaneInvariant, PTL

-----------------------------------------------------------------------------
(***************************************************************************)
(* The ledger by itself: what its reducer promises whoever writes to it.   *)
(***************************************************************************)

\* The states an effect has only after it was attempted.
AttemptedStates ==
    {"EFFECT_ATTEMPTED", "EFFECT_OBSERVED", "EFFECT_COMMITTED", "ATTEMPT_FAILED",
     "RESULT_UNKNOWN", "RECONCILIATION_REQUIRED", "COMPENSATION_REQUIRED",
     "COMPENSATING", "COMPENSATED", "COMPENSATION_FAILED"}

\* What is attempted has an attempt on record, and what is committed a readback.
AttemptsAreRecorded ==
    \A r \in Requests :
        /\ effectState[r] \in AttemptedStates => attempts[r] # {}
        /\ effectState[r] = "EFFECT_COMMITTED" => readback[r] # NoReadback

LedgerTypeOK ==
    /\ effectState \in [Requests -> EffectStates]
    /\ attempts \in [Requests -> SUBSET [id : AttemptIds, outcome : Outcomes]]
    /\ readback \in [Requests -> Digests \union {NoReadback}]

\* The table leads to the attempted states by way of EFFECT_ATTEMPTED only.
LEMMA AttemptedSources ==
    ASSUME NEW s \in EffectStates \ EffectTerminals, NEW target \in EffectTransitions[s]
    PROVE  /\ target \in EffectStates
           /\ target \in AttemptedStates => s \in AttemptedStates \/ target = "EFFECT_ATTEMPTED"
BY DEF EffectStates, EffectTerminals, EffectTransitions, AttemptedStates

\* Every event that the reducer accepts keeps the record.
LEMMA LedgerKeepsRecord ==
    ASSUME LedgerTypeOK, AttemptsAreRecorded, [LedgerNext]_ledgerVars
    PROVE  LedgerTypeOK' /\ AttemptsAreRecorded'
<1>1. ASSUME NEW r \in Requests, NEW a \in AttemptIds, NEW o \in Outcomes,
             RecordAttempt(r, a, o)
      PROVE  LedgerTypeOK' /\ AttemptsAreRecorded'
  <2>1. [id |-> a, outcome |-> o] \in [id : AttemptIds, outcome : Outcomes]
    OBVIOUS
  <2>2. LedgerTypeOK'
    BY <1>1, <2>1 DEF RecordAttempt, LedgerTypeOK
  <2>3. \A q \in Requests : attempts[q] # {} => attempts'[q] # {}
    BY <1>1 DEF RecordAttempt, LedgerTypeOK
  <2> QED
    BY <1>1, <2>2, <2>3 DEF RecordAttempt, AttemptsAreRecorded
<1>2. ASSUME NEW r \in Requests, NEW d \in Digests, RecordReadback(r, d)
      PROVE  LedgerTypeOK' /\ AttemptsAreRecorded'
  BY <1>2, NoReadbackAssumption DEF RecordReadback, LedgerTypeOK, AttemptsAreRecorded
<1>3. ASSUME NEW r \in Requests, NEW target \in EffectStates, NEW result \in Results,
             Transition(r, target, result)
      PROVE  LedgerTypeOK' /\ AttemptsAreRecorded'
  <2>1. /\ effectState[r] \in EffectStates \ EffectTerminals
        /\ target \in EffectTransitions[effectState[r]]
        /\ effectState' = [effectState EXCEPT ![r] = target]
        /\ UNCHANGED << attempts, readback >>
        /\ target \in {"EFFECT_ATTEMPTED", "EFFECT_COMMITTED"} => attempts[r] # {}
        /\ target = "EFFECT_COMMITTED" => readback[r] # NoReadback
    BY <1>3 DEF Transition, Open, LedgerTypeOK
  <2>2. target \in AttemptedStates => attempts[r] # {}
    BY <2>1, AttemptedSources DEF AttemptsAreRecorded
  <2> QED
    BY <2>1, <2>2 DEF LedgerTypeOK, AttemptsAreRecorded
<1>4. CASE UNCHANGED ledgerVars
  BY <1>4 DEF ledgerVars, LedgerTypeOK, AttemptsAreRecorded
<1> QED
  BY <1>1, <1>2, <1>3, <1>4 DEF LedgerNext

\* An empty history records what it has to.
LEMMA LedgerStartsRecorded == LedgerInit => LedgerTypeOK /\ AttemptsAreRecorded
<1> SUFFICES ASSUME LedgerInit PROVE LedgerTypeOK /\ AttemptsAreRecorded
  OBVIOUS
<1>1. "EFFECT_PROPOSED" \in EffectStates \ AttemptedStates
  BY DEF EffectStates, EffectTransitions, AttemptedStates
<1>2. \A r \in Requests : effectState[r] \notin AttemptedStates
  BY <1>1 DEF LedgerInit
<1>3. "EFFECT_COMMITTED" \in AttemptedStates
  BY DEF AttemptedStates
<1> QED
  BY <1>1, <1>2, <1>3 DEF LedgerInit, LedgerTypeOK, AttemptsAreRecorded

\* The types and the record hold throughout.
LEMMA LedgerInvariance == LedgerSpec => [](LedgerTypeOK /\ AttemptsAreRecorded)
BY LedgerStartsRecorded, LedgerKeepsRecord, PTL DEF LedgerSpec

\* Whoever writes to the ledger and in whatever order: no effect gets beyond its
\* execution without an attempt on record, nor is committed without a readback.
THEOREM LedgerRecordsAttempts == LedgerSpec => []AttemptsAreRecorded
BY LedgerInvariance, PTL

-----------------------------------------------------------------------------
(***************************************************************************)
(* The composition.                                                        *)
(***************************************************************************)

\* From where a job may be dispatched without another admission or retry.
LicensedStates == {"ADMITTED", "DELIVERY_PENDING", "RETRY_SCHEDULED"}

Compensates == {"COMPENSATING", "COMPENSATED", "COMPENSATION_FAILED"}

CancelStates ==
    {"CANCEL_REQUESTED", "CANCELLING", "CANCELLED", "FAILED_CLEANUP"} \union Compensates

WInv ==
    /\ WorkflowTypeOK
    /\ CancelIsHonoured
    /\ workflowState \in LicensedStates => licensed

-----------------------------------------------------------------------------
\* What the transition law says of the states the invariant names.
LEMMA WorkflowSources ==
    ASSUME NEW s \in WorkflowStates \ WorkflowTerminals
    PROVE  /\ WorkflowTransitions[s] \subseteq WorkflowStates
           /\ "REMOTE_DISPATCHED" \in WorkflowTransitions[s] => s = "DELIVERY_PENDING"
           /\ "DELIVERY_PENDING" \in WorkflowTransitions[s]
                => s \in {"ADMITTED", "RETRY_SCHEDULED"}
           /\ s \in CancelStates => WorkflowTransitions[s] \subseteq CancelStates
  BY DEF WorkflowStates, WorkflowTerminals, WorkflowTransitions, CancelStates, Compensates

\* A move along the transition table keeps the invariant, and dispatches only
\* what is licensed.
LEMMA MoveKeepsWInv ==
    ASSUME WInv, NEW target, MoveTo(target), retries' \in 0..(MaxAttempts - 1),
           waitingSeen' \in BOOLEAN, decisionSeen' \in BOOLEAN,
           effectRequests' \subseteq Effects, lineage' \in Effects \union {NoEffect}
    PROVE  /\ WInv'
           /\ workflowState' = "REMOTE_DISPATCHED" => licensed
<1> DEFINE s == workflowState
<1>1. s \in WorkflowStates \ WorkflowTerminals /\ target \in WorkflowTransitions[s]
  BY DEF MoveTo, WInv, WorkflowTypeOK
<1>2. workflowState' = target /\ target \in WorkflowStates
  BY <1>1, WorkflowSources DEF MoveTo
<1>3. licensed' \in BOOLEAN /\ cancelRequested' \in BOOLEAN
  BY DEF MoveTo, WInv, WorkflowTypeOK
<1>4. CancelIsHonoured'
  <2>1. cancelRequested => s \in CancelStates
    BY DEF WInv, CancelIsHonoured, CancelStates, Compensates
  <2>2. cancelRequested' => target \in CancelStates
    BY <1>1, <2>1, WorkflowSources DEF MoveTo, CancelStates
  <2> QED
    BY <1>2, <2>2 DEF CancelIsHonoured, CancelStates, Compensates
<1>5. target \in LicensedStates => licensed'
  <2>1. CASE target \in Licensing
    BY <2>1 DEF MoveTo, Licensing
  <2>2. CASE target = "DELIVERY_PENDING"
    BY <1>1, <2>2, WorkflowSources DEF MoveTo, WInv, LicensedStates
  <2> QED
    BY <2>1, <2>2 DEF LicensedStates, Licensing
<1>6. target = "REMOTE_DISPATCHED" => licensed
  BY <1>1, WorkflowSources DEF WInv, LicensedStates
<1> QED
  BY <1>2, <1>3, <1>4, <1>5, <1>6 DEF WInv, WorkflowTypeOK

\* Every step of the workflow does.
LEMMA WorkflowStep ==
    ASSUME WInv, [WorkflowNext]_workflowVars
    PROVE  /\ WInv'
           /\ workflowState # "REMOTE_DISPATCHED" /\ workflowState' = "REMOTE_DISPATCHED"
                => licensed
<1> USE MaxAttemptsAssumption
<1>0. /\ retries \in 0..(MaxAttempts - 1) /\ waitingSeen \in BOOLEAN
      /\ decisionSeen \in BOOLEAN /\ effectRequests \subseteq Effects
      /\ lineage \in Effects \union {NoEffect} /\ workflowState \in WorkflowStates
      /\ licensed \in BOOLEAN /\ cancelRequested \in BOOLEAN
  BY DEF WInv, WorkflowTypeOK
<1>1. CASE PlainEvent
  BY <1>0, <1>1, MoveKeepsWInv DEF PlainEvent
<1>2. CASE RemoteDispatched \/ CancelRequested \/ HumanWaitRequired \/ HumanDecision
  BY <1>0, <1>2, MoveKeepsWInv DEF RemoteDispatched, CancelRequested, HumanWaitRequired,
     HumanDecision
<1>3. CASE RetryRequested
  <2>1. retries' \in 0..(MaxAttempts - 1)
    BY <1>0, <1>3 DEF RetryRequested
  <2> QED
    BY <1>0, <1>3, <2>1, MoveKeepsWInv DEF RetryRequested
<1>4. ASSUME NEW e \in Effects, EffectRequested(e)
      PROVE  WInv' /\ workflowState' = workflowState
  BY <1>0, <1>4 DEF EffectRequested, WInv, WorkflowTypeOK, CancelIsHonoured
<1>5. ASSUME NEW e \in Effects, NEW st, CompensationRequired(e, st)
      PROVE  WInv' /\ (workflowState' = "REMOTE_DISPATCHED" => licensed)
  BY <1>0, <1>5, MoveKeepsWInv DEF CompensationRequired
<1>6. ASSUME NEW e \in Effects, NEW target, CompensationAnswered(e, target)
      PROVE  WInv' /\ (workflowState' = "REMOTE_DISPATCHED" => licensed)
  BY <1>0, <1>6, MoveKeepsWInv DEF CompensationAnswered
<1>7. CASE UNCHANGED workflowVars
  BY <1>7 DEF workflowVars, WInv, WorkflowTypeOK, CancelIsHonoured
<1> QED
  BY <1>1, <1>2, <1>3, <1>4, <1>5, <1>6, <1>7 DEF WorkflowNext, WorkflowAlone

-----------------------------------------------------------------------------
\* Each step of the composition is a step of either half, or leaves it alone.
LEMMA StepOfBoth ==
    ASSUME [Next]_vars, WInv
    PROVE  [PlaneNext]_planeVars /\ [WorkflowNext]_workflowVars
<1>1. CASE WorkflowMoves
  BY <1>1 DEF WorkflowMoves, WorkflowNext
<1>2. CASE RequestEffect
  BY <1>2, EffectsAssumption DEF RequestEffect, WorkflowNext
<1>3. CASE RequestCompensation
  <2>1. PICK r \in Base, claimed \in {"COMMITTED", "UNKNOWN_EFFECT"} :
           CompensationRequired(r, claimed)
    BY <1>3 DEF RequestCompensation
  <2>2. CompensationRequired(r, "COMMITTED")
    BY <2>1 DEF CompensationRequired
  <2> QED
    BY <1>3, <2>2, EffectsAssumption DEF RequestCompensation, WorkflowNext
<1>4. CASE AnswerCompensation
  BY <1>4, EffectsAssumption DEF AnswerCompensation, WorkflowNext, WorkflowStates,
     WorkflowTerminals
<1>5. CASE PlaneMoves
  BY <1>5 DEF PlaneMoves, PlaneNext
<1>6. CASE UNCHANGED vars
  BY <1>6 DEF vars, planeVars, workflowVars
<1> QED
  BY <1>1, <1>2, <1>3, <1>4, <1>5, <1>6 DEF Next

\* The invariants of both halves hold throughout.
LEMMA DualInvariant == Spec => [](IInv /\ WInv)
<1>1. Init => IInv /\ WInv
  <2>1. ASSUME WorkflowInit PROVE WInv
    <3>1. "SUBMITTED" \in WorkflowStates
      BY DEF WorkflowStates, WorkflowTransitions
    <3>2. 0 \in 0..(MaxAttempts - 1)
      BY MaxAttemptsAssumption
    <3>3. WorkflowTypeOK
      BY <2>1, <3>1, <3>2 DEF WorkflowInit, WorkflowTypeOK
    <3>4. CancelIsHonoured /\ workflowState \notin LicensedStates
      BY <2>1 DEF WorkflowInit, CancelIsHonoured, LicensedStates
    <3> QED
      BY <3>3, <3>4 DEF WInv
  <2> QED
    BY <2>1, InitEstablishesIInv DEF Init
<1>2. IInv /\ WInv /\ [Next]_vars => (IInv /\ WInv)'
  <2> SUFFICES ASSUME IInv, WInv, [Next]_vars
               PROVE  IInv' /\ WInv'
    OBVIOUS
  <2>1. [PlaneNext]_planeVars /\ [WorkflowNext]_workflowVars
    BY StepOfBoth
  <2> QED
    BY <2>1, StepPreservesIInv, WorkflowStep
<1> QED
  BY <1>1, <1>2, PTL DEF Spec

-----------------------------------------------------------------------------
\* The composition is a behaviour of the effect plane, whose theorems so hold
\* of it: the workflow commits no effect of its own.
THEOREM DualAgentImplementsPlane == Spec => PlaneSpec
<1>1. Init => PlaneInit
  BY DEF Init
<1>2. WInv /\ [Next]_vars => [PlaneNext]_planeVars
  BY StepOfBoth
<1> QED
  BY <1>1, <1>2, DualInvariant, PTL DEF Spec, PlaneSpec

\* The workflow's state has its types.
THEOREM WorkflowTypeCorrect == Spec => []WorkflowTypeOK
<1>1. WInv => WorkflowTypeOK
  BY DEF WInv
<1> QED
  BY <1>1, DualInvariant, PTL

\* A job whose cancellation was requested is not taken up again.
THEOREM CancelAlwaysHonoured == Spec => []CancelIsHonoured
<1>1. WInv => CancelIsHonoured
  BY DEF WInv
<1> QED
  BY <1>1, DualInvariant, PTL

\* No remote dispatch without an admission, a resume or a charged retry
\* since the one before.
THEOREM DispatchesAreLicensed == Spec => DispatchIsLicensed
<1>1. WInv /\ [Next]_vars
        => [workflowState # "REMOTE_DISPATCHED" /\ workflowState' = "REMOTE_DISPATCHED"
              => licensed]_workflowVars
  BY StepOfBoth, WorkflowStep
<1> QED
  BY <1>1, DualInvariant, PTL DEF Spec, DispatchIsLicensed
=============================================================================
