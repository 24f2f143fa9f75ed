-------------------------- MODULE LedgerTask_proofs --------------------------
(***************************************************************************)
(* What the reducer of LedgerTask guarantees for every number of Todos,    *)
(* every set of gates, every quota and every bound.                        *)
(*                                                                         *)
(* Every action ends in Commit, which may overwrite the status of the      *)
(* current Todo.  The proofs therefore go through one lemma about Commit:  *)
(* a branch that leaves a coherent lifecycle, current Todo and statuses    *)
(* commits a coherent state in which the finished Todos are untouched.     *)
(*                                                                         *)
(* That every attempt is charged is an account of its own, kept beside     *)
(* that invariant: what a step adds to the attempts it adds to the usage,  *)
(* and no step gives usage back.                                           *)
(***************************************************************************)
EXTENDS LedgerTask, FiniteSums, TLAPS

\* What relates the lifecycle, the current Todo and the statuses.
Coherent(l, c, s) ==
    /\ c # NoTodo => s[c] \notin Finished
    /\ l \in Finished <=> \A t \in Todos : s[t] \in Finished
    /\ l = "COMPLETED" => \A t \in Todos : s[t] = "COMPLETED"
    /\ l = "COMPLETED_WITH_EXCEPTION" =>
          \E t \in Todos : s[t] = "COMPLETED_WITH_EXCEPTION"

\* Exceptions are backed by the decision log.
ExceptionsBacked ==
    \A t \in Todos :
        /\ exception[t] # NoException =>
              exception[t] \in decisions /\ << exception[t], t >> \in granted
        /\ ExceptionCompletionExcepted(t)

IInv ==
    /\ TypeOK
    /\ Coherent(lifecycle, current, status)
    /\ CompletedIsGated
    /\ ExceptionsBacked
    /\ ExhaustedIsNeverActive

-----------------------------------------------------------------------------
\* Commit keeps the types, and its closing quota step keeps the state coherent.
LEMMA CommitType ==
    ASSUME NEW l \in Lifecycles, NEW c \in Todos \union {NoTodo},
           NEW s \in [Todos -> Statuses], NEW u \in [Resources -> Nat],
           Commit(l, c, s, u)
    PROVE  /\ lifecycle' \in Lifecycles
           /\ current' \in Todos \union {NoTodo}
           /\ status' \in [Todos -> Statuses]
           /\ used' \in [Resources -> Nat]
           /\ quota' \in {"AVAILABLE", "EXHAUSTED"}
           /\ opened' \in BOOLEAN
BY DEF Commit, Lifecycles, Statuses

\* A limit reached is reported, and leaves no ACTIVE task.
LEMMA CommitQuota ==
    ASSUME NEW l, NEW c, NEW s, NEW u, Commit(l, c, s, u)
    PROVE  ExhaustedIsNeverActive'
BY DEF Commit, Exhausted, ExhaustedIsNeverActive, QuotaConsistent, LimitReached

\* The Todos that are finished after the branch are those finished after the
\* commit, with the same status.
LEMMA CommitFinished ==
    ASSUME NEW l, NEW c \in Todos \union {NoTodo},
           NEW s \in [Todos -> Statuses], NEW u,
           c # NoTodo => s[c] \notin Finished,
           Commit(l, c, s, u),
           NEW t \in Todos
    PROVE  /\ status'[t] \in Finished => status'[t] = s[t]
           /\ s[t] \in Finished => status'[t] = s[t]
BY DEF Commit, Finished

\* Commit leaves a coherent lifecycle, current Todo and statuses.
LEMMA CommitCoherent ==
    ASSUME NEW l \in Lifecycles, NEW c \in Todos \union {NoTodo},
           NEW s \in [Todos -> Statuses], NEW u \in [Resources -> Nat],
           Coherent(l, c, s), Commit(l, c, s, u)
    PROVE  Coherent(lifecycle', current', status')
<1>1. \A t \in Todos : /\ status'[t] \in Finished => status'[t] = s[t]
                       /\ s[t] \in Finished => status'[t] = s[t]
  BY CommitFinished DEF Coherent
<1>2. lifecycle' = l \/ (l = "ACTIVE" /\ lifecycle' = "HITL_PENDING")
  BY DEF Commit
<1>3. lifecycle' \in Finished <=> l \in Finished
  BY <1>2 DEF Finished
<1>4. lifecycle' \in Finished => lifecycle' = l
  BY <1>2 DEF Finished
<1>5. current' # NoTodo => status'[current'] \notin Finished
  BY <1>1 DEF Commit, Coherent
<1>6. (\A t \in Todos : s[t] \in Finished) <=> (\A t \in Todos : status'[t] \in Finished)
  BY <1>1
<1>7. lifecycle' = "COMPLETED" => \A t \in Todos : status'[t] = "COMPLETED"
  BY <1>1, <1>4 DEF Coherent, Finished
<1>8. lifecycle' = "COMPLETED_WITH_EXCEPTION" =>
          \E t \in Todos : status'[t] = "COMPLETED_WITH_EXCEPTION"
  BY <1>1, <1>4 DEF Coherent, Finished
<1> QED
  BY <1>3, <1>5, <1>6, <1>7, <1>8 DEF Coherent

-----------------------------------------------------------------------------
\* What a branch has to establish about the values it commits.
Branch(l, c, s, u) ==
    /\ l \in Lifecycles
    /\ c \in Todos \union {NoTodo}
    /\ s \in [Todos -> Statuses]
    /\ u \in [Resources -> Nat]
    /\ Coherent(l, c, s)

\* A branch that leaves the finished Todos alone, committed, keeps them.
LEMMA BranchFinished ==
    ASSUME NEW l, NEW c, NEW s, NEW u, Branch(l, c, s, u), Commit(l, c, s, u)
    PROVE  \A t \in Todos : /\ status'[t] \in Finished => status'[t] = s[t]
                            /\ s[t] \in Finished => status'[t] = s[t]
BY CommitFinished DEF Branch, Coherent

\* A branch that satisfies the side conditions keeps the invariant.
LEMMA BranchCommits ==
    ASSUME NEW l, NEW c, NEW s, NEW u, Branch(l, c, s, u), Commit(l, c, s, u)
    PROVE  /\ lifecycle' \in Lifecycles
           /\ current' \in Todos \union {NoTodo}
           /\ status' \in [Todos -> Statuses]
           /\ used' \in [Resources -> Nat]
           /\ quota' \in {"AVAILABLE", "EXHAUSTED"}
           /\ opened' \in BOOLEAN
           /\ Coherent(lifecycle', current', status')
           /\ ExhaustedIsNeverActive'
<1>1. /\ l \in Lifecycles /\ c \in Todos \union {NoTodo}
      /\ s \in [Todos -> Statuses] /\ u \in [Resources -> Nat]
      /\ Coherent(l, c, s)
  BY DEF Branch
<1>2. ExhaustedIsNeverActive'
  BY CommitQuota
<1>3. Coherent(lifecycle', current', status')
  BY <1>1, CommitCoherent
<1> QED
  BY <1>1, <1>2, <1>3, CommitType

\* A branch that moves one unfinished Todo to an unfinished status, under a
\* lifecycle that is not a completion, is fit to commit.
LEMMA MoveIsBranch ==
    ASSUME IInv, NEW t \in Todos, status[t] \notin Finished,
           NEW new \in Statuses \ Finished,
           NEW l \in Lifecycles \ Finished,
           NEW c \in {current, t, NoTodo},
           NEW u \in [Resources -> Nat]
    PROVE  Branch(l, c, [status EXCEPT ![t] = new], u)
<1> DEFINE s == [status EXCEPT ![t] = new]
<1>1. status \in [Todos -> Statuses] /\ current \in Todos \union {NoTodo}
  BY DEF IInv, TypeOK, TaskStateType
<1>2. s \in [Todos -> Statuses] /\ s[t] \notin Finished
  BY <1>1
<1>3. c # NoTodo => s[c] \notin Finished
  BY <1>1, <1>2 DEF IInv, Coherent
<1>4. l # "COMPLETED" /\ l # "COMPLETED_WITH_EXCEPTION"
  BY DEF Finished
<1>5. Coherent(l, c, s)
  BY <1>2, <1>3, <1>4 DEF Coherent
<1> QED
  BY <1>1, <1>2, <1>5 DEF Branch

\* An unfinished Todo keeps the task out of the completed lifecycles.
LEMMA UnfinishedTask ==
    ASSUME IInv, NEW t \in Todos, status[t] \notin Finished
    PROVE  lifecycle \in Lifecycles \ Finished
BY DEF IInv, TypeOK, TaskStateType, Coherent

\* A branch that leaves the Todos alone is fit to commit.
LEMMA StayIsBranch ==
    ASSUME IInv, NEW u \in [Resources -> Nat]
    PROVE  Branch(lifecycle, current, status, u)
BY DEF IInv, TypeOK, TaskStateType, Branch

-----------------------------------------------------------------------------
\* What a branch has to establish about the variables Commit leaves alone,
\* given the statuses s it commits.
Records(s) ==
    /\ attempts' \in [Todos -> Nat]
    /\ results' \in [Todos -> [Gates -> Result]]
    /\ exception' \in [Todos -> DecisionIds \union {NoException}]
    /\ decisions' \subseteq DecisionIds
    /\ granted' \subseteq DecisionIds \X Todos
    /\ \A t \in Todos :
          s[t] = "COMPLETED" =>
              \A g \in GatesOf[t] \intersect Critical :
                  results'[t][g].verdict = "PASS"
    /\ \A t \in Todos :
          /\ exception'[t] # NoException =>
                exception'[t] \in decisions' /\ << exception'[t], t >> \in granted'
          /\ s[t] = "COMPLETED_WITH_EXCEPTION" => exception'[t] # NoException

\* What a branch does to the Todos that were finished before it: nothing.
Respects(s) ==
    \A t \in Todos : status[t] \in Finished =>
        s[t] = status[t] /\ results'[t] = results[t]

FinishedKept ==
    \A t \in Todos : status[t] \in Finished =>
        status'[t] = status[t] /\ results'[t] = results[t]

\* Committing a fit branch re-establishes the invariant and keeps what was
\* finished.
LEMMA BranchKeeps ==
    ASSUME IInv, NEW l, NEW c, NEW s, NEW u,
           Branch(l, c, s, u), Commit(l, c, s, u), Records(s), Respects(s)
    PROVE  IInv' /\ FinishedKept
<1>1. \A t \in Todos : /\ status'[t] \in Finished => status'[t] = s[t]
                       /\ s[t] \in Finished => status'[t] = s[t]
  BY BranchFinished
<1>2. TypeOK'
  BY BranchCommits DEF TypeOK, TaskStateType, Records
<1>3. Coherent(lifecycle, current, status)' /\ ExhaustedIsNeverActive'
  BY BranchCommits
<1>4. CompletedIsGated'
  BY <1>1 DEF CompletedIsGated, CompletionGated, Records, Finished
<1>5. ExceptionsBacked'
  BY <1>1 DEF ExceptionsBacked, ExceptionCompletionExcepted, Records, Finished
<1>6. FinishedKept
  BY <1>1 DEF FinishedKept, Respects
<1> QED
  BY <1>2, <1>3, <1>4, <1>5, <1>6 DEF IInv

\* The variables beside Commit's are unchanged, and no Todo is completed.
LEMMA UnchangedRecords ==
    ASSUME IInv, UNCHANGED << attempts, results, exception, decisions, granted >>,
           NEW t \in Todos, status[t] \notin Finished,
           NEW new \in Statuses \ Finished
    PROVE  Records([status EXCEPT ![t] = new]) /\ Respects([status EXCEPT ![t] = new])
<1> DEFINE s == [status EXCEPT ![t] = new]
<1>1. \A o \in Todos : s[o] \in Finished => s[o] = status[o]
  BY DEF IInv, TypeOK, TaskStateType, Finished
<1>2. \A o \in Todos : status[o] \in Finished => s[o] = status[o]
  BY DEF IInv, TypeOK, TaskStateType
<1> HIDE DEF s
<1>3. Records(s)
  BY <1>1 DEF IInv, TypeOK, TaskStateType, CompletedIsGated, CompletionGated,
         ExceptionsBacked, ExceptionCompletionExcepted, Records, Finished
<1>4. Respects(s)
  BY <1>2 DEF Respects
<1> QED
  BY <1>3, <1>4 DEF s
-----------------------------------------------------------------------------
(* One lemma per action.                                                   *)

\* Actions that move one unfinished Todo and leave the records alone.
LEMMA MoveKeeps ==
    ASSUME IInv, UNCHANGED << attempts, results, exception, decisions, granted >>,
           NEW t \in Todos, status[t] \notin Finished,
           NEW new \in Statuses \ Finished,
           NEW l \in Lifecycles \ Finished,
           NEW c \in {current, t, NoTodo},
           Commit(l, c, [status EXCEPT ![t] = new], used)
    PROVE  IInv' /\ FinishedKept
<1>1. used \in [Resources -> Nat]
  BY DEF IInv, TypeOK, TaskStateType
<1>2. Branch(l, c, [status EXCEPT ![t] = new], used)
  BY <1>1, MoveIsBranch
<1> QED
  BY <1>2, UnchangedRecords, BranchKeeps

\* Actions that commit the statuses as they are.
LEMMA StayKeeps ==
    ASSUME IInv, NEW u \in [Resources -> Nat],
           Commit(lifecycle, current, status, u),
           UNCHANGED << attempts, results, exception, decisions, granted >>
    PROVE  IInv' /\ FinishedKept
<1>1. Records(status) /\ Respects(status)
  BY DEF IInv, TypeOK, TaskStateType, CompletedIsGated, CompletionGated,
         ExceptionsBacked, ExceptionCompletionExcepted, Records, Respects
<1> QED
  BY <1>1, StayIsBranch, BranchKeeps

\* TASK_INITIALIZED keeps the invariant.
LEMMA InitializeTaskKeeps ==
    ASSUME IInv, InitializeTask
    PROVE  IInv' /\ FinishedKept
<1>1. Branch("ACTIVE", current, status, used)
  BY DEF InitializeTask, IInv, TypeOK, TaskStateType, Branch, Coherent,
         Lifecycles, Finished
<1>2. Records(status) /\ Respects(status)
  BY DEF InitializeTask, IInv, TypeOK, TaskStateType, CompletedIsGated,
         CompletionGated, ExceptionsBacked, ExceptionCompletionExcepted,
         Records, Respects
<1> QED
  BY <1>1, <1>2, BranchKeeps DEF InitializeTask

\* COMMAND_ACCEPTED keeps the invariant.
LEMMA AcceptCommandKeeps ==
    ASSUME IInv, NEW t \in Todos, AcceptCommand(t)
    PROVE  IInv' /\ FinishedKept
<1>1. status[t] \notin Finished
  BY DEF AcceptCommand, Finished
<1>2. "DISPATCHED" \in Statuses \ Finished
  BY DEF Statuses, Finished
<1> QED
  BY <1>1, <1>2, UnfinishedTask, MoveKeeps DEF AcceptCommand

\* WORKER_OBSERVED keeps the invariant.
LEMMA ObserveWorkerKeeps ==
    ASSUME IInv, NEW t \in Todos, ObserveWorker(t)
    PROVE  IInv' /\ FinishedKept
<1> DEFINE s == [status EXCEPT ![t] = "RUNNING"]
           u == Debited(used, OneAttempt)
<1>1. status[t] \notin Finished
  BY DEF ObserveWorker, Finished
<1>2. "RUNNING" \in Statuses \ Finished
  BY DEF Statuses, Finished
<1>3. u \in [Resources -> Nat]
  BY DEF Debited, OneAttempt, IInv, TypeOK, TaskStateType
<1>4. Branch(lifecycle, current, s, u)
  BY <1>1, <1>2, <1>3, UnfinishedTask, MoveIsBranch
<1>5. /\ s \in [Todos -> Statuses]
      /\ \A o \in Todos : s[o] \in Finished => s[o] = status[o]
      /\ \A o \in Todos : status[o] \in Finished => s[o] = status[o]
  BY <1>1, <1>2 DEF IInv, TypeOK, TaskStateType
<1>6. Commit(lifecycle, current, s, u)
  BY DEF ObserveWorker
<1> HIDE DEF s, u
<1>7. Records(s) /\ Respects(s)
  <2>1. attempts' \in [Todos -> Nat]
    BY DEF ObserveWorker, IInv, TypeOK, TaskStateType
  <2>2. Records(s)
    BY <1>5, <2>1 DEF ObserveWorker, IInv, TypeOK, TaskStateType, CompletedIsGated,
       CompletionGated, ExceptionsBacked, ExceptionCompletionExcepted, Records,
       Finished
  <2>3. Respects(s)
    BY <1>5 DEF ObserveWorker, Respects
  <2> QED
    BY <2>2, <2>3
<1> QED
  BY <1>4, <1>6, <1>7, BranchKeeps

\* GATE_OBSERVED keeps the invariant: a new verdict is never on a finished Todo.
LEMMA ObserveGateKeeps ==
    ASSUME IInv, NEW t \in Todos, NEW g \in Gates, NEW v \in Verdicts,
           ObserveGate(t, g, v)
    PROVE  IInv' /\ FinishedKept
<1>1. used \in [Resources -> Nat] /\ Commit(lifecycle, current, status, used)
  BY DEF ObserveGate, IInv, TypeOK, TaskStateType
<1>2. results' \in [Todos -> [Gates -> Result]]
  <2>1. [verdict |-> v, attempt |-> attempts[t]] \in Result
    BY DEF IInv, TypeOK, TaskStateType, Result
  <2> QED
    BY <2>1 DEF ObserveGate, IInv, TypeOK, TaskStateType
<1>3. \A o \in Todos : status[o] \in Finished => results'[o] = results[o]
  BY DEF ObserveGate, IInv, TypeOK, TaskStateType, Finished
<1>4. Records(status) /\ Respects(status)
  <2>1. \A o \in Todos : status[o] = "COMPLETED" =>
            \A h \in GatesOf[o] \intersect Critical : results'[o][h].verdict = "PASS"
    BY <1>3 DEF IInv, CompletedIsGated, CompletionGated, Finished
  <2>2. Records(status)
    BY <1>2, <2>1 DEF ObserveGate, IInv, TypeOK, TaskStateType, ExceptionsBacked,
       ExceptionCompletionExcepted, Records
  <2>3. Respects(status)
    BY <1>3 DEF Respects
  <2> QED
    BY <2>2, <2>3
<1> QED
  BY <1>1, <1>4, StayIsBranch, BranchKeeps

\* QUOTA_DEBITED keeps the invariant.
LEMMA DebitQuotaKeeps ==
    ASSUME IInv, NEW d \in Deltas, DebitQuota(d)
    PROVE  IInv' /\ FinishedKept
<1>1. d \in [Resources -> Int]
  BY DeltasAssumption
<1>2. Debited(used, d) \in [Resources -> Nat]
  BY <1>1 DEF DebitQuota, NonNegative, Debited, IInv, TypeOK, TaskStateType
<1> QED
  BY <1>2, StayKeeps DEF DebitQuota

\* COMMAND_REJECTED keeps the invariant.
LEMMA RejectCommandKeeps ==
    ASSUME IInv, RejectCommand
    PROVE  IInv' /\ FinishedKept
<1>1. used \in [Resources -> Nat]
  BY DEF IInv, TypeOK, TaskStateType
<1> QED
  BY <1>1, StayKeeps DEF RejectCommand

\* HITL_REQUESTED keeps the invariant.
LEMMA RequestHitlKeeps ==
    ASSUME IInv, NEW t \in Todos, RequestHitl(t)
    PROVE  IInv' /\ FinishedKept
<1>1. status[t] \notin Finished
  BY DEF RequestHitl, Finished
<1>2. "HITL_PENDING" \in Statuses \ Finished /\ "HITL_PENDING" \in Lifecycles \ Finished
  BY DEF Statuses, Lifecycles, Finished
<1> QED
  BY <1>1, <1>2, MoveKeeps DEF RequestHitl

\* HUMAN_DECISION_RECORDED keeps the invariant.
LEMMA RecordDecisionKeeps ==
    ASSUME IInv, NEW d \in DecisionIds, NEW a, NEW t \in Todos \union {NoTodo},
           RecordDecision(d, a, t)
    PROVE  IInv' /\ FinishedKept
<1>1. used \in [Resources -> Nat] /\ Commit(lifecycle, current, status, used)
  BY DEF RecordDecision, IInv, TypeOK, TaskStateType
<1>2. /\ exception' \in [Todos -> DecisionIds \union {NoException}]
      /\ decisions' \subseteq DecisionIds
      /\ granted' \subseteq DecisionIds \X Todos
  BY DEF RecordDecision, Excepts, IInv, TypeOK, TaskStateType
<1>3. \A o \in Todos :
          /\ exception'[o] # NoException =>
                exception'[o] \in decisions' /\ << exception'[o], o >> \in granted'
          /\ exception[o] # NoException => exception'[o] # NoException
  BY NullAssumption
     DEF RecordDecision, Excepts, IInv, TypeOK, TaskStateType, ExceptionsBacked
<1>4. Records(status) /\ Respects(status)
  BY <1>2, <1>3
     DEF RecordDecision, IInv, TypeOK, TaskStateType, CompletedIsGated,
         CompletionGated, ExceptionsBacked, ExceptionCompletionExcepted,
         Records, Respects
<1> QED
  BY <1>1, <1>4, StayIsBranch, BranchKeeps

\* No transition leaves a completed status.
LEMMA MoveIsUnfinished ==
    ASSUME NEW t, NEW target, MayMove(t, target)
    PROVE  status[t] \notin Finished
BY DEF MayMove, AllowedTransitions, Finished

\* A transition to an unfinished status keeps the invariant.
LEMMA AdvanceKeeps ==
    ASSUME IInv, NEW t \in Todos, NEW target \in Statuses, Advance(t, target)
    PROVE  IInv' /\ FinishedKept
<1>1. status[t] \notin Finished
  BY MoveIsUnfinished DEF Advance
<1>2. target \in Statuses \ Finished
  BY DEF Advance, Finished
<1> QED
  BY <1>1, <1>2, UnfinishedTask, MoveKeeps DEF Advance, CommitStatus

\* A transition to HITL_PENDING keeps the invariant.
LEMMA EscalateKeeps ==
    ASSUME IInv, NEW t \in Todos, Escalate(t)
    PROVE  IInv' /\ FinishedKept
<1>1. status[t] \notin Finished
  BY MoveIsUnfinished DEF Escalate
<1>2. "HITL_PENDING" \in Statuses \ Finished /\ "HITL_PENDING" \in Lifecycles \ Finished
  BY DEF Statuses, Lifecycles, Finished
<1> QED
  BY <1>1, <1>2, MoveKeeps DEF Escalate

\* A transition to FAILED or CANCELLED keeps the invariant.
LEMMA StopKeeps ==
    ASSUME IInv, NEW t \in Todos, NEW target \in Statuses, Stop(t, target)
    PROVE  IInv' /\ FinishedKept
<1>1. status[t] \notin Finished
  BY MoveIsUnfinished DEF Stop
<1>2. target \in Statuses \ Finished /\ target \in Lifecycles \ Finished
  BY DEF Stop, Statuses, Lifecycles, Finished
<1> QED
  BY <1>1, <1>2, MoveKeeps DEF Stop
\* Completing a Todo: the others keep their status, except that the next one
\* may be opened; the task completes only when no other Todo is left.
LEMMA CompleteKeeps ==
    ASSUME IInv, NEW t \in Todos, NEW target \in Finished, Complete(t, target)
    PROVE  IInv' /\ FinishedKept
<1> DEFINE done == [status EXCEPT ![t] = target]
<1>1. /\ MayMove(t, target)
      /\ CompletionAdmitted(t, target)
      /\ UNCHANGED << attempts, results, exception, decisions, granted >>
  BY DEF Complete
<1>2. status[t] \notin Finished
  BY <1>1, MoveIsUnfinished
<1>3. /\ status \in [Todos -> Statuses]
      /\ used \in [Resources -> Nat]
      /\ target \in Statuses
  BY DEF IInv, TypeOK, TaskStateType, Statuses, Finished
<1>4. /\ done \in [Todos -> Statuses]
      /\ done[t] = target
      /\ \A o \in Todos \ {t} : done[o] = status[o]
  BY <1>3
<1>5. ASSUME NEW s \in [Todos -> Statuses], s[t] = target,
             \A o \in Todos \ {t} :
                 s[o] = status[o] \/ (s[o] \notin Finished /\ status[o] \notin Finished)
      PROVE  Records(s) /\ Respects(s)
  <2>1. \A o \in Todos : s[o] = "COMPLETED" =>
            \A g \in GatesOf[o] \intersect Critical : results'[o][g].verdict = "PASS"
    BY <1>1, <1>5 DEF IInv, CompletedIsGated, CompletionGated, CompletionAdmitted,
       CriticalGatesPass, Finished
  <2>2. \A o \in Todos : s[o] = "COMPLETED_WITH_EXCEPTION" => exception'[o] # NoException
    BY <1>1, <1>5 DEF IInv, ExceptionsBacked, ExceptionCompletionExcepted,
       CompletionAdmitted, Finished
  <2>3. Records(s)
    BY <1>1, <2>1, <2>2 DEF IInv, TypeOK, TaskStateType, ExceptionsBacked, Records
  <2>4. Respects(s)
    BY <1>1, <1>2, <1>5 DEF Respects
  <2> QED
    BY <2>3, <2>4
<1>6. CASE \E next \in Unfinished(t) :
               Commit("ACTIVE", next,
                      [done EXCEPT ![next] = IF @ = "PENDING" THEN "READY" ELSE @], used)
  <2>1. PICK next \in Unfinished(t) :
            Commit("ACTIVE", next,
                   [done EXCEPT ![next] = IF @ = "PENDING" THEN "READY" ELSE @], used)
    BY <1>6
  <2> DEFINE s == [done EXCEPT ![next] = IF @ = "PENDING" THEN "READY" ELSE @]
  <2>2. next \in Todos /\ next # t /\ status[next] \notin Finished
    BY DEF Unfinished
  <2>3. /\ s \in [Todos -> Statuses]
        /\ s[t] = target
        /\ s[next] \notin Finished
        /\ \A o \in Todos \ {t, next} : s[o] = status[o]
    BY <1>4, <2>2 DEF Statuses, Finished
  <2>4. Commit("ACTIVE", next, s, used)
    BY <2>1
  <2> HIDE DEF s
  <2>5. Branch("ACTIVE", next, s, used)
    BY <1>3, <2>2, <2>3 DEF Branch, Coherent, Lifecycles, Finished
  <2>6. Records(s) /\ Respects(s)
    BY <1>5, <2>2, <2>3
  <2> QED
    BY <2>4, <2>5, <2>6, BranchKeeps
<1>7. CASE /\ Unfinished(t) = {}
           /\ Commit(IF \E o \in Todos : done[o] = "COMPLETED_WITH_EXCEPTION"
                     THEN "COMPLETED_WITH_EXCEPTION" ELSE "COMPLETED",
                     NoTodo, done, used)
  <2> DEFINE l == IF \E o \in Todos : done[o] = "COMPLETED_WITH_EXCEPTION"
                  THEN "COMPLETED_WITH_EXCEPTION" ELSE "COMPLETED"
  <2>1. \A o \in Todos : done[o] \in Finished
    BY <1>4, <1>7 DEF Unfinished
  <2>2. /\ l \in Finished
        /\ l = "COMPLETED" => \A o \in Todos : done[o] = "COMPLETED"
        /\ l = "COMPLETED_WITH_EXCEPTION" =>
              \E o \in Todos : done[o] = "COMPLETED_WITH_EXCEPTION"
    BY <2>1 DEF Finished
  <2>3. Commit(l, NoTodo, done, used)
    BY <1>7
  <2> HIDE DEF l, done
  <2>4. Branch(l, NoTodo, done, used)
    BY <1>3, <1>4, <2>1, <2>2 DEF Branch, Coherent, Lifecycles, Finished
  <2>5. Records(done) /\ Respects(done)
    BY <1>4, <1>5
  <2> QED
    BY <2>3, <2>4, <2>5, BranchKeeps
<1> QED
  BY <1>6, <1>7 DEF Complete

-----------------------------------------------------------------------------
\* An admitted initial state satisfies the invariant.
LEMMA InitEstablishes == Init => IInv
<1> SUFFICES ASSUME Init PROVE IInv
  OBVIOUS
<1>1. status \in [Todos -> {"PENDING", "READY"}] /\ 1 \in Todos
  BY OpeningsAssumption, NumTodosAssumption DEF Init, Todos
<1>2. TypeOK
  <2>1. NoResult \in Result
    BY DEF NoResult, Result
  <2> QED
    BY <1>1, <2>1 DEF Init, TypeOK, TaskStateType, Lifecycles, Statuses
<1>3. Coherent(lifecycle, current, status)
  BY <1>1 DEF Init, Coherent, Finished
<1>4. CompletedIsGated /\ ExceptionsBacked
  BY <1>1 DEF Init, CompletedIsGated, CompletionGated, ExceptionsBacked,
     ExceptionCompletionExcepted
<1>5. ExhaustedIsNeverActive
  BY QuotaAssumption DEF Init, ExhaustedIsNeverActive, QuotaConsistent, LimitReached
<1> QED
  BY <1>2, <1>3, <1>4, <1>5 DEF IInv

\* Every event keeps the invariant and the finished Todos.
LEMMA NextKeeps ==
    ASSUME IInv, Next
    PROVE  IInv' /\ FinishedKept
<1>1. ASSUME NEW t \in Todos, TodoStep(t)
      PROVE  IInv' /\ FinishedKept
  <2>1. CASE AcceptCommand(t)
    BY <2>1, AcceptCommandKeeps
  <2>2. CASE ObserveWorker(t)
    BY <2>2, ObserveWorkerKeeps
  <2>3. CASE \E g \in Gates, v \in Observable : ObserveGate(t, g, v)
    BY <2>3, ObserveGateKeeps, ObservableAssumption
  <2>4. CASE RequestHitl(t)
    BY <2>4, RequestHitlKeeps
  <2>5. CASE \E s \in Statuses : Advance(t, s)
    BY <2>5, AdvanceKeeps
  <2>6. CASE Escalate(t)
    BY <2>6, EscalateKeeps
  <2>7. CASE \E s \in Statuses : Stop(t, s)
    BY <2>7, StopKeeps
  <2>8. CASE \E s \in Finished : Complete(t, s)
    BY <2>8, CompleteKeeps
  <2> QED
    BY <1>1, <2>1, <2>2, <2>3, <2>4, <2>5, <2>6, <2>7, <2>8 DEF TodoStep
<1>2. CASE InitializeTask
  BY <1>2, InitializeTaskKeeps
<1>3. CASE RejectCommand
  BY <1>3, RejectCommandKeeps
<1>4. CASE \E d \in Deltas : DebitQuota(d)
  BY <1>4, DebitQuotaKeeps
<1>5. CASE \E d \in DecisionIds, a \in {"SCOPED_EXCEPTION", "CANCEL"},
              t \in Todos \union {NoTodo} : RecordDecision(d, a, t)
  BY <1>5, RecordDecisionKeeps
<1> QED
  BY <1>1, <1>2, <1>3, <1>4, <1>5 DEF Next

\* So does a step of the rest of the system.
LEMMA StutterKeeps ==
    ASSUME IInv, UNCHANGED vars
    PROVE  IInv' /\ FinishedKept
BY DEF IInv, vars, stateVars, TypeOK, TaskStateType, Coherent, CompletedIsGated,
       CompletionGated, ExceptionsBacked, ExceptionCompletionExcepted,
       ExhaustedIsNeverActive, QuotaConsistent, LimitReached, FinishedKept

\* The invariant holds throughout.
LEMMA Invariance == Spec => []IInv
<1>1. IInv /\ [Next]_vars => IInv'
  BY NextKeeps, StutterKeeps
<1> QED
  BY <1>1, InitEstablishes, PTL DEF Spec

-----------------------------------------------------------------------------
\* The reducer's state always has the kernel's shape: counters are naturals,
\* statuses and lifecycles are the declared ones, decisions are known ids.
THEOREM TypeCorrect == Spec => []TypeOK
<1>1. IInv => TypeOK
  BY DEF IInv
<1> QED
  BY <1>1, Invariance, PTL

\* The current Todo is never a finished one.
THEOREM CurrentUnfinished == Spec => []CurrentIsUnfinished
<1>1. IInv => CurrentIsUnfinished
  BY DEF IInv, Coherent, CurrentIsUnfinished
<1> QED
  BY <1>1, Invariance, PTL

\* No Todo is ever COMPLETED without PASS on every critical gate it has.
THEOREM CompletionIsGated == Spec => []CompletedIsGated
<1>1. IInv => CompletedIsGated
  BY DEF IInv
<1> QED
  BY <1>1, Invariance, PTL

\* Every exception, and so every completion with one, is backed by a scoped
\* Human decision in the history.
THEOREM ExceptionsAreGranted == Spec => []ExceptionIsGranted
<1>1. IInv => ExceptionIsGranted
  BY DEF IInv, ExceptionsBacked, ExceptionCompletionExcepted, ExceptionIsGranted,
     ExceptionRecorded
<1> QED
  BY <1>1, Invariance, PTL

\* At every moment the task is complete exactly when every Todo is.
THEOREM TaskCompletionIsTotal == Spec => []CompletionIsTotal
<1>1. IInv => CompletionIsTotal
  BY DEF IInv, Coherent, CompletionIsTotal, CompletedTaskIsComplete
<1> QED
  BY <1>1, Invariance, PTL

\* An exhausted quota is reported, and the task is then not ACTIVE.
THEOREM QuotaStopsTheTask == Spec => []ExhaustedIsNeverActive
<1>1. IInv => ExhaustedIsNeverActive
  BY DEF IInv
<1> QED
  BY <1>1, Invariance, PTL

\* A finished Todo is final, although quota exhaustion overwrites statuses.
THEOREM FinishedTodosAreFinal == Spec => FinishedIsFinal
<1>1. IInv /\ [Next]_vars =>
          [\A t \in Todos : status[t] \in Finished =>
              status'[t] = status[t] /\ results'[t] = results[t]]_vars
  BY NextKeeps DEF FinishedKept
<1> QED
  BY <1>1, Invariance, PTL DEF Spec, FinishedIsFinal

-----------------------------------------------------------------------------
(* The account of the attempts.                                            *)

\* Usage u covers the attempts a of all the Todos.
Charged(u, a) == u["attempts"] >= Sum(a, Todos)

\* The property is that the usage covers the attempts.
LEMMA ChargedIsProperty == AttemptsAreCharged <=> Charged(used, attempts)
BY DEF AttemptsAreCharged, Charged, Sum

\* There are finitely many Todos.
LEMMA TodosFinite == IsFiniteSet(Todos)
BY NumTodosAssumption, FS_Interval DEF Todos

\* Before the first event nothing was attempted and nothing was used.
LEMMA InitCharged == Init => AttemptsAreCharged
<1> SUFFICES ASSUME Init PROVE AttemptsAreCharged
  OBVIOUS
<1>1. Sum(attempts, Todos) = 0
  BY TodosFinite, SumOfZeros DEF Init
<1>2. used["attempts"] = 0
  BY QuotaAssumption DEF Init
<1> QED
  BY <1>1, <1>2, ChargedIsProperty DEF Charged

\* A committed branch that charges u, no less than was used, keeps the
\* account when it starts no attempt.
LEMMA CommitCharged ==
    ASSUME IInv, Charged(used, attempts), UNCHANGED attempts,
           NEW l, NEW c, NEW s, NEW u \in [Resources -> Nat],
           u["attempts"] >= used["attempts"], Commit(l, c, s, u)
    PROVE  Charged(used', attempts')
<1>1. used' = u /\ attempts' = attempts
  BY DEF Commit
<1>2. u["attempts"] \in Nat /\ used["attempts"] \in Nat
  BY QuotaAssumption DEF IInv, TypeOK, TaskStateType
<1>3. Sum(attempts, Todos) \in Nat
  BY TodosFinite, SumNat DEF IInv, TypeOK, TaskStateType
<1> QED
  BY <1>1, <1>2, <1>3 DEF Charged

\* WORKER_OBSERVED adds one attempt of one Todo, and charges one.
LEMMA ObserveWorkerCharges ==
    ASSUME IInv, Charged(used, attempts), NEW t \in Todos, ObserveWorker(t)
    PROVE  Charged(used', attempts')
<1>1. /\ attempts \in [Todos -> Nat]
      /\ attempts' = [attempts EXCEPT ![t] = @ + 1]
      /\ used["attempts"] \in Nat
  BY QuotaAssumption DEF ObserveWorker, IInv, TypeOK, TaskStateType
<1>2. used'["attempts"] = used["attempts"] + 1
  BY QuotaAssumption DEF ObserveWorker, Commit, Debited, OneAttempt
<1>3. Sum(attempts, Todos) + attempts'[t] = Sum(attempts', Todos) + attempts[t]
  <2>1. /\ \A o \in Todos : attempts[o] \in Nat /\ attempts'[o] \in Nat
        /\ \A o \in Todos \ {t} : attempts[o] = attempts'[o]
    BY <1>1
  <2> QED
    BY <2>1, TodosFinite, SumOfUpdate
<1>4. /\ Sum(attempts, Todos) \in Nat
      /\ Sum(attempts', Todos) \in Nat
      /\ attempts[t] \in Nat
      /\ attempts'[t] = attempts[t] + 1
  <2>1. \A o \in Todos : attempts[o] \in Nat /\ attempts'[o] \in Nat
    BY <1>1
  <2> QED
    BY <1>1, <2>1, TodosFinite, SumNat
<1> QED
  BY <1>1, <1>2, <1>3, <1>4 DEF Charged

\* QUOTA_DEBITED takes nothing back: a negative delta is refused.
LEMMA DebitQuotaCharged ==
    ASSUME IInv, Charged(used, attempts), NEW d \in Deltas, DebitQuota(d)
    PROVE  Charged(used', attempts')
<1> DEFINE u == Debited(used, d)
<1>1. /\ d \in [Resources -> Int]
      /\ used \in [Resources -> Nat]
      /\ "attempts" \in Resources
  BY DeltasAssumption, QuotaAssumption DEF IInv, TypeOK, TaskStateType
<1>2. u \in [Resources -> Nat] /\ u["attempts"] >= used["attempts"]
  BY <1>1 DEF DebitQuota, NonNegative, Debited
<1>3. Commit(lifecycle, current, status, u) /\ UNCHANGED attempts
  BY DEF DebitQuota
<1> HIDE DEF u
<1> QED
  BY <1>2, <1>3, CommitCharged

\* The remaining events commit the usage as it is and start no attempt.
LEMMA OthersCharged ==
    ASSUME IInv, Charged(used, attempts), UNCHANGED attempts,
           NEW l, NEW c, NEW s, Commit(l, c, s, used)
    PROVE  Charged(used', attempts')
<1>1. used \in [Resources -> Nat] /\ used["attempts"] \in Nat
  BY QuotaAssumption DEF IInv, TypeOK, TaskStateType
<1> QED
  BY <1>1, CommitCharged

\* Every event keeps the account.
LEMMA NextCharged ==
    ASSUME IInv, Charged(used, attempts), Next
    PROVE  Charged(used', attempts')
<1>1. ASSUME NEW t \in Todos, TodoStep(t)
      PROVE  Charged(used', attempts')
  <2>1. CASE AcceptCommand(t)
    BY <2>1, OthersCharged DEF AcceptCommand
  <2>2. CASE ObserveWorker(t)
    BY <2>2, ObserveWorkerCharges
  <2>3. CASE \E g \in Gates, v \in Observable : ObserveGate(t, g, v)
    BY <2>3, OthersCharged DEF ObserveGate
  <2>4. CASE RequestHitl(t)
    BY <2>4, OthersCharged DEF RequestHitl
  <2>5. CASE \E s \in Statuses : Advance(t, s)
    BY <2>5, OthersCharged DEF Advance, CommitStatus
  <2>6. CASE Escalate(t)
    BY <2>6, OthersCharged DEF Escalate
  <2>7. CASE \E s \in Statuses : Stop(t, s)
    BY <2>7, OthersCharged DEF Stop
  <2>8. CASE \E s \in Finished : Complete(t, s)
    BY <2>8, OthersCharged DEF Complete
  <2> QED
    BY <1>1, <2>1, <2>2, <2>3, <2>4, <2>5, <2>6, <2>7, <2>8 DEF TodoStep
<1>2. CASE InitializeTask
  BY <1>2, OthersCharged DEF InitializeTask
<1>3. CASE RejectCommand
  BY <1>3, OthersCharged DEF RejectCommand
<1>4. CASE \E d \in Deltas : DebitQuota(d)
  BY <1>4, DebitQuotaCharged
<1>5. CASE \E d \in DecisionIds, a \in {"SCOPED_EXCEPTION", "CANCEL"},
              t \in Todos \union {NoTodo} : RecordDecision(d, a, t)
  BY <1>5, OthersCharged DEF RecordDecision
<1> QED
  BY <1>1, <1>2, <1>3, <1>4, <1>5 DEF Next

\* No attempt of any Todo, retried or not, escapes the task's quota.
THEOREM AttemptsAlwaysCharged == Spec => []AttemptsAreCharged
<1>1. IInv /\ AttemptsAreCharged /\ [Next]_vars => AttemptsAreCharged'
  <2> SUFFICES ASSUME IInv, AttemptsAreCharged, [Next]_vars
               PROVE  AttemptsAreCharged'
    OBVIOUS
  <2>1. Charged(used, attempts)
    BY ChargedIsProperty
  <2>2. Charged(used', attempts')
    <3>1. CASE Next
      BY <2>1, <3>1, NextCharged
    <3>2. CASE UNCHANGED vars
      BY <2>1, <3>2 DEF vars, stateVars
    <3> QED
      BY <3>1, <3>2
  <2> QED
    BY <2>2 DEF AttemptsAreCharged, Charged, Sum, MapThenSumSet, MapThenFoldSet
<1> QED
  BY <1>1, InitCharged, Invariance, PTL DEF Spec
=============================================================================
