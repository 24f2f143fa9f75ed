--------------------------- MODULE KernelTaskState ---------------------------
(***************************************************************************)
(* The task state shared by the LoopX kernel and the LoopX ledger, and the *)
(* conditions the kernel's validator puts on it.                           *)
(*                                                                         *)
(* The kernel (loop_wiki/loopx-kernel) performs no transition: it owns the *)
(* shape of a task state and rejects one that breaks a rule.  The ledger   *)
(* (module LedgerTask) is the reducer that produces the states.  Stating   *)
(* the kernel's rules here lets the reducer be checked against them.       *)
(*                                                                         *)
(* A Todo is its position in the contract's list: the code looks Todos up  *)
(* by id and takes the first unfinished one in list order.                 *)
(***************************************************************************)
EXTENDS Integers

CONSTANTS
    NumTodos,       \* length of the contract's Todo list
    Gates,          \* gate ids of the contract's gate_definitions
    Critical,       \* those with severity CRITICAL
    GatesOf,        \* gate_ids of each Todo
    Resources,      \* keys of quota.used; "attempts" is one of them
    Limits,         \* quota.limits of the resources whose limit is not null
    DecisionIds,    \* ids a Human decision may carry
    NoTodo,         \* current_todo_id is null
    NoException     \* exception_ref is null

Todos == 1..NumTodos

ASSUME NumTodosAssumption == NumTodos \in Nat \ {0}

ASSUME GatesAssumption ==
    /\ Critical \subseteq Gates
    /\ GatesOf \in [Todos -> SUBSET Gates]

ASSUME QuotaAssumption ==
    /\ "attempts" \in Resources
    /\ DOMAIN Limits \subseteq Resources
    /\ Limits \in [DOMAIN Limits -> Nat \ {0}]

ASSUME NullAssumption ==
    /\ NoTodo \notin Todos
    /\ NoException \notin DecisionIds

VARIABLES
    lifecycle,      \* of the task
    current,        \* current_todo_id
    status,         \* of each Todo
    attempts,       \* of each Todo
    results,        \* gate_results of each Todo, by gate
    exception,      \* exception_ref of each Todo
    decisions,      \* human_decision_refs
    used,           \* quota.used
    quota           \* quota.state

stateVars == << lifecycle, current, status, attempts, results, exception,
                decisions, used, quota >>

-----------------------------------------------------------------------------
Statuses == { "PENDING", "READY", "DISPATCHED", "RUNNING", "RETRY",
              "HITL_PENDING", "COMPLETED", "COMPLETED_WITH_EXCEPTION",
              "FAILED", "CANCELLED" }

Lifecycles == { "READY", "ACTIVE", "HITL_PENDING", "COMPLETED",
                "COMPLETED_WITH_EXCEPTION", "FAILED", "CANCELLED" }

Finished == { "COMPLETED", "COMPLETED_WITH_EXCEPTION" }

Verdicts == { "PASS", "FAIL", "NOT_RUN", "SKIPPED_BY_POLICY" }

\* A gate of a Todo that has no entry in gate_results.
NoResult == [verdict |-> "ABSENT", attempt |-> 0]

Result == [verdict : Verdicts \union {"ABSENT"}, attempt : Nat]

TaskStateType ==
    /\ lifecycle \in Lifecycles
    /\ current \in Todos \union {NoTodo}
    /\ status \in [Todos -> Statuses]
    /\ attempts \in [Todos -> Nat]
    /\ results \in [Todos -> [Gates -> Result]]
    /\ exception \in [Todos -> DecisionIds \union {NoException}]
    /\ decisions \subseteq DecisionIds
    /\ used \in [Resources -> Nat]
    /\ quota \in {"AVAILABLE", "EXHAUSTED"}

-----------------------------------------------------------------------------
(* The rules of the kernel's validator, one operator per rule.             *)

GateResultAdmitted(t, g) ==
    results[t][g] # NoResult => results[t][g].attempt >= 1

ExceptionRecorded(t) ==
    exception[t] # NoException => exception[t] \in decisions

CompletionUnexcepted(t) ==
    status[t] = "COMPLETED" => exception[t] = NoException

CompletionGated(t) ==
    status[t] = "COMPLETED" =>
        \A g \in GatesOf[t] \intersect Critical : results[t][g].verdict = "PASS"

ExceptionCompletionExcepted(t) ==
    status[t] = "COMPLETED_WITH_EXCEPTION" => exception[t] # NoException

TerminalLifecycles == Finished \union {"FAILED", "CANCELLED"}

TerminalHasNoCurrent ==
    lifecycle \in TerminalLifecycles => current = NoTodo

Workable == {"READY", "DISPATCHED", "RUNNING", "RETRY", "HITL_PENDING"}

ActiveCurrentWorkable ==
    lifecycle \in {"ACTIVE", "HITL_PENDING"} =>
        current # NoTodo /\ status[current] \in Workable

CompletedTaskIsComplete ==
    lifecycle = "COMPLETED" => \A t \in Todos : status[t] = "COMPLETED"

LimitReached == \E r \in DOMAIN Limits : used[r] >= Limits[r]

QuotaConsistent ==
    /\ quota = (IF LimitReached THEN "EXHAUSTED" ELSE "AVAILABLE")
    /\ LimitReached => lifecycle # "ACTIVE"
=============================================================================
