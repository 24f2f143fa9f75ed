SPECIFICATION Spec
CONSTANTS
    NumTodos = 2
    Gates = {"tests"}
    Critical = {"tests"}
    GatesOf <- TwoTodoGates
    Resources = {"attempts", "tokens"}
    Limits <- BothLimits
    DecisionIds = {d1}
    NoTodo = NoTodo
    NoException = NoException
    Openings <- SecondPending
    Observable = {"PASS", "FAIL"}
    Deltas <- TokenDeltas
    AttemptCap = 2
    UsedCap = 3
INVARIANTS
    TypeOK
    CurrentIsUnfinished
    CompletedIsGated
    ExceptionIsGranted
    CompletionIsTotal
    ExhaustedIsNeverActive
    AttemptsAreCharged
PROPERTIES
    FinishedIsFinal
