---------------------------- MODULE MCLedgerTask ----------------------------
(* Small instances of LedgerTask: two Todos that share one critical gate.   *)
EXTENDS LedgerTask

TwoTodoGates == [t \in 1..2 |-> {"tests"}]

\* The third attempt and the first token exhaust the quota.
BothLimits == [attempts |-> 3, tokens |-> 1]

BothReady == { << "READY", "READY" >> }

\* The second Todo is opened by the first one's completion, or ready at once.
SecondPending == { << "READY", "PENDING" >>, << "READY", "READY" >> }

\* One token, and a malformed negative delta the reducer has to refuse.
TokenDeltas == { [attempts |-> 0, tokens |-> 1], [attempts |-> 0, tokens |-> -1] }

=============================================================================
