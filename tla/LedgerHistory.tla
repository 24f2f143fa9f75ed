--------------------------- MODULE LedgerHistory ---------------------------
(***************************************************************************)
(* What the LoopX ledger promises its users, without files, processes or   *)
(* crashes: one hash-chained history that only ever grows at its end,      *)
(* receipts that each name a position of that history and the head digest  *)
(* it had there, and reports of readers who may have seen one event more,  *)
(* that never came to be.  Module LedgerStore implements this.             *)
(***************************************************************************)
EXTENDS LedgerTypes

VARIABLES
    history,        \* the committed events
    receipts,       \* the summaries that receipts have certified
    replays         \* the summaries that replays have reported

hvars == << history, receipts, replays >>

Init ==
    /\ history = << >>
    /\ receipts = {} /\ replays = {}

\* The history with one more event, which must be a new one.
Extended(id) == Append(history, [id |-> id, prev |-> HeadDigest(history)])

FreshIds == {id \in Ids : \A i \in 1..Len(history) : history[i].id # id}

Positions == {SubSeq(history, 1, n) : n \in 0..Len(history)}

Commit ==
    /\ \E id \in FreshIds : history' = Extended(id)
    /\ UNCHANGED << receipts, replays >>

Certify ==
    /\ \E s \in Positions : receipts' = receipts \union {Summary(s)}
    /\ UNCHANGED << history, replays >>

Report ==
    /\ \E s \in Positions \union {Extended(id) : id \in FreshIds} :
          replays' = replays \union {Summary(s)}
    /\ UNCHANGED << history, receipts >>

Next == Commit \/ Certify \/ Report

Spec == Init /\ [][Next]_hvars
=============================================================================
