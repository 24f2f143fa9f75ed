---------------------------- MODULE LedgerTypes ----------------------------
(***************************************************************************)
(* Events of a LoopX ledger and the digests that chain them.  A digest is  *)
(* modelled by what it commits to: an event's digest covers the event and  *)
(* its predecessor's digest, so it stands for the ids of the whole history *)
(* up to the event, and the sequence number an event carries is the length *)
(* of the digest it builds on.                                             *)
(***************************************************************************)
EXTENDS Integers, Sequences

CONSTANT Ids        \* event ids

Digests == Seq(Ids)

Events == [id : Ids, prev : Digests]

Digest(e) == Append(e.prev, e.id)

HeadDigest(events) == IF events = << >> THEN << >> ELSE Digest(events[Len(events)])

\* Positions of a history as receipts name them: event count and head digest.
Summaries == [count : Nat, head : Digests]

Summary(events) == [count |-> Len(events), head |-> HeadDigest(events)]
=============================================================================
