---------------------------- MODULE MCLedgerStore ----------------------------
(* A small instance of LedgerStore.  Clients without an operator among them *)
(* are alike, and so are event ids: nothing in Init, Next or the safety     *)
(* properties tells one from another.                                       *)
EXTENDS LedgerStore, TLC

ClientsAndIds == Permutations(Procs) \union Permutations(Ids)

=============================================================================
