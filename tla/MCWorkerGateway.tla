--------------------------- MODULE MCWorkerGateway ---------------------------
(* The writable root is lib.  A Worker may add a file there, change one    *)
(* outside it, and make two changes outside it that the check reads as     *)
(* changes within it: it may bring my-lib/x into lib, whose old name is    *)
(* read as lib/x, and change a file whose name has an arrow.               *)
EXTENDS WorkerGateway

MCEntries ==
  {<<"lib/new">>, <<"my-lib/x">>, <<"lib/x", "my-lib/x">>, <<"my -> lib/x">>}
MCUntracked == {<<"lib/new">>}
MCAllowed == {"lib/new", "lib/x"}
MCCut == [p \in {"my-lib/x"} |-> "lib/x"]
MCAfterArrow ==
  [p \in {"lib/new", "lib/x", "my-lib/x", "my -> lib/x"} |->
     IF p = "my -> lib/x" THEN "lib/x" ELSE p]
=============================================================================
