----------------------------- MODULE MCDualAgent -----------------------------
(* A job of class REVERSIBLE_WRITE with one retry, and one request for an  *)
(* effect that declares its compensation.                                  *)
EXTENDS DualAgent

MCBase ==
  {[scope |-> "tenant", effect |-> <<"effect">>, key |-> <<"key">>,
    digest |-> <<"d1">>, reversible |-> TRUE, disposition |-> "DECLARED"]}

MCDigests == {"x"}
MCAttemptIds == {"attempt-1"}
=============================================================================
