---------------------------- MODULE MCEffectPlane ----------------------------
(* A request that declares a compensation, one of the same identity and    *)
(* one that names its effect and key for another request digest.           *)
EXTENDS EffectPlane, TLC

CONSTANTS x, y

Request(digest, disposition) ==
  [scope |-> "tenant", effect |-> <<"effect">>, key |-> <<"key">>,
   digest |-> <<digest>>, reversible |-> TRUE, disposition |-> disposition]

MCBase ==
  {Request("d1", "DECLARED"),
   Request("d1", "HUMAN_OWNED"),
   Request("d2", "HUMAN_OWNED")}

MCDigests == {x, y}
DigestsAreAlike == Permutations(MCDigests)
MCAttemptIds == {"attempt-1"}
=============================================================================
