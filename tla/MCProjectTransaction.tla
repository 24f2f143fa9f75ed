------------------------ MODULE MCProjectTransaction ------------------------
(***************************************************************************)
(* A small instance of ProjectTransaction: a remote release and an         *)
(* embedded one, which share a file and own one of their own each, the one *)
(* of the remote release being executable.                                 *)
(***************************************************************************)
EXTENDS ProjectTransaction

CONSTANTS remote, embedded, own

MCReleases == {remote, embedded}
MCContents == {remote, embedded, own}
MCEmbedded == {embedded}
MCExecutables == {2}

MCGenerates ==
    [ r \in MCReleases |->
        [ p \in 1..3 |-> IF p = (IF r = remote THEN 3 ELSE 2) THEN Absent ELSE r ] ]
=============================================================================
