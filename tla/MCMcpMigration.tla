---------------------------- MODULE MCMcpMigration ----------------------------
(* Two mirrors of one source: one compared as JSON, one by its bytes and   *)
(* unknown to git.  Two contents differ in layout only.                    *)
EXTENDS McpMigration

Content(value, layout) == [value |-> value, layout |-> layout]

MCOrder == <<"json", "bytes">>
MCSources == {"source"}
MCSourceOf == [t \in {"json", "bytes"} |-> "source"]
MCTrees ==
  {[json |-> j, bytes |-> b, source |-> Content("a", 1)] :
      j \in {Content("a", 2), Content("b", 1)},
      b \in {Content("b", 1), Absent}}
MCContents == {Content("a", 1), Content("a", 2), Content("b", 1)}
=============================================================================
