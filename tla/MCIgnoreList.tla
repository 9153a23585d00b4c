---------------------------- MODULE MCIgnoreList ----------------------------
(* Small instances of IgnoreList. *)
EXTENDS IgnoreList

Rule(pat, neg, dir) == [kind |-> "rule", pat |-> pat, neg |-> neg, dir |-> dir]
MCContents ==
  {<<>>,
   <<Rule("all", FALSE, FALSE), Rule("one", TRUE, FALSE)>>,
   <<Rule("one", TRUE, FALSE), [Rule("one", FALSE, FALSE) EXCEPT !.kind = "comment"],
     Rule("all", FALSE, TRUE)>>}
MCPaths == {[name |-> "x", isdir |-> FALSE], [name |-> "x", isdir |-> TRUE], [name |-> "y", isdir |-> TRUE]}
MCMatches == {<<"all", "x">>, <<"all", "y">>, <<"one", "x">>}
=============================================================================
