----------------------------- MODULE ExamplesMC -----------------------------
(* Instances of Examples for TLC: every small graph, and the program's own.  *)
EXTENDS Examples

CheckedGraphs == {g \in (3 .. 10) \X (1 .. 4) : 2 * g[2] < g[1]} \cup {<<80, 37>>}
=============================================================================
