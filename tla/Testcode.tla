------------------------------ MODULE Testcode ------------------------------
(***************************************************************************)
(* The program testcode.c: Kruskal's algorithm, with a disjoint set of     *)
(* union by size and without path compression, on a generalized Petersen   *)
(* graph of 2N vertices and 3N edges.  nodes[e] is the parent of e, or,    *)
(* for the root of a tree, minus the size of the tree.                     *)
(***************************************************************************)
EXTENDS Integers, FiniteSets

CONSTANT Graphs  \* the pairs <<N, K>> the program is compiled with

ASSUME TestcodeAssumption ==
  \A g \in Graphs : g[1] \in Nat /\ g[2] \in Nat /\ 0 < g[2] /\ 2 * g[2] < g[1]

VARIABLES
  N, K,   \* the macros, 0 before the program is compiled
  nodes,  \* the disjoint set
  edge,   \* i in the loop over the edges, which counts down
  root    \* i after it: foo(nodes, K)

codeVars == <<N, K, nodes, edge, root>>

Elements == 0 .. 2 * N - 1

\* edges_head and edges_tail: the outer cycle, the spokes, the inner cycles.
Edge(e) ==
  CASE e < N -> <<e, (e + 1) % N>>
    [] N <= e /\ e < 2 * N -> <<e - N, e>>
    [] OTHER -> <<e - N, ((e - 2 * N + K) % N) + N>>

\* Mutated form: foo does not call itself.
FindParent(elem) == IF nodes[elem] < 0 THEN elem ELSE nodes[elem]
\* Find, which goes up to the root.
foo(elem) ==
  LET find[e \in Elements] == IF nodes[e] < 0 THEN e ELSE find[nodes[e]]
  IN  find[elem]

\* Mutated form: the larger tree goes below the smaller one.
LargerTree(a, b) == IF nodes[a] < nodes[b] THEN a ELSE b
\* The root that becomes a child: sizes are negative.
SmallerTree(a, b) == IF nodes[a] > nodes[b] THEN a ELSE b

Hooked(child, parent) == [nodes EXCEPT ![parent] = @ + nodes[child], ![child] = parent]

\* Union.
bar(a, b) ==
  LET child == SmallerTree(foo(a), foo(b))
      parent == IF child = foo(a) THEN foo(b) ELSE foo(a)
  IN  Hooked(child, parent)

CodeInit == N = 0 /\ K = 0 /\ nodes = <<>> /\ edge = -1 /\ root = -1

\* _start up to the loop over the edges.
FillArrays ==
  /\ N = 0
  /\ \E g \in Graphs :
       /\ N' = g[1] /\ K' = g[2]
       /\ nodes' = [e \in 0 .. 2 * N' - 1 |-> -1]
       /\ edge' = 3 * N' - 1
  /\ UNCHANGED root

\* One iteration of the loop over the edges.
ConsiderEdge ==
  /\ N > 0 /\ edge >= 0
  /\ LET head == Edge(edge)[1]
         tail == Edge(edge)[2]
     IN  nodes' = IF foo(head) # foo(tail) THEN bar(head, tail) ELSE nodes
  /\ edge' = edge - 1
  /\ UNCHANGED <<N, K, root>>

FindResult ==
  /\ N > 0 /\ edge < 0 /\ root < 0
  /\ root' = foo(K)
  /\ UNCHANGED <<N, K, nodes, edge>>

CodeNext == FillArrays \/ ConsiderEdge \/ FindResult

CodeSpec == CodeInit /\ [][CodeNext]_codeVars

-----------------------------------------------------------------------------
(* Properties.                                                             *)

\* Type invariant: parents are vertices, sizes are those of trees.
CodeTypeOK ==
  /\ nodes \in [Elements -> (-2 * N .. -1) \cup Elements]
  /\ edge \in -1 .. 3 * N - 1
  /\ root \in Elements \cup {-1}

\* The components of the graph of the edges considered so far, by merging the
\* classes each edge touches.
Merged(ends, classes) ==
  LET touched == {c \in classes : ends[1] \in c \/ ends[2] \in c}
  IN  (classes \ touched) \cup {UNION touched}
Components ==
  LET merged[k \in Nat] ==
        IF k = 0 THEN {{v} : v \in Elements} ELSE Merged(Edge(3 * N - k), merged[k - 1])
  IN  merged[3 * N - 1 - edge]

\* Two vertices have the same root exactly if the edges considered so far
\* connect them: foo and bar keep the components of the graph, and at the end
\* the one tree spans it.
ClassesAreComponents ==
  {{w \in Elements : foo(w) = foo(v)} : v \in Elements} = Components

PowerOfTwo(k) ==
  LET power[n \in Nat] == IF n = 0 THEN 1 ELSE 2 * power[n - 1] IN power[k]

\* foo is recursive, one stack frame for each edge up to the root.  Union by
\* size keeps that logarithmic, because a root holds the true size of its tree
\* after every union: a vertex d edges below its root is in a tree of at least
\* 2 ^ d vertices.
SearchIsShort ==
  LET depth[e \in Elements] == IF nodes[e] < 0 THEN 0 ELSE 1 + depth[nodes[e]]
  IN  \A v \in Elements :
        /\ -nodes[foo(v)] = Cardinality({w \in Elements : foo(w) = foo(v)})
        /\ PowerOfTwo(depth[v]) <= -nodes[foo(v)]
=============================================================================
