------------------------------- MODULE MCSssp -------------------------------
(***************************************************************************)
(* Instances of SsspVerify for TLC: which graphs are the input.            *)
(***************************************************************************)
EXTENDS SsspVerify

E(u, v, w) == [from |-> u, to |-> v, weight |-> w]

\* All graphs on three vertices with at most one edge for each ordered pair,
\* none from 2 to 0 (a walk back to the source is had through 1); vertex 3 is
\* out of reach.
Pairs == {p \in (0..2) \X (0..2) : p[1] # p[2] /\ p # <<2, 0>>}
AllGraphs(Weights) ==
  {{E(p[1], p[2], f[p]) : p \in {q \in Pairs : f[q] # INF}} :
     f \in [Pairs -> Weights \union {INF}]}

\* Longer paths that are shorter, multi-edges, a self-loop, a cycle, a vertex
\* that cannot be reached and a source without edges, as in tests/.
TestGraphs ==
  { {E(0, 1, 5), E(0, 2, 2), E(2, 1, 1), E(1, 3, 4)},
    {E(0, 1, 9), E(0, 2, 1), E(2, 3, 1), E(3, 1, 1)},
    {E(0, 1, 9), E(0, 1, 3), E(1, 1, 4), E(1, 2, 2), E(2, 3, 1)},
    {E(0, 1, 2), E(1, 2, 3), E(3, 2, 1), E(2, 0, 1)},
    {E(1, 2, 5)} }

\* What gen_graph.py may write with four vertices, weights of 1 or 3: a chain
\* with a vertex cut off and one more edge, layers with one more edge, a star.
GenGraphs ==
  Generated("chain", V, Reachable(V, 0), 3, {1, 3}) \union
  Generated("chain", V, Reachable(V, 1), 3, {1, 3}) \union
  Generated("star", V, Reachable(V, 0), 3, {1, 3}) \union
  Generated("layered", V, Reachable(V, 0), 3, {1, 3}) \union
  Generated("random", V, Reachable(V, 3), 3, {1})

MCGraphs == AllGraphs({0, 2}) \union TestGraphs \union GenGraphs

\* Vertices are spread over two reducers.
MCHome == [v \in Vertex |-> v % 2]
=============================================================================
