------------------------------ MODULE Dijkstra ------------------------------
(***************************************************************************)
(* The oracle section1/q2_sssp/oracle.py: Dijkstra's algorithm with a heap *)
(* from which outdated entries are not removed.  The edges of a vertex are *)
(* scanned in the order of the input, which is any order.                  *)
(***************************************************************************)
EXTENDS Integers, FiniteSets

CONSTANT V
VARIABLES edges, dist, pq, scan

Vertex == 0..(V - 1)
INF    == -1   \* written for float("inf")

ovars == <<dist, pq, scan>>

Init ==
  /\ dist = [v \in Vertex |-> IF v = 0 THEN 0 ELSE INF]
  /\ pq = {<<0, 0>>}
  /\ scan = {}

\* The adjacency list of u: one entry per line of the input, in any order.
Adj(u) == {e \in edges : e.from = u}

\* The least entry, ties by vertex, as tuples compare.
Least == CHOOSE x \in pq : \A y \in pq : x[1] < y[1] \/ (x[1] = y[1] /\ x[2] <= y[2])

\* heappop: an outdated entry is passed over, else the vertex is scanned.
Pop ==
  /\ scan = {} /\ pq # {}
  /\ pq' = pq \ {Least}
  /\ \/ /\ Least[1] > dist[Least[2]]
        /\ UNCHANGED scan
     \/ /\ Least[1] <= dist[Least[2]]
        /\ scan' = Adj(Least[2])
  /\ UNCHANGED <<edges, dist>>

\* Mutant: a vertex that has a distance keeps it.
FirstCome(d, v) == dist[v] = INF

Shorter(d, v) == dist[v] = INF \/ d < dist[v]

\* One edge of the vertex being scanned.
Relax(e) ==
  LET d == dist[e.from] + e.weight IN
  /\ e \in scan
  /\ IF Shorter(d, e.to)
     THEN dist' = [dist EXCEPT ![e.to] = d] /\ pq' = pq \union {<<d, e.to>>}
     ELSE UNCHANGED <<dist, pq>>
  /\ scan' = scan \ {e}
  /\ UNCHANGED edges

\* The heap is empty: the distances are printed.
Done == pq = {} /\ scan = {}

Next == Pop \/ \E e \in edges : Relax(e)

=============================================================================
