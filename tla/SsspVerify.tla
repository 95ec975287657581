----------------------------- MODULE SsspVerify -----------------------------
(***************************************************************************)
(* section1/q2_sssp/verify.sh: the pipeline is run on a generated graph,   *)
(* then the oracle on the same graph, and their outputs are compared.      *)
(***************************************************************************)
EXTENDS Sssp, GenGraph

VARIABLES odist, pq, scan

Oracle == INSTANCE Dijkstra WITH dist <- odist

ovars == <<odist, pq, scan>>

VInit == Init /\ Oracle!Init

OracleStep ==
  /\ phase = "done" /\ Oracle!Next
  /\ UNCHANGED <<mode, phase, records, mapped, out, reduced, ndist, nflag, updated,
                 result, lost, round, walks>>

VNext == (Next /\ UNCHANGED ovars) \/ OracleStep

VSpec == VInit /\ [][VNext]_<<vars, ovars>>

\* Hadoop runs the tasks it has scheduled and loses map outputs at most MaxLost
\* times; the driver and the oracle go on until they end.
VFairSpec ==
  /\ VSpec
  /\ WF_<<vars, ovars>>((Prep \/ Driver \/ Final) /\ UNCHANGED ovars)
  /\ \A t \in Task : /\ WF_<<vars, ovars>>(MapTask(t) /\ UNCHANGED ovars)
                     /\ WF_<<vars, ovars>>(ReduceTask(t) /\ UNCHANGED ovars)
  /\ WF_<<vars, ovars>>(OracleStep)

Compared == phase = "done" /\ Oracle!Done

\* diff of the two outputs: on every graph, in either mode and however the
\* tasks fell, the pipeline prints what the oracle prints.
VerifyAgrees == Compared => result = odist

\* The comparison is reached: the driver's loop ends, and the oracle's.
VerifyEnds == <>Compared

-----------------------------------------------------------------------------
(***************************************************************************)
(* The inductive invariant of the oracle.                                  *)
(***************************************************************************)

\* Types; the oracle begins when the pipeline has ended, and only vertices that
\* it has reached are in the heap or scanned.
OracleOK ==
  /\ odist \in [Vertex -> Dist] /\ odist[0] = 0
  /\ pq \subseteq Nat \X Vertex /\ scan \subseteq edges
  /\ phase # "done" => odist = FirstDist
  /\ \A x \in pq : odist[x[2]] # INF /\ odist[x[2]] <= x[1]
  /\ \A e \in scan : odist[e.from] # INF

\* d gives a reached vertex's edge no more than its end has.
Short(d, e) == d[e.to] # INF /\ d[e.to] <= d[e.from] + e.weight

\* An edge of a reached vertex is relaxed, or it is about to be scanned, or its
\* vertex is in the heap with the distance it has now.
Pending ==
  \A e \in edges : odist[e.from] # INF =>
    Short(odist, e) \/ e \in scan \/ <<odist[e.from], e.from>> \in pq

\* What the oracle has found so far is never below what the pipeline printed.
NoneBelow ==
  phase = "done" =>
    \A v \in Vertex : odist[v] # INF => result[v] # INF /\ result[v] <= odist[v]

OInv == OracleOK /\ Pending /\ NoneBelow
=============================================================================
