-------------------------------- MODULE Sssp --------------------------------
(***************************************************************************)
(* Single-source shortest paths by iterated MapReduce, section1/q2_sssp:   *)
(* the prep job, one job per relaxation round, the driver's loop on the    *)
(* SSSP.UPDATED counter, and the final job.                                *)
(*                                                                         *)
(* A job has one map and one reduce task per element of Task: task t maps  *)
(* the records that reduce task t of the job before wrote.  The tasks of a *)
(* job run in any order, a combiner may or may not have been run on any    *)
(* key, and Hadoop may lose the output of a finished map and run it again. *)
(* Records are kept by vertex; the text format is left out, but not the    *)
(* encoding of infinity as -1.                                             *)
(***************************************************************************)
EXTENDS Integers, FiniteSets, FiniteSetsExt

CONSTANTS
  V,          \* number of vertices, from the header of the input
  Graphs,     \* edge sets that the input may have
  Modes,      \* values of --mode
  Task,       \* reducers, and hence mappers, of an iteration job
  Home,       \* the reducer of each vertex (the partitioner's choice)
  MaxLost     \* bound: map outputs that Hadoop loses in a run

Vertex == 0..(V - 1)
Edge   == [from : Vertex, to : Vertex, weight : Nat]
INF    == -1
Dist   == Nat \union {INF}

ASSUME GraphAssumption ==
  /\ V \in Nat \ {0}
  /\ \A g \in Graphs : \A e \in g : e \in Edge
ASSUME TaskAssumption ==
  /\ Home \in [Vertex -> Task]
  /\ Modes \subseteq {"frontier", "full"} /\ MaxLost \in Nat

VARIABLES
  edges, mode,     \* the input
  phase,           \* "prep", "job", "final" or "done"
  dist, flag,      \* the vertex records that the current job reads
  mapped, out,     \* finished map tasks; out[t][v]: candidates for v from task t
  reduced,         \* finished reduce tasks
  ndist, nflag,    \* the records they wrote
  updated,         \* the UPDATED counter of the job
  result,          \* the final job's output
  lost,            \* map outputs lost so far
  round,           \* iteration jobs run so far
  walks            \* history: <<v, length>> of all walks from 0 to v of at most
                   \* round edges

input   == <<edges, mode>>
records == <<dist, flag>>
vars == <<input, phase, records, mapped, out, reduced, ndist, nflag, updated,
          result, lost, round, walks>>

-----------------------------------------------------------------------------
NoCandidates == [v \in Vertex |-> {}]
FirstDist == [v \in Vertex |-> IF v = 0 THEN 0 ELSE INF]

Init ==
  /\ edges \in Graphs /\ mode \in Modes
  /\ phase = "prep"
  /\ dist = FirstDist /\ flag = [v \in Vertex |-> FALSE]
  /\ mapped = {} /\ out = [t \in Task |-> NoCandidates]
  /\ reduced = {} /\ ndist = FirstDist /\ nflag = [v \in Vertex |-> FALSE]
  /\ updated = 0 /\ lost = 0 /\ round = 0
  /\ result = FirstDist
  /\ walks = {<<0, 0>>}

\* The prep job: every vertex gets a record, 0 alone is reached and flagged.
Prep ==
  /\ phase = "prep"
  /\ dist' = FirstDist
  /\ flag' = [v \in Vertex |-> v = 0]
  /\ phase' = "job"
  /\ UNCHANGED <<input, mapped, out, reduced, ndist, nflag, updated, result, lost,
                 round, walks>>

\* The vertices that push: reached, and on the frontier unless mode is full.
Pushes(v) == dist[v] # INF /\ (mode = "full" \/ flag[v])

\* What map task t emits for v.
Emitted(t, v) ==
  {dist[e.from] + e.weight :
     e \in {f \in edges : f.to = v /\ Home[f.from] = t /\ Pushes(f.from)}}

MapTaskIf(t, allowed) ==
  /\ phase = "job" /\ t \notin mapped /\ allowed
  /\ \E combined \in SUBSET {v \in Vertex : Cardinality(Emitted(t, v)) > 1} :
       out' = [out EXCEPT ![t] = [v \in Vertex |->
                 IF v \in combined THEN {Min(Emitted(t, v))} ELSE Emitted(t, v)]]
  /\ mapped' = mapped \union {t}
  /\ UNCHANGED <<input, phase, records, reduced, ndist, nflag, updated, result,
                 lost, round, walks>>

\* Mutant: no map is run again once a reduce task has finished.
MapTaskEarly(t) == MapTaskIf(t, reduced = {})

\* A map task runs; for the keys in some set the combiner has run too.
MapTask(t) == MapTaskIf(t, TRUE)

\* The node that held a finished map's output dies: the map is run again.
MapLost(t) ==
  /\ phase = "job" /\ t \in mapped /\ reduced # Task /\ lost < MaxLost
  /\ mapped' = mapped \ {t}
  /\ out' = [out EXCEPT ![t] = NoCandidates]
  /\ lost' = lost + 1
  /\ UNCHANGED <<input, phase, records, reduced, ndist, nflag, updated, result,
                 round, walks>>

Candidates(v) == UNION {out[t][v] : t \in Task}

\* Mutant: the first candidate does not count.
ImprovedReached(v) ==
  Candidates(v) # {} /\ dist[v] # INF /\ Min(Candidates(v)) < dist[v]

\* The best candidate is better than the record's distance.
Improved(v) ==
  Candidates(v) # {} /\ (dist[v] = INF \/ Min(Candidates(v)) < dist[v])

\* Mutant: the flag of the record is passed through.
NewFlagOld(v) == flag[v]

NewFlag(v) == Improved(v)

\* Mutant: the counters of the tasks are not added up.
CountedLast(t) == Cardinality({v \in Vertex : Home[v] = t /\ Improved(v)})

\* The counter after task t: one more for each of its vertices that improved.
Counted(t) == updated + Cardinality({v \in Vertex : Home[v] = t /\ Improved(v)})

\* A reduce task runs, with the output of every map.
ReduceTask(t) ==
  /\ phase = "job" /\ mapped = Task /\ t \notin reduced
  /\ ndist' = [v \in Vertex |->
       IF Home[v] # t THEN ndist[v]
       ELSE IF Improved(v) THEN Min(Candidates(v)) ELSE dist[v]]
  /\ nflag' = [v \in Vertex |-> IF Home[v] = t THEN NewFlag(v) ELSE nflag[v]]
  /\ updated' = Counted(t)
  /\ reduced' = reduced \union {t}
  /\ UNCHANGED <<input, phase, records, mapped, out, result, lost, round, walks>>

\* Every job has its own counters.
FreshCounter == 0

\* History: the walks with one edge more.
Longer == {<<p[1].to, p[2][2] + p[1].weight>> :
             p \in {q \in edges \X walks : q[1].from = q[2][1]}}

\* The job is over: its output is the next one's input, and the loop ends if
\* the counter is zero.
Driver ==
  /\ phase = "job" /\ reduced = Task
  /\ dist' = ndist /\ flag' = nflag
  /\ mapped' = {} /\ reduced' = {} /\ out' = [t \in Task |-> NoCandidates]
  /\ updated' = FreshCounter
  /\ phase' = IF updated = 0 THEN "final" ELSE "job"
  /\ round' = round + 1
  /\ walks' = walks \union Longer
  /\ UNCHANGED <<input, ndist, nflag, result, lost>>

\* The final job formats and sorts the records.
Final ==
  /\ phase = "final"
  /\ result' = dist
  /\ phase' = "done"
  /\ UNCHANGED <<input, records, mapped, out, reduced, ndist, nflag, updated, lost,
                 round, walks>>

Next ==
  \/ Prep
  \/ \E t \in Task : MapTask(t) \/ MapLost(t) \/ ReduceTask(t)
  \/ Driver
  \/ Final

Spec == Init /\ [][Next]_vars

-----------------------------------------------------------------------------
(***************************************************************************)
(* Properties.                                                             *)
(***************************************************************************)

\* Every variable has its type; no candidate is ever the encoding of infinity.
TypeOK ==
  /\ edges \in Graphs /\ mode \in Modes
  /\ phase \in {"prep", "job", "final", "done"}
  /\ dist \in [Vertex -> Dist] /\ flag \in [Vertex -> BOOLEAN]
  /\ mapped \subseteq Task /\ reduced \subseteq Task
  /\ out \in [Task -> [Vertex -> SUBSET Nat]]
  /\ ndist \in [Vertex -> Dist] /\ nflag \in [Vertex -> BOOLEAN]
  /\ updated \in Nat /\ lost \in Nat /\ round \in Nat
  /\ result \in [Vertex -> Dist]
  /\ walks \subseteq Vertex \X Nat

\* d gives every vertex the least length among the walks in ws, or infinity.
LeastOf(d, ws) ==
  \A v \in Vertex :
    /\ d[v] # INF => <<v, d[v]>> \in ws
    /\ \A x \in ws : x[1] = v => d[v] # INF /\ d[v] <= x[2]

\* After every round, in either mode and however the tasks, combiners and
\* re-executions fell, each distance is exactly the least over the walks of at
\* most that many edges.
RoundExact == LeastOf(dist, walks)

\* The frontier invariant: an edge whose source is reached and has nothing
\* more to push is relaxed.
EdgesRelaxed ==
  phase \in {"job", "final", "done"} =>
    \A e \in edges :
      dist[e.from] # INF /\ ~flag[e.from] =>
        dist[e.to] # INF /\ dist[e.to] <= dist[e.from] + e.weight

\* What is printed are the shortest distances: each is the length of a walk,
\* and no edge can shorten any (so no longer walk can).
ResultShortest ==
  phase = "done" =>
    /\ LeastOf(result, walks)
    /\ \A e \in edges : result[e.from] # INF =>
         result[e.to] # INF /\ result[e.to] <= result[e.from] + e.weight

\* A distance never rises again, and a reached vertex stays reached.
DistancesFall ==
  [][\A v \in Vertex : dist[v] # INF => dist'[v] # INF /\ dist'[v] <= dist[v]]_vars

-----------------------------------------------------------------------------
(***************************************************************************)
(* The inductive invariant behind them.                                    *)
(***************************************************************************)

\* All that is emitted for v in the current job.
Arrivals(v) ==
  {dist[e.from] + e.weight : e \in {f \in edges : f.to = v /\ Pushes(f.from)}}

\* A finished map's output is part of what it had to emit, with a least
\* element of it; an unfinished one's is empty.
MapsDone ==
  \A t \in Task, v \in Vertex :
    /\ t \notin mapped => out[t][v] = {}
    /\ t \in mapped =>
         /\ out[t][v] \subseteq Emitted(t, v)
         /\ \A a \in Emitted(t, v) : \E b \in out[t][v] : b <= a

\* The new record of v is right.
Relaxed(v) ==
  /\ nflag[v] => ndist[v] \in Arrivals(v) /\ (dist[v] = INF \/ ndist[v] < dist[v])
  /\ ~nflag[v] => ndist[v] = dist[v]
  /\ \A a \in Arrivals(v) : ndist[v] # INF /\ ndist[v] <= a

ReducesDone ==
  \A v \in Vertex : Home[v] \in reduced => Relaxed(v) /\ (updated = 0 => ~nflag[v])

\* Between jobs nothing is left over; after the last one no flag is set.
Stages ==
  /\ phase = "prep" => dist = FirstDist
  /\ phase # "job" => mapped = {} /\ reduced = {}
  /\ phase \in {"final", "done"} => \A v \in Vertex : ~flag[v]
  /\ phase = "done" => result = dist

IInv ==
  TypeOK /\ RoundExact /\ EdgesRelaxed /\ MapsDone /\ ReducesDone /\ Stages

=============================================================================
