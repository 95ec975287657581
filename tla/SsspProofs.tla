----------------------------- MODULE SsspProofs -----------------------------
(***************************************************************************)
(* For every graph, either mode, any number of tasks and any partition,    *)
(* order, use of the combiner and re-execution: the distances after each   *)
(* round are exact, and the result is the shortest distances.  The oracle  *)
(* that verify.sh compares it with prints the same.                        *)
(***************************************************************************)
EXTENDS SsspVerify, FiniteSetTheorems, WellFoundedInduction, TLAPS

(***************************************************************************)
(* Operators.                                                              *)
(***************************************************************************)

\* A set of naturals that is not empty has a least element, and Min is it.
LEMMA MinNat ==
  ASSUME NEW S \in SUBSET Nat, S # {}
  PROVE  Min(S) \in S /\ \A y \in S : Min(S) <= y
<1>1. \E x \in S : \A y \in S : ~ (<<y, x>> \in OpToRel(<, Nat))
  BY NatLessThanWellFounded, WFMin
<1>2. \E x \in S : \A y \in S : x <= y
  <2>1. PICK x \in S : \A y \in S : ~ (<<y, x>> \in OpToRel(<, Nat))
    BY <1>1
  <2>2. ASSUME NEW y \in S, y < x PROVE FALSE
    <3>1. <<y, x>> \in Nat \X Nat
      OBVIOUS
    <3>2. <<y, x>> \in OpToRel(<, Nat)
      BY <2>2, <3>1 DEF OpToRel
    <3> QED
      BY <2>1, <3>2
  <2>3. \A y \in S : x <= y
    BY <2>2
  <2> QED
    BY <2>3
<1> QED
  BY <1>2 DEF Min

\* Sets of vertices are finite.
LEMMA VerticesFinite ==
  ASSUME NEW S \in SUBSET Vertex
  PROVE  IsFiniteSet(S) /\ Cardinality(S) \in Nat /\ (Cardinality(S) = 0 => S = {})
<1>1. IsFiniteSet(Vertex)
  BY GraphAssumption, FS_Interval DEF Vertex
<1> QED
  BY <1>1, FS_Subset, FS_EmptySet, FS_CardinalityType

\* What is emitted for a vertex are lengths.
LEMMA EmittedNat ==
  ASSUME TypeOK, NEW v \in Vertex
  PROVE  /\ Arrivals(v) \subseteq Nat
         /\ \A t \in Task : Emitted(t, v) \subseteq Arrivals(v)
         /\ \A a \in Arrivals(v) : \E t \in Task : a \in Emitted(t, v)
<1>1. \A e \in edges : e.from \in Vertex /\ e.weight \in Nat /\ Home[e.from] \in Task
  BY GraphAssumption, TaskAssumption DEF TypeOK, Edge
<1>2. \A e \in edges : Pushes(e.from) => dist[e.from] + e.weight \in Nat
  BY <1>1 DEF Pushes, TypeOK, Dist, INF
<1> QED
  BY <1>1, <1>2 DEF Arrivals, Emitted

(***************************************************************************)
(* The steps.                                                              *)
(***************************************************************************)

LEMMA TypeStep == TypeOK /\ [Next]_vars => TypeOK'
<1> SUFFICES ASSUME TypeOK, [Next]_vars PROVE TypeOK'
  OBVIOUS
<1>0. FirstDist \in [Vertex -> Dist] /\ NoCandidates \in [Vertex -> SUBSET Nat]
  BY GraphAssumption DEF FirstDist, NoCandidates, Dist, INF
<1>1. CASE Prep
  BY <1>0, <1>1 DEF TypeOK, Prep, input
<1>2. ASSUME NEW t \in Task, MapTask(t) PROVE TypeOK'
  <2>1. \A v \in Vertex : Emitted(t, v) \in SUBSET Nat
    BY EmittedNat
  <2>2. \A v \in Vertex : Cardinality(Emitted(t, v)) > 1 => Emitted(t, v) # {}
    BY FS_EmptySet
  <2>3. \A v \in Vertex : Emitted(t, v) # {} => Min(Emitted(t, v)) \in Nat
    BY <2>1, MinNat
  <2>4. out' \in [Task -> [Vertex -> SUBSET Nat]]
    BY <1>2, <2>1, <2>2, <2>3 DEF MapTask, MapTaskIf, TypeOK
  <2> QED
    BY <1>2, <2>4 DEF TypeOK, MapTask, MapTaskIf, input, records
<1>3. ASSUME NEW t \in Task, MapLost(t) PROVE TypeOK'
  BY <1>0, <1>3 DEF TypeOK, MapLost, input, records
<1>4. ASSUME NEW t \in Task, ReduceTask(t) PROVE TypeOK'
  <2>1. \A v \in Vertex : Candidates(v) \in SUBSET Nat
    BY DEF TypeOK, Candidates
  <2>2. \A v \in Vertex : Improved(v) => Min(Candidates(v)) \in Nat
    BY <2>1, MinNat DEF Improved
  <2>3. ndist' \in [Vertex -> Dist]
    BY <1>4, <2>2 DEF ReduceTask, TypeOK, Dist
  <2>4. \A v \in Vertex : Improved(v) \in BOOLEAN
    BY DEF Improved
  <2>5. nflag' \in [Vertex -> BOOLEAN]
    BY <1>4, <2>4 DEF ReduceTask, NewFlag, TypeOK
  <2>6. updated' \in Nat
    BY <1>4, VerticesFinite DEF ReduceTask, Counted, TypeOK
  <2> QED
    BY <1>4, <2>3, <2>5, <2>6 DEF ReduceTask, TypeOK, input, records
<1>5. CASE Driver
  <2>1. walks' \subseteq Vertex \X Nat
    <3>1. \A e \in edges : e.to \in Vertex /\ e.weight \in Nat
      BY GraphAssumption DEF TypeOK, Edge
    <3>2. Longer \subseteq Vertex \X Nat
      BY <3>1 DEF Longer, TypeOK
    <3> QED
      BY <1>5, <3>2 DEF Driver, TypeOK
  <2>2. out' \in [Task -> [Vertex -> SUBSET Nat]]
    BY <1>0, <1>5 DEF Driver
  <2> QED
    BY <1>5, <2>1, <2>2 DEF Driver, TypeOK, input, FreshCounter
<1>6. CASE Final
  BY <1>6 DEF TypeOK, Final, input, records
<1>7. CASE UNCHANGED vars
  BY <1>7 DEF TypeOK, vars, input, records
<1> QED
  BY <1>1, <1>2, <1>3, <1>4, <1>5, <1>6, <1>7 DEF Next

\* What a task emits and what arrives depend on the input and the job's records.
LEMMA EmittedFrame ==
  ASSUME UNCHANGED <<edges, mode, dist, flag>>
  PROVE  /\ \A t, v : Emitted(t, v)' = Emitted(t, v)
         /\ \A v : Arrivals(v)' = Arrivals(v)
  BY DEF Emitted, Arrivals, Pushes

LEMMA MapsStep == TypeOK /\ MapsDone /\ Stages /\ [Next]_vars => MapsDone'
<1> SUFFICES ASSUME TypeOK, MapsDone, Stages, [Next]_vars PROVE MapsDone'
  OBVIOUS
<1>1. CASE Prep
  BY <1>1 DEF Prep, Stages, MapsDone
<1>2. ASSUME NEW t \in Task, MapTask(t) PROVE MapsDone'
  <2>1. UNCHANGED <<edges, mode, dist, flag>>
    BY <1>2 DEF MapTask, MapTaskIf, input, records
  <2>2. ASSUME NEW u \in Task, NEW v \in Vertex, u # t
        PROVE  /\ u \notin mapped' => out'[u][v] = {}
               /\ u \in mapped' =>
                    /\ out'[u][v] \subseteq Emitted(u, v)
                    /\ \A a \in Emitted(u, v) : \E b \in out'[u][v] : b <= a
    BY <1>2, <2>2 DEF MapTask, MapTaskIf, MapsDone, TypeOK
  <2>3. ASSUME NEW v \in Vertex
        PROVE  /\ out'[t][v] \subseteq Emitted(t, v)
               /\ \A a \in Emitted(t, v) : \E b \in out'[t][v] : b <= a
    <3>1. Emitted(t, v) \in SUBSET Nat
      BY EmittedNat
    <3>2. Cardinality(Emitted(t, v)) > 1 => Emitted(t, v) # {}
      BY FS_EmptySet
    <3>3. \/ out'[t][v] = Emitted(t, v)
          \/ Emitted(t, v) # {} /\ out'[t][v] = {Min(Emitted(t, v))}
      BY <1>2, <3>2 DEF MapTask, MapTaskIf, TypeOK
    <3>4. CASE out'[t][v] = Emitted(t, v)
      BY <3>1, <3>4
    <3>5. CASE Emitted(t, v) # {} /\ out'[t][v] = {Min(Emitted(t, v))}
      BY <3>1, <3>5, MinNat
    <3> QED
      BY <3>3, <3>4, <3>5
  <2>4. mapped' = mapped \union {t}
    BY <1>2 DEF MapTask, MapTaskIf
  <2>5. \A u, v : Emitted(u, v)' = Emitted(u, v)
    BY <2>1, EmittedFrame
  <2> QED
    BY <2>2, <2>3, <2>4, <2>5 DEF MapsDone
<1>3. ASSUME NEW t \in Task, MapLost(t) PROVE MapsDone'
  <2>1. \A u, v : Emitted(u, v)' = Emitted(u, v)
    BY <1>3, EmittedFrame DEF MapLost, input, records
  <2> QED
    BY <1>3, <2>1 DEF MapLost, MapsDone, TypeOK, NoCandidates
<1>4. ASSUME NEW t \in Task, ReduceTask(t) PROVE MapsDone'
  <2>1. \A u, v : Emitted(u, v)' = Emitted(u, v)
    BY <1>4, EmittedFrame DEF ReduceTask, input, records
  <2> QED
    BY <1>4, <2>1 DEF ReduceTask, MapsDone
<1>5. CASE Driver
  BY <1>5 DEF Driver, MapsDone, NoCandidates
<1>6. CASE Final
  <2>1. \A u, v : Emitted(u, v)' = Emitted(u, v)
    BY <1>6, EmittedFrame DEF Final, input, records
  <2> QED
    BY <1>6, <2>1 DEF Final, MapsDone
<1>7. CASE UNCHANGED vars
  <2>1. \A u, v : Emitted(u, v)' = Emitted(u, v)
    BY <1>7, EmittedFrame DEF vars, input, records
  <2> QED
    BY <1>7, <2>1 DEF vars, MapsDone
<1> QED
  BY <1>1, <1>2, <1>3, <1>4, <1>5, <1>6, <1>7 DEF Next

\* When all maps have finished, the best candidate is the best of what had to
\* be emitted, whichever combiners ran.
LEMMA CandidatesComplete ==
  ASSUME TypeOK, MapsDone, mapped = Task, NEW v \in Vertex
  PROVE  /\ Candidates(v) \subseteq Arrivals(v)
         /\ \A a \in Arrivals(v) : \E b \in Candidates(v) : b <= a
<1>1. \A t \in Task : /\ out[t][v] \subseteq Emitted(t, v)
                      /\ \A a \in Emitted(t, v) : \E b \in out[t][v] : b <= a
  BY DEF MapsDone
<1>2. \A t \in Task : out[t][v] \subseteq Arrivals(v)
  BY <1>1, EmittedNat
<1>3. \A a \in Arrivals(v) : \E t \in Task : \E b \in out[t][v] : b <= a
  BY <1>1, EmittedNat
<1> QED
  BY <1>2, <1>3 DEF Candidates

LEMMA ReducesStep ==
  TypeOK /\ MapsDone /\ ReducesDone /\ Stages /\ [Next]_vars => ReducesDone'
<1> SUFFICES ASSUME TypeOK, MapsDone, ReducesDone, Stages, [Next]_vars
             PROVE  ReducesDone'
  OBVIOUS
<1>0. ASSUME UNCHANGED <<edges, mode, dist, flag, ndist, nflag, reduced, updated>>
      PROVE  ReducesDone'
  <2>1. \A v : Arrivals(v)' = Arrivals(v)
    BY <1>0, EmittedFrame
  <2> QED
    BY <1>0, <2>1 DEF ReducesDone, Relaxed
<1>1. CASE Prep
  BY <1>1 DEF Prep, Stages, ReducesDone
<1>2. ASSUME NEW t \in Task, MapTask(t) PROVE ReducesDone'
  BY <1>0, <1>2 DEF MapTask, MapTaskIf, input, records
<1>3. ASSUME NEW t \in Task, MapLost(t) PROVE ReducesDone'
  BY <1>0, <1>3 DEF MapLost, input, records
<1>4. ASSUME NEW t \in Task, ReduceTask(t) PROVE ReducesDone'
  <2>1. /\ \A v : Arrivals(v)' = Arrivals(v)
        /\ dist' = dist
    BY <1>4, EmittedFrame DEF ReduceTask, input, records
  <2> DEFINE Better == {v \in Vertex : Home[v] = t /\ Improved(v)}
  <2>2. /\ Cardinality(Better) \in Nat
        /\ Cardinality(Better) = 0 => Better = {}
    <3> Better \in SUBSET Vertex
      OBVIOUS
    <3> QED
      BY VerticesFinite
  <2>3. updated' = 0 => updated = 0 /\ \A v \in Vertex : Home[v] = t => ~Improved(v)
    <3>1. updated' = updated + Cardinality(Better)
      BY <1>4 DEF ReduceTask, Counted
    <3>2. updated' = 0 => updated = 0 /\ Better = {}
      <4> HIDE DEF Better
      <4> QED
        BY <2>2, <3>1 DEF TypeOK
    <3> QED
      BY <3>2
  <2>4. ASSUME NEW v \in Vertex, Home[v] # t, Home[v] \in reduced'
        PROVE  Relaxed(v)' /\ (updated' = 0 => ~nflag'[v])
    <3>1. ndist'[v] = ndist[v] /\ nflag'[v] = nflag[v] /\ Home[v] \in reduced
      BY <1>4, <2>4 DEF ReduceTask
    <3> QED
      BY <2>1, <2>3, <3>1 DEF ReducesDone, Relaxed
  <2>5. ASSUME NEW v \in Vertex, Home[v] = t
        PROVE  Relaxed(v)' /\ (updated' = 0 => ~nflag'[v])
    <3>1. /\ ndist'[v] = IF Improved(v) THEN Min(Candidates(v)) ELSE dist[v]
          /\ nflag'[v] = Improved(v)
      BY <1>4, <2>5 DEF ReduceTask, NewFlag
    <3>2. /\ Candidates(v) \subseteq Arrivals(v)
          /\ \A a \in Arrivals(v) : \E b \in Candidates(v) : b <= a
          /\ Arrivals(v) \subseteq Nat
      BY <1>4, CandidatesComplete, EmittedNat DEF ReduceTask
    <3>3. Candidates(v) # {} =>
            /\ Min(Candidates(v)) \in Candidates(v)
            /\ \A b \in Candidates(v) : Min(Candidates(v)) <= b
      <4>1. Candidates(v) \in SUBSET Nat
        BY <3>2
      <4> QED
        BY <4>1, MinNat
    <3>4. Candidates(v) # {} =>
            /\ Min(Candidates(v)) \in Arrivals(v)
            /\ Min(Candidates(v)) \in Nat
            /\ \A a \in Arrivals(v) : Min(Candidates(v)) <= a
      BY <3>2, <3>3
    <3>5. dist[v] \in Nat \/ dist[v] = INF
      BY DEF TypeOK, Dist
    <3>6. CASE Improved(v)
      <4>1. /\ ndist'[v] \in Arrivals(v)
            /\ dist[v] = INF \/ ndist'[v] < dist[v]
            /\ \A a \in Arrivals(v) : ndist'[v] # INF /\ ndist'[v] <= a
        BY <3>1, <3>4, <3>6 DEF Improved, INF
      <4> QED
        BY <2>1, <2>3, <2>5, <3>1, <3>6, <4>1 DEF Relaxed
    <3>7. CASE ~Improved(v)
      <4>1. \A a \in Arrivals(v) : dist[v] # INF /\ dist[v] <= a
        BY <3>2, <3>4, <3>5, <3>7 DEF Improved, INF
      <4> QED
        BY <2>1, <3>1, <3>7, <4>1 DEF Relaxed
    <3> QED
      BY <3>6, <3>7
  <2> QED
    BY <2>4, <2>5 DEF ReducesDone
<1>5. CASE Driver
  BY <1>5 DEF Driver, ReducesDone
<1>6. CASE Final
  BY <1>0, <1>6 DEF Final, input, records
<1>7. CASE UNCHANGED vars
  BY <1>0, <1>7 DEF vars, input, records
<1> QED
  BY <1>1, <1>2, <1>3, <1>4, <1>5, <1>6, <1>7 DEF Next

\* What the records of a finished job are worth: no distance has risen, and
\* every edge from a vertex that the job before had reached is relaxed.
LEMMA JobDone ==
  ASSUME TypeOK, EdgesRelaxed, ReducesDone, phase = "job", reduced = Task
  PROVE  /\ \A v \in Vertex : Relaxed(v)
         /\ \A v \in Vertex : dist[v] # INF => ndist[v] # INF /\ ndist[v] <= dist[v]
         /\ \A e \in edges : dist[e.from] # INF =>
              ndist[e.to] # INF /\ ndist[e.to] <= dist[e.from] + e.weight
<1>1. \A v \in Vertex : Relaxed(v)
  BY TaskAssumption DEF ReducesDone
<1>2. ASSUME NEW v \in Vertex, dist[v] # INF
      PROVE  ndist[v] # INF /\ ndist[v] <= dist[v]
  <2>1. dist[v] \in Nat /\ ndist[v] \in Dist
    BY <1>2 DEF TypeOK, Dist
  <2>2. CASE nflag[v]
    <3>1. ndist[v] \in Nat /\ ndist[v] < dist[v]
      BY <1>1, <1>2, <2>2, EmittedNat DEF Relaxed
    <3> QED
      BY <2>1, <3>1 DEF INF
  <2>3. CASE ~nflag[v]
    BY <1>1, <1>2, <2>1, <2>3 DEF Relaxed
  <2> QED
    BY <2>2, <2>3
<1>3. ASSUME NEW e \in edges, dist[e.from] # INF
      PROVE  ndist[e.to] # INF /\ ndist[e.to] <= dist[e.from] + e.weight
  <2>1. e.from \in Vertex /\ e.to \in Vertex /\ e.weight \in Nat
    BY GraphAssumption DEF TypeOK, Edge
  <2>2. CASE Pushes(e.from)
    <3>1. dist[e.from] + e.weight \in Arrivals(e.to)
      BY <2>2 DEF Arrivals
    <3> QED
      BY <1>1, <2>1, <3>1 DEF Relaxed
  <2>3. CASE ~Pushes(e.from)
    <3>1. ~flag[e.from]
      BY <1>3, <2>3 DEF Pushes
    <3>2. dist[e.to] # INF /\ dist[e.to] <= dist[e.from] + e.weight
      BY <1>3, <3>1 DEF EdgesRelaxed
    <3>3. ndist[e.to] # INF /\ ndist[e.to] <= dist[e.to]
      BY <1>2, <2>1, <3>2
    <3>4. dist[e.from] \in Nat /\ dist[e.to] \in Nat /\ ndist[e.to] \in Nat
      BY <1>3, <2>1, <3>2, <3>3 DEF TypeOK, Dist
    <3> QED
      BY <2>1, <3>2, <3>3, <3>4
  <2> QED
    BY <2>2, <2>3
<1> QED
  BY <1>1, <1>2, <1>3

LEMMA RelaxedStep ==
  TypeOK /\ EdgesRelaxed /\ ReducesDone /\ Stages /\ [Next]_vars => EdgesRelaxed'
<1> SUFFICES ASSUME TypeOK, EdgesRelaxed, ReducesDone, Stages, [Next]_vars
             PROVE  EdgesRelaxed'
  OBVIOUS
<1>1. CASE Prep
  <2>1. \A e \in edges : e.from \in Vertex
    BY GraphAssumption DEF TypeOK, Edge
  <2> QED
    BY <1>1, <2>1 DEF Prep, EdgesRelaxed, FirstDist, input
<1>2. ASSUME NEW t \in Task, MapTask(t) \/ MapLost(t) \/ ReduceTask(t)
      PROVE  EdgesRelaxed'
  BY <1>2 DEF MapTask, MapTaskIf, MapLost, ReduceTask, EdgesRelaxed, input, records
<1>3. CASE Driver
  <2>1. ASSUME NEW e \in edges, ndist[e.from] # INF, ~nflag[e.from]
        PROVE  ndist[e.to] # INF /\ ndist[e.to] <= ndist[e.from] + e.weight
    <3>1. e.from \in Vertex
      BY GraphAssumption DEF TypeOK, Edge
    <3>2. ndist[e.from] = dist[e.from]
      BY <1>3, <2>1, <3>1, JobDone DEF Driver, Relaxed
    <3> QED
      BY <1>3, <2>1, <3>2, JobDone DEF Driver
  <2> QED
    BY <1>3, <2>1 DEF Driver, EdgesRelaxed, input
<1>4. CASE Final
  BY <1>4 DEF Final, EdgesRelaxed, input, records
<1>5. CASE UNCHANGED vars
  BY <1>5 DEF vars, EdgesRelaxed, input, records
<1> QED
  BY <1>1, <1>2, <1>3, <1>4, <1>5 DEF Next

LEMMA ExactStep ==
  TypeOK /\ RoundExact /\ EdgesRelaxed /\ ReducesDone /\ Stages /\ [Next]_vars
    => RoundExact'
<1> SUFFICES ASSUME TypeOK, RoundExact, EdgesRelaxed, ReducesDone, Stages, [Next]_vars
             PROVE  RoundExact'
  OBVIOUS
<1>1. CASE Driver
  <2>1. /\ \A v \in Vertex : Relaxed(v)
        /\ \A v \in Vertex : dist[v] # INF => ndist[v] # INF /\ ndist[v] <= dist[v]
        /\ \A e \in edges : dist[e.from] # INF =>
             ndist[e.to] # INF /\ ndist[e.to] <= dist[e.from] + e.weight
    BY <1>1, JobDone DEF Driver
  <2>2. \A e \in edges : e.from \in Vertex /\ e.to \in Vertex /\ e.weight \in Nat
    BY GraphAssumption DEF TypeOK, Edge
  <2>3. ASSUME NEW v \in Vertex, ndist[v] # INF
        PROVE  <<v, ndist[v]>> \in walks \union Longer
    <3>1. CASE ~nflag[v]
      BY <2>1, <2>3, <3>1 DEF Relaxed, RoundExact, LeastOf
    <3>2. CASE nflag[v]
      <4>1. PICK e \in edges : /\ e.to = v /\ Pushes(e.from)
                               /\ ndist[v] = dist[e.from] + e.weight
        BY <2>1, <3>2 DEF Relaxed, Arrivals
      <4>2. <<e.from, dist[e.from]>> \in walks
        BY <2>2, <4>1 DEF Pushes, RoundExact, LeastOf
      <4> DEFINE p == <<e, <<e.from, dist[e.from]>>>>
      <4>3. p \in {q \in edges \X walks : q[1].from = q[2][1]}
        BY <4>2
      <4>4. <<p[1].to, p[2][2] + p[1].weight>> \in Longer
        BY <4>3 DEF Longer
      <4> QED
        BY <4>1, <4>4
    <3> QED
      BY <3>1, <3>2
  <2>4. ASSUME NEW x \in walks PROVE ndist[x[1]] # INF /\ ndist[x[1]] <= x[2]
    <3>1. x[1] \in Vertex /\ x[2] \in Nat
      BY DEF TypeOK
    <3>2. dist[x[1]] # INF /\ dist[x[1]] <= x[2]
      BY <3>1 DEF RoundExact, LeastOf
    <3>3. dist[x[1]] \in Nat /\ ndist[x[1]] \in Nat
      BY <2>1, <3>1, <3>2 DEF TypeOK, Dist
    <3> QED
      BY <2>1, <3>1, <3>2, <3>3
  <2>5. ASSUME NEW x \in Longer PROVE ndist[x[1]] # INF /\ ndist[x[1]] <= x[2]
    <3>1. PICK p \in edges \X walks :
            p[1].from = p[2][1] /\ x = <<p[1].to, p[2][2] + p[1].weight>>
      BY DEF Longer
    <3> DEFINE e == p[1]
               y == p[2]
    <3>2. e \in edges /\ y \in walks /\ y[1] = e.from /\ y[2] \in Nat
      BY <3>1 DEF TypeOK
    <3>3. dist[e.from] # INF /\ dist[e.from] <= y[2]
      BY <2>2, <3>2 DEF RoundExact, LeastOf
    <3>4. ndist[e.to] # INF /\ ndist[e.to] <= dist[e.from] + e.weight
      BY <2>1, <3>2, <3>3
    <3>5. dist[e.from] \in Nat /\ ndist[e.to] \in Nat /\ e.weight \in Nat
      BY <2>2, <3>2, <3>3, <3>4 DEF TypeOK, Dist
    <3>6. ndist[e.to] <= y[2] + e.weight
      <4> HIDE DEF e, y
      <4> QED
        BY <3>2, <3>3, <3>4, <3>5
    <3> QED
      BY <3>1, <3>4, <3>6
  <2> QED
    BY <1>1, <2>3, <2>4, <2>5 DEF Driver, RoundExact, LeastOf
<1>2. CASE Prep
  BY <1>2 DEF Prep, Stages, RoundExact, LeastOf
<1>3. ASSUME NEW t \in Task, MapTask(t) \/ MapLost(t) \/ ReduceTask(t)
      PROVE  RoundExact'
  BY <1>3 DEF MapTask, MapTaskIf, MapLost, ReduceTask, RoundExact, LeastOf, records
<1>4. CASE Final \/ UNCHANGED vars
  BY <1>4 DEF Final, vars, RoundExact, LeastOf, records
<1> QED
  BY <1>1, <1>2, <1>3, <1>4 DEF Next

LEMMA StagesStep ==
  TypeOK /\ ReducesDone /\ Stages /\ [Next]_vars => Stages'
<1> SUFFICES ASSUME TypeOK, ReducesDone, Stages, [Next]_vars PROVE Stages'
  OBVIOUS
<1>1. CASE Prep
  BY <1>1 DEF Prep, Stages
<1>2. ASSUME NEW t \in Task, MapTask(t) \/ MapLost(t) \/ ReduceTask(t) PROVE Stages'
  BY <1>2 DEF MapTask, MapTaskIf, MapLost, ReduceTask, Stages
<1>3. CASE Driver
  BY <1>3, TaskAssumption DEF Driver, Stages, ReducesDone
<1>4. CASE Final
  BY <1>4 DEF Final, Stages, records
<1>5. CASE UNCHANGED vars
  BY <1>5 DEF vars, Stages, records
<1> QED
  BY <1>1, <1>2, <1>3, <1>4, <1>5 DEF Next

(***************************************************************************)
(* The invariant and what follows from it.                                 *)
(***************************************************************************)

LEMMA InitIInv == Init => IInv
<1> SUFFICES ASSUME Init PROVE IInv
  OBVIOUS
<1>1. 0 \in Vertex /\ FirstDist \in [Vertex -> Dist]
  BY GraphAssumption DEF Vertex, FirstDist, Dist, INF
<1>2. TypeOK
  BY <1>1 DEF Init, TypeOK, NoCandidates
<1>3. RoundExact
  BY DEF Init, RoundExact, LeastOf, FirstDist, INF
<1>4. EdgesRelaxed /\ MapsDone /\ ReducesDone /\ Stages
  BY DEF Init, EdgesRelaxed, MapsDone, ReducesDone, Stages, NoCandidates
<1> QED
  BY <1>2, <1>3, <1>4 DEF IInv

LEMMA NextIInv == IInv /\ [Next]_vars => IInv'
  BY TypeStep, MapsStep, ReducesStep, RelaxedStep, ExactStep, StagesStep DEF IInv

LEMMA Shortest == IInv => ResultShortest
<1>1. TypeOK => \A e \in edges : e.from \in Vertex
  BY GraphAssumption DEF TypeOK, Edge
<1> QED
  BY <1>1 DEF IInv, ResultShortest, RoundExact, LeastOf, EdgesRelaxed, Stages

\* Every reachable state of an SSSP run satisfies the inductive invariant.
THEOREM Invariance == Spec => []IInv
  BY InitIInv, NextIInv, PTL DEF Spec

\* Types, for every graph: no candidate is ever the -1 that encodes infinity.
THEOREM TypeCorrect == Spec => []TypeOK
<1>1. IInv => TypeOK
  BY DEF IInv
<1> QED
  BY <1>1, Invariance, PTL

\* After every round the reducers' distances are the least over the walks of at
\* most that many edges, for every graph, mode, partition and re-execution.
THEOREM RoundsAreExact == Spec => []RoundExact
<1>1. IInv => RoundExact
  BY DEF IInv
<1> QED
  BY <1>1, Invariance, PTL

\* The frontier mapper leaves out only vertices whose edges are relaxed.
THEOREM FrontierIsRelaxed == Spec => []EdgesRelaxed
<1>1. IInv => EdgesRelaxed
  BY DEF IInv
<1> QED
  BY <1>1, Invariance, PTL

\* When the driver's loop has ended on a zero counter, what the final job
\* prints are the shortest distances.
THEOREM ResultIsShortest == Spec => []ResultShortest
  BY Shortest, Invariance, PTL

\* "Distances only ever decrease" (sssp_map.cpp), in every step of every job.
THEOREM DistancesOnlyFall == Spec => DistancesFall
<1> DEFINE Fall ==
      \A v \in Vertex : dist[v] # INF => dist'[v] # INF /\ dist'[v] <= dist[v]
<1>1. IInv /\ [Next]_vars => [Fall]_vars
  <2> SUFFICES ASSUME IInv, [Next]_vars PROVE Fall
    OBVIOUS
  <2>0. \A v \in Vertex : dist[v] # INF => dist[v] \in Nat
    BY DEF IInv, TypeOK, Dist
  <2>1. CASE Driver
    BY <2>1, JobDone DEF Driver, IInv
  <2>2. CASE Prep
    BY <2>0, <2>2 DEF Prep, IInv, Stages
  <2>3. CASE UNCHANGED dist
    BY <2>0, <2>3
  <2>4. ASSUME NEW t \in Task, MapTask(t) \/ MapLost(t) \/ ReduceTask(t)
        PROVE  UNCHANGED dist
    BY <2>4 DEF MapTask, MapTaskIf, MapLost, ReduceTask, records
  <2>5. CASE Final \/ UNCHANGED vars
    BY <2>3, <2>5 DEF Final, vars, records
  <2> QED
    BY <2>1, <2>2, <2>3, <2>4, <2>5 DEF Next
<1> QED
  BY <1>1, Invariance, PTL DEF Spec, DistancesFall

(***************************************************************************)
(* verify.sh: what the oracle prints.  Its distances are never below the   *)
(* pipeline's, which no edge shortens; and once its heap is empty no edge  *)
(* shortens its own, so that no walk is shorter than they are, and hence   *)
(* not the one that a distance of the pipeline is the length of.           *)
(***************************************************************************)

\* No edge shortens d.
Closed(d) == d[0] = 0 /\ \A e \in edges : d[e.from] # INF => Short(d, e)

\* No walk is shorter than distances that no edge shortens.
WalksAbove ==
  /\ <<0, 0>> \in walks
  /\ \A d \in [Vertex -> Dist] : Closed(d) =>
       \A x \in walks : d[x[1]] # INF /\ d[x[1]] <= x[2]

VInv == IInv /\ OInv /\ WalksAbove

LEMMA EdgeTypes ==
  ASSUME TypeOK
  PROVE  /\ 0 \in Vertex
         /\ \A e \in edges : e.from \in Vertex /\ e.to \in Vertex /\ e.weight \in Nat
  BY GraphAssumption DEF TypeOK, Edge, Vertex

\* A step of the oracle leaves the pipeline's state alone.
LEMMA OracleFrame ==
  ASSUME OracleStep
  PROVE  UNCHANGED vars /\ phase = "done" /\ UNCHANGED walks
  BY DEF OracleStep, Oracle!Next, Oracle!Pop, Oracle!Relax, vars, input

\* What the heap gives is one of its entries.
LEMMA LeastInHeap ==
  ASSUME pq \subseteq Nat \X Vertex, pq # {}
  PROVE  Oracle!Least \in pq
<1> DEFINE Firsts == {x[1] : x \in pq}
           f == Min(Firsts)
           Seconds == {x[2] : x \in {y \in pq : y[1] = f}}
           g == Min(Seconds)
<1>1. f \in Firsts /\ \A y \in Firsts : f <= y
  <2>1. Firsts \in SUBSET Nat /\ Firsts # {}
    OBVIOUS
  <2> HIDE DEF Firsts
  <2> QED
    BY <2>1, MinNat
<1>2. g \in Seconds /\ \A y \in Seconds : g <= y
  <2>1. Seconds \in SUBSET Nat /\ Seconds # {}
    <3>1. Vertex \subseteq Nat
      BY GraphAssumption DEF Vertex
    <3>2. \E x \in pq : x[1] = f
      BY <1>1
    <3> HIDE DEF f
    <3> QED
      BY <3>1, <3>2
  <2> HIDE DEF Seconds
  <2> QED
    BY <2>1, MinNat
<1> HIDE DEF f, g
<1>3. PICK x \in pq : x[1] = f /\ x[2] = g
  BY <1>2
<1>4. \A y \in pq : x[1] < y[1] \/ (x[1] = y[1] /\ x[2] <= y[2])
  <2> SUFFICES ASSUME NEW y \in pq
               PROVE  x[1] < y[1] \/ (x[1] = y[1] /\ x[2] <= y[2])
    OBVIOUS
  <2>1. x[1] \in Nat /\ y[1] \in Nat /\ x[1] <= y[1]
    BY <1>1, <1>3
  <2>2. y[1] = f => x[2] <= y[2]
    BY <1>2, <1>3
  <2> QED
    BY <1>3, <2>1, <2>2
<1> QED
  BY <1>4 DEF Oracle!Least

\* Popping an entry: one that is outdated is not the one that a vertex still
\* needs, and of one that is not all edges are scanned.
LEMMA PopKeeps ==
  ASSUME IInv, OInv, OracleStep, Oracle!Pop
  PROVE  OracleOK' /\ Pending'
<1>1. UNCHANGED vars /\ UNCHANGED odist
  BY OracleFrame DEF Oracle!Pop
<1>2. UNCHANGED <<edges, phase>>
  BY <1>1 DEF vars, input
<1>3. TypeOK
  BY DEF IInv
<1> DEFINE x == Oracle!Least
<1>4. x \in pq /\ pq' = pq \ {x} /\ scan = {}
  BY LeastInHeap DEF Oracle!Pop, OInv, OracleOK
<1>5. x \in Nat \X Vertex /\ odist[x[2]] \in Nat /\ odist[x[2]] <= x[1]
  BY <1>4 DEF OInv, OracleOK, Dist
<1>6. \/ x[1] > odist[x[2]] /\ scan' = scan
      \/ x[1] <= odist[x[2]] /\ scan' = {e \in edges : e.from = x[2]}
  BY DEF Oracle!Pop, Oracle!Adj
<1> HIDE DEF x
<1>7. OracleOK'
  BY <1>1, <1>2, <1>4, <1>5, <1>6 DEF OInv, OracleOK, FirstDist
<1>8. ASSUME NEW e \in edges, odist[e.from] # INF
      PROVE  Short(odist, e) \/ e \in scan' \/ <<odist[e.from], e.from>> \in pq'
  <2>1. Short(odist, e) \/ <<odist[e.from], e.from>> \in pq
    BY <1>4, <1>8 DEF OInv, Pending
  <2>2. CASE <<odist[e.from], e.from>> = x
    <3>1. x[1] = odist[e.from] /\ x[2] = e.from
      BY <2>2
    <3>2. ~ (x[1] > odist[x[2]])
      BY <1>5, <3>1
    <3> QED
      BY <1>6, <3>1, <3>2
  <2> QED
    BY <1>4, <2>1, <2>2
<1>9. Pending'
  BY <1>1, <1>2, <1>8 DEF Pending, Short
<1> QED
  BY <1>7, <1>9

\* Relaxing an edge: the vertex whose distance falls enters the heap with it.
LEMMA RelaxKeeps ==
  ASSUME IInv, OInv, OracleStep, NEW a \in edges, Oracle!Relax(a)
  PROVE  OracleOK' /\ Pending' /\ NoneBelow'
<1>1. UNCHANGED vars /\ phase = "done"
  BY OracleFrame
<1>2. UNCHANGED <<edges, phase, result>>
  BY <1>1 DEF vars, input
<1>3. /\ 0 \in Vertex
      /\ \A e \in edges : e.from \in Vertex /\ e.to \in Vertex /\ e.weight \in Nat
  BY EdgeTypes DEF IInv
<1> DEFINE n == odist[a.from] + a.weight
<1>4. /\ a \in scan /\ odist[a.from] # INF /\ scan' = scan \ {a}
      /\ odist \in [Vertex -> Dist] /\ odist[0] = 0
      /\ pq \subseteq Nat \X Vertex /\ scan \subseteq edges
  BY DEF Oracle!Relax, OInv, OracleOK
<1>5. n \in Nat /\ odist[a.from] \in Nat
  BY <1>3, <1>4 DEF Dist
<1>6. \/ /\ odist[a.to] = INF \/ n < odist[a.to]
         /\ odist' = [odist EXCEPT ![a.to] = n] /\ pq' = pq \union {<<n, a.to>>}
      \/ /\ ~(odist[a.to] = INF \/ n < odist[a.to])
         /\ odist' = odist /\ pq' = pq
  BY DEF Oracle!Relax, Oracle!Shorter, Oracle!INF, INF
<1> HIDE DEF n
<1>7. /\ odist' \in [Vertex -> Dist]
      /\ \A v \in Vertex : odist[v] # INF => odist'[v] # INF /\ odist'[v] <= odist[v]
      /\ \A v \in Vertex : v # a.to => odist'[v] = odist[v]
      /\ odist'[a.to] # INF /\ odist'[a.to] <= n
      /\ odist'[a.to] = odist[a.to] \/ (odist'[a.to] = n /\ <<n, a.to>> \in pq')
      /\ pq \subseteq pq'
  <2>1. \A v \in Vertex : odist[v] # INF => odist[v] \in Nat
    BY <1>4 DEF Dist
  <2>2. n # INF /\ n \in Dist
    BY <1>5 DEF INF, Dist
  <2>3. a.to \in Vertex
    BY <1>3
  <2>4. CASE /\ odist[a.to] = INF \/ n < odist[a.to]
             /\ odist' = [odist EXCEPT ![a.to] = n] /\ pq' = pq \union {<<n, a.to>>}
    BY <1>4, <1>5, <2>1, <2>2, <2>3, <2>4
  <2>5. CASE /\ ~(odist[a.to] = INF \/ n < odist[a.to])
             /\ odist' = odist /\ pq' = pq
    <3>1. odist[a.to] # INF /\ odist[a.to] <= n
      BY <1>5, <2>1, <2>3, <2>5
    <3>2. \A v \in Vertex : odist[v] # INF => odist[v] <= odist[v]
      BY <2>1
    <3> QED
      BY <1>4, <2>5, <3>1, <3>2
  <2> QED
    BY <1>6, <2>4, <2>5
<1>8. OracleOK'
  <2>1. odist'[0] = 0
    <3>1. odist'[0] # INF /\ odist'[0] <= 0 /\ odist'[0] \in Dist
      BY <1>3, <1>4, <1>7 DEF INF
    <3> QED
      BY <3>1 DEF Dist
  <2>2. pq' \subseteq Nat \X Vertex
    BY <1>3, <1>4, <1>5, <1>6
  <2>3. ASSUME NEW x \in pq' PROVE odist'[x[2]] # INF /\ odist'[x[2]] <= x[1]
    <3>1. CASE x \in pq
      <4>1. x[2] \in Vertex /\ x[1] \in Nat /\ odist[x[2]] # INF /\ odist[x[2]] <= x[1]
        BY <1>4, <3>1 DEF OInv, OracleOK
      <4>2. odist'[x[2]] # INF /\ odist'[x[2]] <= odist[x[2]]
        BY <1>7, <4>1
      <4>3. odist'[x[2]] \in Nat /\ odist[x[2]] \in Nat
        BY <1>4, <1>7, <4>1, <4>2 DEF Dist
      <4> QED
        BY <4>1, <4>2, <4>3
    <3>2. CASE x \notin pq
      <4>1. x = <<n, a.to>>
        BY <1>6, <3>2
      <4>2. x[1] = n /\ x[2] = a.to
        BY <4>1
      <4> QED
        BY <1>7, <4>2
    <3> QED
      BY <3>1, <3>2
  <2>4. \A e \in scan' : odist'[e.from] # INF
    BY <1>3, <1>4, <1>7 DEF OInv, OracleOK
  <2> QED
    BY <1>1, <1>2, <1>4, <1>7, <2>1, <2>2, <2>3, <2>4 DEF OracleOK
<1>9. ASSUME NEW e \in edges, odist'[e.from] # INF
      PROVE  Short(odist', e) \/ e \in scan' \/ <<odist'[e.from], e.from>> \in pq'
  <2>0. e.from \in Vertex /\ e.to \in Vertex /\ e.weight \in Nat
    BY <1>3
  <2>1. CASE odist'[e.from] # odist[e.from]
    <3>1. e.from = a.to
      BY <1>7, <2>0, <2>1
    <3> QED
      BY <1>7, <2>1, <3>1
  <2>2. CASE odist'[e.from] = odist[e.from] /\ e = a
    BY <1>7, <2>2 DEF Short, n
  <2>3. CASE odist'[e.from] = odist[e.from] /\ e # a
    <3>1. \/ Short(odist, e) \/ e \in scan \/ <<odist[e.from], e.from>> \in pq
      BY <1>9, <2>3 DEF OInv, Pending
    <3>2. Short(odist, e) => Short(odist', e)
      <4> SUFFICES ASSUME Short(odist, e) PROVE Short(odist', e)
        OBVIOUS
      <4>1. odist'[e.to] # INF /\ odist'[e.to] <= odist[e.to]
        BY <1>7, <2>0 DEF Short
      <4>2. odist'[e.to] \in Nat /\ odist[e.to] \in Nat /\ odist[e.from] \in Nat
        BY <1>4, <1>7, <1>9, <2>0, <2>3, <4>1 DEF Short, Dist
      <4> QED
        BY <2>0, <2>3, <4>1, <4>2 DEF Short
    <3> QED
      BY <1>4, <1>7, <2>3, <3>1, <3>2
  <2> QED
    BY <2>1, <2>2, <2>3
<1>10. Pending'
  BY <1>2, <1>9 DEF Pending, Short
<1>11. NoneBelow'
  <2>1. /\ result \in [Vertex -> Dist]
        /\ \A v \in Vertex : odist[v] # INF => result[v] # INF /\ result[v] <= odist[v]
        /\ result[a.from] # INF => result[a.to] # INF /\ result[a.to] <= result[a.from] + a.weight
    BY <1>1, Shortest DEF IInv, TypeOK, ResultShortest, OInv, NoneBelow
  <2>2. result[a.to] # INF /\ result[a.to] <= n
    <3>1. result[a.from] # INF /\ result[a.from] <= odist[a.from]
      BY <1>3, <1>4, <2>1
    <3>2. result[a.from] \in Nat /\ result[a.to] \in Nat /\ a.weight \in Nat
      BY <1>3, <2>1, <3>1 DEF Dist
    <3> QED
      BY <1>5, <2>1, <3>1, <3>2 DEF n
  <2>3. ASSUME NEW v \in Vertex, odist'[v] # INF
        PROVE  result[v] # INF /\ result[v] <= odist'[v]
    BY <1>6, <1>7, <2>1, <2>2, <2>3
  <2> QED
    BY <1>2, <2>3 DEF NoneBelow
<1> QED
  BY <1>8, <1>10, <1>11

LEMMA OracleKeeps == IInv /\ OInv /\ OracleStep => OInv'
<1> SUFFICES ASSUME IInv, OInv, OracleStep PROVE OInv'
  OBVIOUS
<1>1. CASE Oracle!Pop
  <2>1. UNCHANGED <<odist, phase, result>>
    BY <1>1, OracleFrame DEF Oracle!Pop, vars
  <2>2. NoneBelow'
    BY <2>1 DEF OInv, NoneBelow
  <2> QED
    BY <1>1, <2>2, PopKeeps DEF OInv
<1>2. ASSUME NEW a \in edges, Oracle!Relax(a) PROVE OInv'
  BY <1>2, RelaxKeeps DEF OInv
<1> QED
  BY <1>1, <1>2 DEF OracleStep, Oracle!Next

\* Beside a step of the pipeline the oracle stands still; when the final job
\* has run, 0 alone is reached, in what it has printed too.
LEMMA PipelineKeeps == IInv /\ OInv /\ WalksAbove /\ [Next]_vars /\ UNCHANGED ovars => OInv'
<1> SUFFICES ASSUME IInv, OInv, WalksAbove, [Next]_vars, UNCHANGED ovars PROVE OInv'
  OBVIOUS
<1>1. UNCHANGED <<odist, pq, scan, edges>>
  BY DEF ovars, Next, vars, input, Prep, MapTask, MapTaskIf, MapLost, ReduceTask,
         Driver, Final
<1>2. phase = "done" => phase' = "done" /\ result' = result
  BY DEF Next, vars, Prep, MapTask, MapTaskIf, MapLost, ReduceTask, Driver, Final
<1>3. OracleOK'
  BY <1>1, <1>2 DEF OInv, OracleOK, FirstDist
<1>4. Pending'
  BY <1>1 DEF OInv, Pending, Short
<1>5. NoneBelow'
  <2>1. CASE phase = "done"
    BY <1>1, <1>2, <2>1 DEF OInv, NoneBelow
  <2>2. CASE phase # "done" /\ phase' = "done"
    <3>1. result' = dist /\ odist' = FirstDist
      BY <1>1, <2>2 DEF OInv, OracleOK, Next, vars, Prep, MapTask, MapTaskIf, MapLost,
                        ReduceTask, Driver, Final
    <3>2. dist[0] # INF /\ dist[0] <= 0
      BY EdgeTypes DEF IInv, RoundExact, LeastOf, WalksAbove
    <3> QED
      BY <3>1, <3>2 DEF NoneBelow, FirstDist
  <2> QED
    BY <2>1, <2>2 DEF NoneBelow
<1> QED
  BY <1>3, <1>4, <1>5 DEF OInv

LEMMA WalksStep == TypeOK /\ WalksAbove /\ [Next]_vars => WalksAbove'
<1> SUFFICES ASSUME TypeOK, WalksAbove, [Next]_vars PROVE WalksAbove'
  OBVIOUS
<1>1. UNCHANGED edges
  BY DEF Next, vars, input, Prep, MapTask, MapTaskIf, MapLost, ReduceTask, Driver, Final
<1>2. walks' = walks \/ walks' = walks \union Longer
  BY DEF Next, vars, Prep, MapTask, MapTaskIf, MapLost, ReduceTask, Driver, Final
<1>3. ASSUME NEW d \in [Vertex -> Dist], Closed(d), NEW x \in Longer
      PROVE  d[x[1]] # INF /\ d[x[1]] <= x[2]
  <2>1. PICK p \in edges \X walks :
          p[1].from = p[2][1] /\ x = <<p[1].to, p[2][2] + p[1].weight>>
    BY DEF Longer
  <2> DEFINE e == p[1]
             y == p[2]
  <2>2. e \in edges /\ y \in walks /\ y[1] = e.from /\ y[2] \in Nat
    BY <2>1 DEF TypeOK
  <2>3. x[1] = e.to /\ x[2] = y[2] + e.weight
    BY <2>1
  <2> HIDE DEF e, y
  <2>4. e.from \in Vertex /\ e.to \in Vertex /\ e.weight \in Nat
    BY <2>2, EdgeTypes
  <2>5. d[e.from] # INF /\ d[e.from] <= y[2]
    BY <1>3, <2>2 DEF WalksAbove
  <2>6. d[e.to] # INF /\ d[e.to] <= d[e.from] + e.weight
    BY <1>3, <2>2, <2>5 DEF Closed, Short
  <2>7. d[e.from] \in Nat /\ d[e.to] \in Nat
    BY <2>4, <2>5, <2>6 DEF Dist
  <2> QED
    BY <2>2, <2>3, <2>4, <2>5, <2>6, <2>7
<1> QED
  BY <1>1, <1>2, <1>3 DEF WalksAbove, Closed, Short

LEMMA InitVInv == VInit => VInv
<1> SUFFICES ASSUME VInit PROVE VInv
  OBVIOUS
<1>1. IInv
  BY InitIInv DEF VInit
<1>2. 0 \in Vertex
  BY <1>1, EdgeTypes DEF IInv
<1>3. odist = FirstDist /\ pq = {<<0, 0>>} /\ scan = {} /\ FirstDist \in [Vertex -> Dist]
  BY <1>1 DEF VInit, Oracle!Init, FirstDist, Oracle!INF, INF, Oracle!Vertex, Vertex, Dist
<1>4. \A v \in Vertex : FirstDist[v] = (IF v = 0 THEN 0 ELSE INF)
  BY DEF FirstDist
<1>5. OracleOK
  BY <1>2, <1>3, <1>4 DEF OracleOK, INF
<1>6. Pending
  <2> SUFFICES ASSUME NEW e \in edges, odist[e.from] # INF
               PROVE  <<odist[e.from], e.from>> \in pq
    BY DEF Pending
  <2>1. e.from \in Vertex
    BY <1>1, EdgeTypes DEF IInv
  <2> QED
    BY <1>3, <1>4, <2>1
<1>7. NoneBelow
  BY DEF VInit, Init, NoneBelow
<1>8. WalksAbove
  BY DEF VInit, Init, WalksAbove, Closed, INF
<1> QED
  BY <1>1, <1>5, <1>6, <1>7, <1>8 DEF VInv, OInv

LEMMA NextVInv == VInv /\ [VNext]_<<vars, ovars>> => VInv'
<1> SUFFICES ASSUME VInv, [VNext]_<<vars, ovars>> PROVE VInv'
  OBVIOUS
<1>1. IInv /\ OInv /\ WalksAbove /\ TypeOK
  BY DEF VInv, IInv
<1>2. CASE [Next]_vars /\ UNCHANGED ovars
  BY <1>1, <1>2, NextIInv, PipelineKeeps, WalksStep DEF VInv
<1>3. CASE OracleStep
  <2>1. [Next]_vars
    BY <1>3, OracleFrame
  <2> QED
    BY <1>1, <1>3, <2>1, NextIInv, OracleKeeps, WalksStep DEF VInv
<1> QED
  BY <1>2, <1>3 DEF VNext

\* The pipeline prints what the oracle prints, on every graph, in either mode,
\* however its tasks, combiners and re-executions fell and in whatever order
\* the oracle scans the edges of a vertex.
THEOREM VerifyAlwaysAgrees == VSpec => []VerifyAgrees
<1>1. VInv => VerifyAgrees
  <2> SUFFICES ASSUME VInv, Compared PROVE result = odist
    BY DEF VerifyAgrees
  <2>1. IInv /\ OInv /\ WalksAbove /\ TypeOK
    BY DEF VInv, IInv
  <2>2. phase = "done" /\ pq = {} /\ scan = {} /\ result = dist
    BY <2>1 DEF Compared, Oracle!Done, IInv, Stages
  <2>3. result \in [Vertex -> Dist] /\ odist \in [Vertex -> Dist]
    BY <2>1 DEF TypeOK, OInv, OracleOK
  <2>4. Closed(odist)
    BY <2>1, <2>2 DEF OInv, OracleOK, Pending, Closed
  <2>5. ASSUME NEW v \in Vertex, result[v] # INF
        PROVE  odist[v] # INF /\ odist[v] <= result[v]
    <3>1. <<v, result[v]>> \in walks
      BY <2>1, <2>2, <2>5 DEF IInv, RoundExact, LeastOf
    <3> QED
      BY <2>1, <2>3, <2>4, <3>1 DEF WalksAbove
  <2>6. \A v \in Vertex : odist[v] # INF => result[v] # INF /\ result[v] <= odist[v]
    BY <2>1, <2>2 DEF OInv, NoneBelow
  <2>7. ASSUME NEW v \in Vertex PROVE result[v] = odist[v]
    <3>1. result[v] \in Dist /\ odist[v] \in Dist
      BY <2>3
    <3> QED
      BY <2>5, <2>6, <3>1 DEF Dist
  <2> QED
    BY <2>3, <2>7
<1> QED
  BY <1>1, InitVInv, NextVInv, PTL DEF VSpec
=============================================================================
