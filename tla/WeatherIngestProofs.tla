------------------------ MODULE WeatherIngestProofs ------------------------
(***************************************************************************)
(* Proofs about WeatherIngest: every variable has its type, no queue and   *)
(* no stream of a link ever holds more than its capacity, a link carries   *)
(* what was put on it, and a complete session is one that every worker has *)
(* acknowledged.  And of its data: what the workers hold and count is the  *)
(* session's records, each once, and what a query merges of it is what its *)
(* report says; for any number of workers, sessions and queries, any       *)
(* records and any batches.                                                *)
(***************************************************************************)
EXTENDS WeatherIngest, FiniteSums, SequenceTheorems

-----------------------------------------------------------------------------
(***************************************************************************)
(* The conjuncts of the invariant that are not types.                      *)
(***************************************************************************)

\* A handler that is to address a link has one left, and the batch that it is
\* dispatching is one of its session's.
Pending ==
  \A s \in Session :
    /\ pc[s] \in {"resetting", "closing", "awaiting"} => todo[s] # {}
    /\ pc[s] = "dispatch" => pos[s] \in 2..(Len(Batches[s]) + 1)

\* A worker whose count is still to come has folded something.
Folded == \A w \in Worker : folding[w] => tables[w] # <<>>

IInv == TypeOK /\ Pending /\ Folded

-----------------------------------------------------------------------------
(***************************************************************************)
(* The operators.                                                          *)
(***************************************************************************)

\* The smallest of some workers is one of them.
LEMMA MinWorker ==
  ASSUME NEW T \in SUBSET Worker, T # {}
  PROVE  Min(T) \in T
<1>1. Worker \subseteq Nat
  BY SizeAssumption DEF Worker
<1>2. \E x \in T : \A y \in T : x <= y
  <2>1. PICK x \in T : \A y \in T : <<y, x>> \notin OpToRel(<, Nat)
    BY <1>1, NatLessThanWellFounded, WFMin
  <2>2. \A y \in T : ~(y < x)
    BY <1>1, <2>1 DEF OpToRel
  <2> QED
    BY <1>1, <2>2
<1> QED
  BY <1>2 DEF Min

LEMMA Workers ==
  IsFiniteSet(Worker) /\ Worker # {} /\ Worker \in SUBSET Worker
<1>1. 0 \in Int /\ W - 1 \in Int /\ 0 \in 0..(W - 1)
  BY SizeAssumption
<1> QED
  BY <1>1, FS_Interval DEF Worker

\* A sum over the workers.
LEMMA WorkerSum ==
  ASSUME NEW f \in [Worker -> Nat]
  PROVE  Sum(f) \in Nat
BY Workers, SumNat DEF Sum

\* What is handed to a worker is a finite set of records.
LEMMA BatchPortion ==
  ASSUME NEW s \in Session, NEW i \in 1..Len(Batches[s]), NEW w
  PROVE  /\ Batches[s][i] \in Portion /\ Batches[s][i] # {}
         /\ Part(Batches[s][i], w) \in Portion
<1>1. Batches[s] \in Seq(SUBSET Record)
  BY DataAssumption
<1>2. Batches[s][i] \in SUBSET Record /\ IsFiniteSet(Batches[s][i]) /\ Batches[s][i] # {}
  BY <1>1, DataAssumption
<1>3. Part(Batches[s][i], w) \subseteq Batches[s][i]
  BY DEF Part
<1>4. IsFiniteSet(Part(Batches[s][i], w))
  BY <1>2, <1>3, FS_Subset
<1> QED
  BY <1>2, <1>3, <1>4 DEF Portion

\* A batch goes to workers.
LEMMA TargetsAreWorkers ==
  ASSUME NEW b, NEW i \in Nat
  PROVE  Targets(b, i) \subseteq Worker
<1>1. i % W \in Worker
  BY SizeAssumption DEF Worker
<1> QED
  BY <1>1 DEF Targets

\* A sequence with one element more, and with one less.
LEMMA AppendSeq ==
  ASSUME NEW S, NEW q \in Seq(S), NEW e \in S
  PROVE  /\ Append(q, e) \in Seq(S) /\ Append(q, e) # <<>>
         /\ Len(q) \in Nat /\ Len(Append(q, e)) = Len(q) + 1
OBVIOUS

LEMMA TailSeq ==
  ASSUME NEW S, NEW q \in Seq(S), q # <<>>
  PROVE  /\ Head(q) \in S /\ Tail(q) \in Seq(S)
         /\ Len(q) \in Nat /\ Len(Tail(q)) = Len(q) - 1
OBVIOUS

-----------------------------------------------------------------------------
(***************************************************************************)
(* Every step keeps the types, one part of them after the other.           *)
(***************************************************************************)
LEMMA CoordStep ==
  ASSUME IInv, [Next]_vars
  PROVE  CoordOK'
<1> USE DEF IInv, TypeOK, CoordOK, coordVars
<1>1. ASSUME NEW s \in Session, Open(s) \/ Cancel(s) PROVE CoordOK'
  BY <1>1 DEF Open, Cancel
<1>2. ASSUME NEW s \in Session, Handler(s) PROVE CoordOK'
  <2>1. CASE Refuse(s)
    BY <2>1 DEF Refuse
  <2>7. CASE Begin(s)
    BY <2>7 DEF Begin
  <2>2. CASE ResetLink(s) \/ ResetFails(s)
    BY <2>2 DEF ResetLink, ResetLinkTo, ResetFails
  <2>3. CASE ReadHeader(s) \/ ReadBatch(s) \/ ReadFails(s) \/ ReadEnd(s)
    BY <2>3 DEF ReadHeader, ReadBatch, ReadBatchFrom, ReadFails, ReadEnd
  <2>4. CASE Put(s) \/ PutSentinel(s) \/ Await(s) \/ AwaitFails(s)
    BY <2>4 DEF Put, PutSentinel, Await, AwaitUntil, AwaitFails
  <2>5. CASE Count(s)
    <3>1. Cardinality(Current(s)) \in Nat
      <4>1. pos[s] - 1 \in 1..Len(Batches[s])
        <5>1. pc[s] = "dispatch"
          BY <2>5 DEF Count, CountTo
        <5>2. pos[s] \in 2..(Len(Batches[s]) + 1) /\ Len(Batches[s]) \in Nat
          BY <5>1, DataAssumption DEF Pending
        <5> QED
          BY <5>2
      <4> QED
        BY <4>1, BatchPortion, FS_CardinalityType DEF Current, Portion
    <3>2. ingested + Cardinality(Current(s)) \in Nat
      BY <3>1
    <3> QED
      BY <2>5, <3>2 DEF Count, CountTo
  <2>6. CASE Finish(s)
    BY <2>6 DEF Finish
  <2> QED
    BY <1>2, <2>1, <2>2, <2>3, <2>4, <2>5, <2>6, <2>7 DEF Handler
<1>3. ASSUME NEW w \in Worker, Link(w) \/ SendLost(w) \/ Fold(w) \/ Crash(w) PROVE CoordOK'
  BY <1>3 DEF Link, Send, HalfClose, SendLost, Fold, FoldTables, FoldCount, Ack, Crash
<1>4. ASSUME NEW x \in Query, Ask(x) \/ Serve(x) PROVE CoordOK'
  BY <1>4 DEF Ask, Serve, Fetch, FetchFrom, Merge, FetchInfo, AddInfo, FetchFails, Answer, AnswerOr
<1>5. CASE UNCHANGED vars
  BY <1>5 DEF vars
<1> QED
  BY <1>1, <1>2, <1>3, <1>4, <1>5 DEF Next, Quiet

LEMMA SessionStep ==
  ASSUME IInv, [Next]_vars
  PROVE  SessionOK' /\ Pending'
<1> USE DEF IInv, TypeOK, SessionOK, sessionVars, Goto
<1> USE DEF Pcs, Running
<1>1. Worker # {} /\ \A s \in Session : todo[s] # {} => NextLink(s) \in todo[s]
  <2>1. 0 \in Worker
    BY SizeAssumption DEF Worker
  <2> QED
    BY <2>1, MinWorker DEF NextLink
<1>2. \A s \in Session : Batches[s] \in Seq(SUBSET Record) /\ Len(Batches[s]) \in Nat
  BY DataAssumption
<1>3. ASSUME NEW s \in Session, Open(s) \/ Cancel(s) PROVE SessionOK' /\ Pending'
  BY <1>3 DEF Open, Cancel, Pending
<1>4. ASSUME NEW s \in Session, Handler(s) PROVE SessionOK' /\ Pending'
  <2>1. CASE Refuse(s) \/ Begin(s)
    BY <1>1, <2>1 DEF Refuse, Begin, Pending
  <2>2. CASE ResetLink(s)
    <3>1. todo[s] # {} /\ NextLink(s) \in todo[s]
      BY <1>1, <2>2 DEF ResetLink, ResetLinkTo, Pending
    <3> QED
      BY <2>2, <3>1 DEF ResetLink, ResetLinkTo, Pending
  <2>3. CASE ResetFails(s) \/ ReadFails(s)
    BY <2>3 DEF ResetFails, ReadFails, Pending
  <2>12. CASE ReadHeader(s)
    BY <2>12 DEF ReadHeader, Pending
  <2>4. CASE ReadBatch(s)
    <3>1. pos[s] \in 1..Len(Batches[s]) /\ pos[s] - 1 \in Nat
      BY <2>4 DEF ReadBatch, ReadBatchFrom
    <3>2. Targets(Batches[s][pos[s]], pos[s] - 1) \subseteq Worker
      BY <3>1, TargetsAreWorkers
    <3> QED
      BY <1>2, <2>4, <3>1, <3>2 DEF ReadBatch, ReadBatchFrom, Pending
  <2>5. CASE ReadEnd(s)
    BY <1>1, <2>5 DEF ReadEnd, Pending
  <2>6. CASE Put(s)
    BY <2>6 DEF Put, Pending
  <2>7. CASE Count(s)
    BY <2>7 DEF Count, CountTo, Pending
  <2>8. CASE PutSentinel(s)
    BY <2>8 DEF PutSentinel, Pending
  <2>9. CASE Await(s)
    <3>1. todo[s] # {} /\ NextLink(s) \in todo[s]
      BY <1>1, <2>9 DEF Await, AwaitUntil, Pending
    <3> QED
      BY <2>9, <3>1 DEF Await, AwaitUntil, Pending
  <2>10. CASE AwaitFails(s)
    BY <2>10 DEF AwaitFails, Pending
  <2>11. CASE Finish(s)
    BY <2>11 DEF Finish, Pending, CoordOK
  <2> QED
    BY <1>4, <2>1, <2>2, <2>3, <2>4, <2>5, <2>6, <2>7, <2>8, <2>9, <2>10, <2>11, <2>12 DEF Handler
<1>5. ASSUME NEW w \in Worker, Link(w) \/ SendLost(w) \/ Fold(w) \/ Crash(w)
      PROVE  SessionOK' /\ Pending'
  BY <1>5 DEF Link, Send, HalfClose, SendLost, Fold, FoldTables, FoldCount, Ack, Crash, Pending
<1>6. ASSUME NEW x \in Query, Ask(x) \/ Serve(x) PROVE SessionOK' /\ Pending'
  BY <1>6 DEF Ask, Serve, Fetch, FetchFrom, Merge, FetchInfo, AddInfo, FetchFails, Answer,
              AnswerOr, Pending
<1>7. CASE UNCHANGED vars
  BY <1>7 DEF vars, Pending
<1> QED
  BY <1>3, <1>4, <1>5, <1>6, <1>7 DEF Next, Quiet

\* What the current batch has for a worker.
LEMMA CurrentPortion ==
  ASSUME IInv, NEW s \in Session, pc[s] = "dispatch", NEW w
  PROVE  Part(Current(s), w) \in Portion /\ Cardinality(Current(s)) \in Nat
<1>1. pos[s] \in 2..(Len(Batches[s]) + 1) /\ Len(Batches[s]) \in Nat
  BY DataAssumption DEF IInv, Pending
<1>2. pos[s] - 1 \in 1..Len(Batches[s])
  BY <1>1
<1>3. Current(s) \in Portion /\ Part(Current(s), w) \in Portion
  BY <1>2, BatchPortion DEF Current
<1> QED
  BY <1>3, FS_CardinalityType DEF Portion

LEMMA LinkStep ==
  ASSUME IInv, [Next]_vars
  PROVE  LinkOK' /\ Bounded' /\ Folded'
<1> DEFINE Goal == LinkOK' /\ Bounded' /\ Folded'
<1> USE DEF IInv, TypeOK, linkVars, workerVars
<1>1. \A s \in Session : todo[s] # {} => NextLink(s) \in Worker
  BY MinWorker DEF NextLink, SessionOK
<1>2. {} \in Portion
  BY FS_EmptySet DEF Portion
<1>3. ASSUME NEW s \in Session, Open(s) \/ Cancel(s) PROVE Goal
  BY <1>3 DEF Open, Cancel, LinkOK, Bounded, Folded
<1>4. ASSUME NEW s \in Session, Handler(s) PROVE Goal
  <2>1. CASE Refuse(s) \/ Begin(s) \/ ResetFails(s)
    BY <2>1 DEF Refuse, Begin, ResetFails, LinkOK, Bounded, Folded
  <2>2. CASE ResetLink(s)
    <3>1. NextLink(s) \in Worker
      BY <1>1, <2>2 DEF ResetLink, ResetLinkTo, Pending
    <3>2. /\ tables' = [tables EXCEPT ![NextLink(s)] = <<>>]
          /\ count' = [count EXCEPT ![NextLink(s)] = 0]
          /\ stream' = [stream EXCEPT ![NextLink(s)] = "open"]
          /\ sent' = [sent EXCEPT ![NextLink(s)] = <<>>]
          /\ UNCHANGED <<queue, wire, alive, folding>> /\ ~folding[NextLink(s)]
      BY <2>2 DEF ResetLink, ResetLinkTo
    <3>3. <<>> \in Seq(Portion) /\ "open" \in Streams
      BY DEF Streams
    <3> QED
      BY <3>1, <3>2, <3>3 DEF LinkOK, Bounded, Folded
  <2>3. CASE ReadHeader(s) \/ ReadBatch(s) \/ ReadFails(s) \/ ReadEnd(s)
    BY <2>3 DEF ReadHeader, ReadBatch, ReadBatchFrom, ReadFails, ReadEnd, LinkOK, Bounded, Folded
  <2>4. CASE Put(s)
    <3> DEFINE w == NextLink(s)
               b == Part(Current(s), w)
    <3>1. w \in Worker /\ b \in Portion
      BY <1>1, <2>4, CurrentPortion DEF Put
    <3>2. Data(b) \in Item
      BY <3>1 DEF Data, Item
    <3>3. Len(queue[w]) < QSize /\ queue' = [queue EXCEPT ![w] = Append(@, Data(b))]
          /\ sent' = [sent EXCEPT ![w] = Append(@, b)]
          /\ UNCHANGED <<stream, workerVars>>
      BY <2>4 DEF Put
    <3> HIDE DEF w, b
    <3>4. Append(queue[w], Data(b)) \in Seq(Item) /\ Append(sent[w], b) \in Seq(Portion)
          /\ Len(Append(queue[w], Data(b))) = Len(queue[w]) + 1 /\ Len(queue[w]) \in Nat
      BY <3>1, <3>2, AppendSeq DEF LinkOK
    <3> QED
      BY <3>1, <3>3, <3>4, SizeAssumption DEF LinkOK, Bounded, Folded
  <2>5. CASE PutSentinel(s)
    <3> DEFINE w == NextLink(s)
    <3>1. w \in Worker
      BY <1>1, <2>5 DEF PutSentinel, Pending
    <3>2. Sentinel \in Item
      BY <1>2 DEF Sentinel, Item
    <3>3. Len(queue[w]) < QSize /\ queue' = [queue EXCEPT ![w] = Append(@, Sentinel)]
          /\ UNCHANGED <<stream, sent, workerVars>>
      BY <2>5 DEF PutSentinel
    <3> HIDE DEF w
    <3>4. Append(queue[w], Sentinel) \in Seq(Item)
          /\ Len(Append(queue[w], Sentinel)) = Len(queue[w]) + 1 /\ Len(queue[w]) \in Nat
      BY <3>1, <3>2, AppendSeq DEF LinkOK
    <3> QED
      BY <3>1, <3>3, <3>4, SizeAssumption DEF LinkOK, Bounded, Folded
  <2>6. CASE Count(s) \/ Await(s) \/ AwaitFails(s) \/ Finish(s)
    BY <2>6 DEF Count, CountTo, Await, AwaitUntil, AwaitFails, Finish, LinkOK, Bounded, Folded
  <2> QED
    BY <1>4, <2>1, <2>2, <2>3, <2>4, <2>5, <2>6 DEF Handler
<1>5. ASSUME NEW w \in Worker, Send(w) PROVE Goal
  <2>1. Head(queue[w]) \in Item /\ Tail(queue[w]) \in Seq(Item)
        /\ Len(Tail(queue[w])) = Len(queue[w]) - 1 /\ Len(queue[w]) \in Nat
    BY <1>5, TailSeq DEF Send, LinkOK
  <2>2. Append(wire[w], Head(queue[w]).part) \in Seq(Portion)
        /\ Len(Append(wire[w], Head(queue[w]).part)) = Len(wire[w]) + 1 /\ Len(wire[w]) \in Nat
    BY <2>1, AppendSeq DEF LinkOK, Item
  <2> QED
    BY <1>5, <2>1, <2>2, SizeAssumption DEF Send, LinkOK, Bounded, Folded
<1>6. ASSUME NEW w \in Worker, HalfClose(w) \/ SendLost(w) PROVE Goal
  <2>1. queue[w] # <<>>
    BY <1>6 DEF HalfClose, SendLost
  <2>2. Tail(queue[w]) \in Seq(Item) /\ Len(Tail(queue[w])) = Len(queue[w]) - 1
        /\ Len(queue[w]) \in Nat
    BY <2>1, TailSeq DEF LinkOK
  <2>3. /\ queue' = [queue EXCEPT ![w] = Tail(@)]
        /\ stream' \in [Worker -> Streams]
        /\ UNCHANGED <<sent, workerVars>>
    BY <1>6 DEF HalfClose, SendLost, LinkOK, Streams
  <2> QED
    BY <2>2, <2>3, SizeAssumption DEF LinkOK, Bounded, Folded
<1>7. ASSUME NEW w \in Worker, FoldTables(w) PROVE Goal
  <2>1. Head(wire[w]) \in Portion /\ Tail(wire[w]) \in Seq(Portion)
        /\ Len(Tail(wire[w])) = Len(wire[w]) - 1 /\ Len(wire[w]) \in Nat
    BY <1>7, TailSeq DEF FoldTables, LinkOK
  <2>2. Append(tables[w], Head(wire[w])) \in Seq(Portion)
        /\ Append(tables[w], Head(wire[w])) # <<>>
    BY <2>1, AppendSeq DEF LinkOK
  <2> QED
    BY <1>7, <2>1, <2>2, SizeAssumption DEF FoldTables, LinkOK, Bounded, Folded
<1>8. ASSUME NEW w \in Worker, FoldCount(w) PROVE Goal
  <2>1. tables[w] # <<>> /\ tables[w] \in Seq(Portion)
    BY <1>8 DEF FoldCount, LinkOK, Folded
  <2>2. tables[w][Len(tables[w])] \in Portion
    BY <2>1
  <2>3. Cardinality(tables[w][Len(tables[w])]) \in Nat
    BY <2>2, FS_CardinalityType DEF Portion
  <2>4. count[w] + Cardinality(tables[w][Len(tables[w])]) \in Nat
    BY <2>3 DEF LinkOK
  <2> QED
    BY <1>8, <2>4 DEF FoldCount, LinkOK, Bounded, Folded
<1>9. ASSUME NEW w \in Worker, Ack(w) \/ Crash(w) PROVE Goal
  <2>1. CASE Ack(w)
    BY <2>1 DEF Ack, LinkOK, Bounded, Folded, Streams
  <2>2. CASE Crash(w)
    <3>1. <<>> \in Seq(Portion) /\ Len(<<>>) = 0
      OBVIOUS
    <3>2. stream' \in [Worker -> Streams]
      BY <2>2 DEF Crash, LinkOK, Streams
    <3> QED
      BY <2>2, <3>1, <3>2, SizeAssumption DEF Crash, LinkOK, Bounded, Folded
  <2> QED
    BY <1>9, <2>1, <2>2
<1>10. ASSUME NEW x \in Query, Ask(x) \/ Serve(x) PROVE Goal
  BY <1>10 DEF Ask, Serve, Fetch, FetchFrom, Merge, FetchInfo, AddInfo, FetchFails, Answer,
               AnswerOr, LinkOK, Bounded, Folded
<1>11. CASE UNCHANGED vars
  BY <1>11 DEF vars, LinkOK, Bounded, Folded
<1> QED
  BY <1>3, <1>4, <1>5, <1>6, <1>7, <1>8, <1>9, <1>10, <1>11 DEF Next, Quiet, Link, Fold

LEMMA QueryStep ==
  ASSUME IInv, [Next]_vars
  PROVE  QueryOK'
<1> USE DEF IInv, TypeOK, queryVars
<1>1. ASSUME NEW s \in Session, Open(s) \/ Cancel(s) PROVE QueryOK'
  BY <1>1 DEF Open, Cancel, QueryOK
<1>2. ASSUME NEW s \in Session, Handler(s) PROVE QueryOK'
  <2>1. UNCHANGED queryVars
    BY <1>2 DEF Handler, Refuse, Begin, ResetLink, ResetLinkTo, ResetFails, ReadHeader,
         ReadBatch, ReadBatchFrom, ReadFails, ReadEnd, Put, Count, CountTo, PutSentinel, Await,
         AwaitUntil, AwaitFails, Finish
  <2> QED
    BY <2>1 DEF QueryOK
<1>3. ASSUME NEW w \in Worker, Link(w) \/ SendLost(w) \/ Fold(w) \/ Crash(w) PROVE QueryOK'
  BY <1>3 DEF Link, Send, HalfClose, SendLost, Fold, FoldTables, FoldCount, Ack, Crash, QueryOK
<1>4. ASSUME NEW x \in Query, Ask(x) PROVE QueryOK'
  <2>1. NoReport \in Report
    BY DEF NoReport, Report
  <2>2. [owner |-> owner, complete |-> complete, resetting |-> lock # Free] \in
          [owner : Session \union {Free}, complete : BOOLEAN, resetting : BOOLEAN]
    BY DEF CoordOK
  <2> QED
    BY <1>4, <2>1, <2>2 DEF Ask, QueryOK
<1>5. ASSUME NEW x \in Query, Fetch(x) PROVE QueryOK'
  <2>1. PICK w \in Worker :
          /\ partial' = [partial EXCEPT ![x][w] = [count |-> count[w], tables |-> tables[w]]]
          /\ pend' = [pend EXCEPT ![x] = @ \ {w}]
    BY <1>5 DEF Fetch, FetchFrom, QueryOK
  <2>2. [count |-> count[w], tables |-> tables[w]] \in State
    BY DEF LinkOK, State
  <2> QED
    BY <1>5, <2>1, <2>2 DEF Fetch, FetchFrom, QueryOK
<1>6. ASSUME NEW x \in Query, Merge(x) PROVE QueryOK'
  <2> DEFINE f == [w \in Worker |-> partial[x][w].count]
             r == [active |-> active, complete |-> complete, ingested |-> ingested,
                   processed |-> Sum(f),
                   header |-> header, since |-> tFirst, owner |-> owner, workers |-> 0]
  <2>1. f \in [Worker -> Nat]
    BY DEF QueryOK, State
  <2>2. Sum(f) \in Nat
    BY <2>1, WorkerSum
  <2>3. r \in Report
    BY <2>2 DEF Report, CoordOK
  <2>4. report' = [report EXCEPT ![x] = r] /\ UNCHANGED <<partial, info, asked>>
    BY <1>6 DEF Merge
  <2>5. /\ qpc' \in [Query -> {"idle", "fetching", "informing", "answering", "done", "failed"}]
        /\ pend' \in [Query -> SUBSET Worker]
    BY <1>6 DEF Merge, QueryOK
  <2> HIDE DEF r
  <2> QED
    BY <2>3, <2>4, <2>5 DEF QueryOK
<1>7. ASSUME NEW x \in Query, FetchInfo(x) PROVE QueryOK'
  <2>1. PICK w \in Worker : info' = [info EXCEPT ![x][w] = count[w]]
                            /\ pend' = [pend EXCEPT ![x] = @ \ {w}]
    BY <1>7 DEF FetchInfo, QueryOK
  <2> QED
    BY <1>7, <2>1 DEF FetchInfo, QueryOK, LinkOK
<1>8. ASSUME NEW x \in Query, AddInfo(x) PROVE QueryOK'
  <2>1. Sum(info[x]) \in Nat
    BY WorkerSum DEF QueryOK
  <2>2. report[x] \in Report
    BY DEF QueryOK
  <2>3. [report[x] EXCEPT !.workers = Sum(info[x])] \in Report
    <3> DEFINE n == Sum(info[x])
    <3> HIDE DEF n
    <3> QED
      BY <2>1, <2>2 DEF Report
  <2> QED
    BY <1>8, <2>3 DEF AddInfo, QueryOK
<1>9. ASSUME NEW x \in Query, FetchFails(x) \/ Answer(x) PROVE QueryOK'
  BY <1>9 DEF FetchFails, Answer, AnswerOr, QueryOK
<1>10. CASE UNCHANGED vars
  BY <1>10 DEF vars, QueryOK
<1> QED
  BY <1>1, <1>2, <1>3, <1>4, <1>5, <1>6, <1>7, <1>8, <1>9, <1>10 DEF Next, Quiet, Serve

-----------------------------------------------------------------------------
LEMMA InitIInv == Init => IInv
<1> SUFFICES ASSUME Init PROVE IInv
  OBVIOUS
<1>1. CoordOK /\ SessionOK /\ Pending
  BY DEF Init, CoordOK, SessionOK, Pending, Pcs
<1>2. LinkOK /\ Bounded /\ Folded
  <2>1. <<>> \in Seq(Portion) /\ <<>> \in Seq(Item) /\ Len(<<>>) = 0
    OBVIOUS
  <2> QED
    BY <2>1, SizeAssumption DEF Init, LinkOK, Bounded, Folded, Streams
<1>3. QueryOK
  <2>1. NoState \in State /\ NoReport \in Report
    BY DEF NoState, NoReport, State, Report
  <2> QED
    BY <2>1 DEF Init, QueryOK
<1> QED
  BY <1>1, <1>2, <1>3 DEF IInv, TypeOK

LEMMA StepIInv == IInv /\ [Next]_vars => IInv'
BY CoordStep, SessionStep, LinkStep, QueryStep DEF IInv, TypeOK

LEMMA Invariance == Spec => []IInv
BY InitIInv, StepIInv, PTL DEF Spec

\* Every variable of the coordinator, the links, the workers and the queries has
\* its type, and back-pressure works: a link's queue holds at most QSize batches
\* and at most Window are under way to a worker.
THEOREM TypeCorrect == Spec => []TypeOK
<1>1. IInv => TypeOK
  BY DEF IInv
<1> QED
  BY <1>1, Invariance, PTL

-----------------------------------------------------------------------------
(***************************************************************************)
(* One session at a time: what the stage of a handler says of the          *)
(* coordinator, and of how far the handler has got.                        *)
(***************************************************************************)

\* A session that has begun and not ended well.
Taken == Running \union {"failed"}

\* active belongs to the session that set it until that one is done; the lock is
\* held across RPCs only while its workers are reset.
Owns ==
  /\ active <=> owner # Free /\ ~complete
  /\ complete => owner # Free /\ pc[owner] = "done" /\ outcome[owner] = ingested
  /\ active => pc[owner] \in Taken
  /\ lock # Free => lock = owner /\ pc[owner] = "resetting"
  /\ \A s \in Session : pc[s] \in Taken => owner = s /\ active
  /\ \A s \in Session : pc[s] = "resetting" => lock = s

\* Where a session stands in its stream, and the links it has left.
Stages ==
  \A s \in Session :
    /\ pos[s] <= Len(Batches[s]) + 1
    /\ pc[s] \in {"idle", "opening", "refused", "resetting"} => pos[s] = 0
    /\ pc[s] \in {"closing", "awaiting", "finishing", "done"} => pos[s] = Len(Batches[s]) + 1
    /\ pc[s] \in {"reading", "finishing"} => todo[s] = {}
    /\ pc[s] = "dispatch" => todo[s] \subseteq Targets(Current(s), pos[s] - 2)

\* Nobody has heard of a session that has not begun.
Unheard ==
  \A s \in Session : pc[s] \in {"idle", "opening", "refused"} =>
    /\ owner # s
    /\ \A x \in Query : asked[x].owner # s /\ report[x].owner # s

\* The header and t_first are the owner's once it has read that far, and before
\* its first batch nothing is counted.
Marked ==
  /\ ingested > 0 => owner # Free /\ pos[owner] >= 2
  /\ owner # Free =>
       /\ pos[owner] >= 1 => header = owner
       /\ pos[owner] >= 2 => tFirst = owner

\* What a query noted when it was asked stays true while the owner is the same.
Noted ==
  \A x \in Query : asked[x].owner = owner =>
    /\ asked[x].complete => complete
    /\ ~asked[x].resetting => lock = Free

\* A report's header and start time are its session's.
Headed ==
  \A x \in Query : Reported(x) /\ report[x].ingested > 0 =>
    report[x].header = report[x].owner /\ report[x].since = report[x].owner

LEMMA OwnsStep ==
  ASSUME IInv, Stages, Unheard, Owns, [Next]_vars
  PROVE  Owns'
<1> USE DEF coordVars, sessionVars, Goto, Taken, Running
<1> USE ActorAssumption
<1>0. /\ pc \in [Session -> Pcs] /\ outcome \in [Session -> Nat]
      /\ owner \in Session \union {Free} /\ lock \in Session \union {Free}
      /\ active \in BOOLEAN /\ complete \in BOOLEAN
  BY DEF IInv, TypeOK, CoordOK, SessionOK
<1>1. ASSUME NEW s \in Session, Open(s) \/ Cancel(s) PROVE Owns'
  BY <1>0, <1>1 DEF Open, Cancel, Owns, Unheard
<1>2. ASSUME NEW s \in Session, Handler(s) PROVE Owns'
  <2>1. CASE Refuse(s)
    BY <1>0, <2>1 DEF Refuse, Owns
  <2>2. CASE Begin(s)
    BY <1>0, <2>2 DEF Begin, Owns
  <2>3. CASE ResetLink(s)
    BY <1>0, <2>3 DEF ResetLink, ResetLinkTo, Owns
  <2>4. CASE ResetFails(s)
    BY <1>0, <2>4 DEF ResetFails, Owns
  <2>5. CASE ReadHeader(s) \/ Put(s)
    BY <1>0, <2>5 DEF ReadHeader, Put, Owns
  <2>6. CASE ReadBatch(s)
    BY <1>0, <2>6 DEF ReadBatch, ReadBatchFrom, Owns
  <2>7. CASE ReadFails(s) \/ ReadEnd(s)
    BY <1>0, <2>7 DEF ReadFails, ReadEnd, Owns
  <2>8. CASE Count(s)
    BY <1>0, <2>8 DEF Count, CountTo, Owns
  <2>9. CASE PutSentinel(s) \/ AwaitFails(s)
    BY <1>0, <2>9 DEF PutSentinel, AwaitFails, Owns
  <2>10. CASE Await(s)
    BY <1>0, <2>10 DEF Await, AwaitUntil, Owns
  <2>11. CASE Finish(s)
    BY <1>0, <2>11 DEF Finish, Owns
  <2> QED
    BY <1>2, <2>1, <2>2, <2>3, <2>4, <2>5, <2>6, <2>7, <2>8, <2>9, <2>10, <2>11 DEF Handler
<1>3. ASSUME NEW w \in Worker, Link(w) \/ SendLost(w) \/ Fold(w) \/ Crash(w) PROVE Owns'
  BY <1>3 DEF Link, Send, HalfClose, SendLost, Fold, FoldTables, FoldCount, Ack, Crash, Owns
<1>4. ASSUME NEW x \in Query, Ask(x) \/ Serve(x) PROVE Owns'
  BY <1>4 DEF Ask, Serve, Fetch, FetchFrom, Merge, FetchInfo, AddInfo, FetchFails, Answer,
              AnswerOr, Owns
<1>5. CASE UNCHANGED vars
  BY <1>5 DEF vars, Owns
<1> QED
  BY <1>1, <1>2, <1>3, <1>4, <1>5 DEF Next, Quiet

LEMMA StagesStep ==
  ASSUME IInv, Stages, Owns, [Next]_vars
  PROVE  Stages'
<1> USE DEF sessionVars, Goto
<1>0. /\ pc \in [Session -> Pcs] /\ pos \in [Session -> Nat]
      /\ todo \in [Session -> SUBSET Worker]
      /\ \A s \in Session : Len(Batches[s]) \in Nat
  BY DataAssumption DEF IInv, TypeOK, SessionOK
<1> USE DEF Current
<1>1. ASSUME NEW s \in Session, Open(s) \/ Cancel(s) PROVE Stages'
  BY <1>0, <1>1 DEF Open, Cancel, Stages
<1>2. ASSUME NEW s \in Session, Handler(s) PROVE Stages'
  <2>1. CASE Refuse(s)
    BY <1>0, <2>1 DEF Refuse, Stages
  <2>2. CASE Begin(s)
    BY <1>0, <2>2 DEF Begin, Stages
  <2>3. CASE ResetLink(s)
    BY <1>0, <2>3 DEF ResetLink, ResetLinkTo, Stages
  <2>4. CASE ResetFails(s)
    BY <1>0, <2>4 DEF ResetFails, Stages
  <2>5. CASE ReadHeader(s)
    BY <1>0, <2>5 DEF ReadHeader, Stages
  <2>6. CASE ReadBatch(s)
    BY <1>0, <2>6 DEF ReadBatch, ReadBatchFrom, Stages
  <2>7. CASE ReadFails(s) \/ ReadEnd(s)
    BY <1>0, <2>7 DEF ReadFails, ReadEnd, Stages
  <2>8. CASE Count(s)
    BY <1>0, <2>8 DEF Count, CountTo, Stages
  <2>9. CASE PutSentinel(s) \/ AwaitFails(s)
    BY <1>0, <2>9 DEF PutSentinel, AwaitFails, Stages
  <2>10. CASE Await(s)
    BY <1>0, <2>10 DEF Await, AwaitUntil, Stages
  <2>11. CASE Finish(s)
    BY <1>0, <2>11 DEF Finish, Stages
  <2>12. CASE Put(s)
    BY <1>0, <2>12 DEF Put, Stages
  <2> QED
    BY <1>2, <2>1, <2>2, <2>3, <2>4, <2>5, <2>6, <2>7, <2>8, <2>9, <2>10, <2>11, <2>12 DEF Handler
<1>3. ASSUME NEW w \in Worker, Link(w) \/ SendLost(w) \/ Fold(w) \/ Crash(w) PROVE Stages'
  BY <1>3 DEF Link, Send, HalfClose, SendLost, Fold, FoldTables, FoldCount, Ack, Crash, Stages
<1>4. ASSUME NEW x \in Query, Ask(x) \/ Serve(x) PROVE Stages'
  BY <1>4 DEF Ask, Serve, Fetch, FetchFrom, Merge, FetchInfo, AddInfo, FetchFails, Answer,
              AnswerOr, Stages
<1>5. CASE UNCHANGED vars
  BY <1>5 DEF vars, Stages
<1> QED
  BY <1>1, <1>2, <1>3, <1>4, <1>5 DEF Next, Quiet

\* Only Ask, Merge and AddInfo change what a query has noted or reports.
LEMMA UnheardStep ==
  ASSUME IInv, Unheard, Owns, [Next]_vars
  PROVE  Unheard'
<1> USE DEF coordVars, sessionVars, queryVars, Goto
<1> USE ActorAssumption
<1>0. /\ pc \in [Session -> Pcs] /\ owner \in Session \union {Free}
      /\ report \in [Query -> Report] /\ DOMAIN asked = Query
  BY DEF IInv, TypeOK, CoordOK, SessionOK, QueryOK
<1>1. ASSUME NEW s \in Session, Open(s) \/ Cancel(s) PROVE Unheard'
  BY <1>0, <1>1 DEF Open, Cancel, Unheard
<1>2. ASSUME NEW s \in Session, Handler(s) PROVE Unheard'
  <2>1. CASE Refuse(s)
    BY <1>0, <2>1 DEF Refuse, Unheard
  <2>2. CASE Begin(s)
    BY <1>0, <2>2 DEF Begin, Unheard
  <2>3. CASE ~Refuse(s) /\ ~Begin(s)
    <3>1. \A t \in Session : pc'[t] \in {"idle", "opening", "refused"} =>
                               pc[t] \in {"idle", "opening", "refused"}
      BY <1>0, <1>2, <2>3 DEF Handler, ResetLink, ResetLinkTo, ResetFails, ReadHeader,
           ReadBatch, ReadBatchFrom, ReadFails, ReadEnd, Put, Count, CountTo, PutSentinel, Await,
           AwaitUntil, AwaitFails, Finish
    <3>2. UNCHANGED <<owner, asked, report>>
      BY <1>2, <2>3 DEF Handler, ResetLink, ResetLinkTo, ResetFails, ReadHeader,
           ReadBatch, ReadBatchFrom, ReadFails, ReadEnd, Put, Count, CountTo, PutSentinel, Await,
           AwaitUntil, AwaitFails, Finish
    <3> QED
      BY <3>1, <3>2 DEF Unheard
  <2> QED
    BY <2>1, <2>2, <2>3
<1>3. ASSUME NEW w \in Worker, Link(w) \/ SendLost(w) \/ Fold(w) \/ Crash(w) PROVE Unheard'
  BY <1>3 DEF Link, Send, HalfClose, SendLost, Fold, FoldTables, FoldCount, Ack, Crash, Unheard
<1>4. ASSUME NEW x \in Query, Ask(x) PROVE Unheard'
  BY <1>0, <1>4 DEF Ask, Unheard, NoReport
<1>5. ASSUME NEW x \in Query, Merge(x) PROVE Unheard'
  BY <1>0, <1>5 DEF Merge, Unheard
<1>6. ASSUME NEW x \in Query, AddInfo(x) PROVE Unheard'
  <2>1. \A y \in Query : report'[y].owner = report[y].owner
    BY <1>0, <1>6 DEF AddInfo, Report
  <2> QED
    BY <1>6, <2>1 DEF AddInfo, Unheard
<1>7. ASSUME NEW x \in Query, Fetch(x) \/ FetchInfo(x) \/ FetchFails(x) \/ Answer(x)
      PROVE  Unheard'
  BY <1>7 DEF Fetch, FetchFrom, FetchInfo, FetchFails, Answer, AnswerOr, Unheard
<1>8. CASE UNCHANGED vars
  BY <1>8 DEF vars, Unheard
<1> QED
  BY <1>1, <1>2, <1>3, <1>4, <1>5, <1>6, <1>7, <1>8 DEF Next, Quiet, Serve

LEMMA MarkedStep ==
  ASSUME IInv, Owns, Stages, Marked, [Next]_vars
  PROVE  Marked'
<1> USE DEF coordVars, sessionVars, Goto, Taken, Running
<1> USE ActorAssumption
<1>0. /\ pc \in [Session -> Pcs] /\ pos \in [Session -> Nat] /\ ingested \in Nat
      /\ owner \in Session \union {Free}
      /\ \A s \in Session : pc[s] = "dispatch" => pos[s] >= 2
      /\ \A s \in Session : Len(Batches[s]) \in Nat
  BY DataAssumption DEF IInv, TypeOK, CoordOK, SessionOK, Pending
<1>1. ASSUME NEW s \in Session, Open(s) \/ Cancel(s) PROVE Marked'
  BY <1>0, <1>1 DEF Open, Cancel, Marked
<1>2. ASSUME NEW s \in Session, Handler(s) PROVE Marked'
  <2>1. CASE Refuse(s) \/ ResetFails(s)
    BY <1>0, <2>1 DEF Refuse, ResetFails, Marked
  <2>2. CASE Begin(s)
    BY <1>0, <2>2 DEF Begin, Marked, Stages
  <2>3. CASE ResetLink(s)
    BY <1>0, <2>3 DEF ResetLink, ResetLinkTo, Marked
  <2>4. CASE ReadHeader(s)
    BY <1>0, <2>4 DEF ReadHeader, Marked, Owns
  <2>5. CASE ReadBatch(s)
    BY <1>0, <2>5 DEF ReadBatch, ReadBatchFrom, Marked, Owns
  <2>6. CASE ReadFails(s) \/ ReadEnd(s)
    BY <1>0, <2>6 DEF ReadFails, ReadEnd, Marked
  <2>7. CASE Count(s)
    BY <1>0, <2>7 DEF Count, CountTo, Marked, Owns
  <2>8. CASE PutSentinel(s) \/ AwaitFails(s) \/ Put(s)
    BY <1>0, <2>8 DEF PutSentinel, AwaitFails, Put, Marked
  <2>9. CASE Await(s)
    BY <1>0, <2>9 DEF Await, AwaitUntil, Marked
  <2>10. CASE Finish(s)
    BY <1>0, <2>10 DEF Finish, Marked
  <2> QED
    BY <1>2, <2>1, <2>2, <2>3, <2>4, <2>5, <2>6, <2>7, <2>8, <2>9, <2>10 DEF Handler
<1>3. ASSUME NEW w \in Worker, Link(w) \/ SendLost(w) \/ Fold(w) \/ Crash(w) PROVE Marked'
  BY <1>3 DEF Link, Send, HalfClose, SendLost, Fold, FoldTables, FoldCount, Ack, Crash, Marked
<1>4. ASSUME NEW x \in Query, Ask(x) \/ Serve(x) PROVE Marked'
  BY <1>4 DEF Ask, Serve, Fetch, FetchFrom, Merge, FetchInfo, AddInfo, FetchFails, Answer,
              AnswerOr, Marked
<1>5. CASE UNCHANGED vars
  BY <1>5 DEF vars, Marked
<1> QED
  BY <1>1, <1>2, <1>3, <1>4, <1>5 DEF Next, Quiet

LEMMA NotedStep ==
  ASSUME IInv, Owns, Unheard, Noted, [Next]_vars
  PROVE  Noted'
<1> USE DEF coordVars, queryVars, Goto, Taken, Running
<1> USE ActorAssumption
<1>0. /\ owner \in Session \union {Free} /\ DOMAIN asked = Query /\ complete \in BOOLEAN
      /\ \A x \in Query : asked[x].complete \in BOOLEAN /\ asked[x].resetting \in BOOLEAN
  BY DEF IInv, TypeOK, CoordOK, QueryOK
<1>1. ASSUME NEW s \in Session, Open(s) \/ Cancel(s) PROVE Noted'
  BY <1>0, <1>1 DEF Open, Cancel, Noted
<1>2. ASSUME NEW s \in Session, Handler(s) PROVE Noted'
  <2>1. CASE Begin(s)
    BY <1>0, <2>1 DEF Begin, Noted, Unheard
  <2>2. CASE ~Begin(s)
    <3>1. /\ UNCHANGED <<owner, asked>> /\ (complete => complete')
          /\ (lock = Free => lock' = Free)
      BY <1>2, <2>2 DEF Handler, Refuse, ResetLink, ResetLinkTo, ResetFails, ReadHeader,
           ReadBatch, ReadBatchFrom, ReadFails, ReadEnd, Put, Count, CountTo, PutSentinel, Await,
           AwaitUntil, AwaitFails, Finish
    <3> QED
      BY <3>1 DEF Noted
  <2> QED
    BY <2>1, <2>2
<1>3. ASSUME NEW w \in Worker, Link(w) \/ SendLost(w) \/ Fold(w) \/ Crash(w) PROVE Noted'
  BY <1>3 DEF Link, Send, HalfClose, SendLost, Fold, FoldTables, FoldCount, Ack, Crash, Noted
<1>4. ASSUME NEW x \in Query, Ask(x) PROVE Noted'
  BY <1>0, <1>4 DEF Ask, Noted
<1>5. ASSUME NEW x \in Query, Serve(x) PROVE Noted'
  BY <1>0, <1>5 DEF Serve, Fetch, FetchFrom, Merge, FetchInfo, AddInfo, FetchFails, Answer,
                    AnswerOr, Noted
<1>6. CASE UNCHANGED vars
  BY <1>6 DEF vars, Noted
<1> QED
  BY <1>1, <1>2, <1>3, <1>4, <1>5, <1>6 DEF Next, Quiet

LEMMA HeadedStep ==
  ASSUME IInv, Marked, Headed, [Next]_vars
  PROVE  Headed'
<1> USE DEF queryVars, Reported
<1>0. /\ qpc \in [Query -> {"idle", "fetching", "informing", "answering", "done", "failed"}]
      /\ report \in [Query -> Report] /\ ingested \in Nat /\ owner \in Session \union {Free}
      /\ pos \in [Session -> Nat]
  BY DEF IInv, TypeOK, CoordOK, SessionOK, QueryOK
<1>1. ASSUME UNCHANGED <<qpc, report>> PROVE Headed'
  BY <1>1 DEF Headed
<1>2. ASSUME NEW x \in Query, Ask(x) \/ FetchFails(x) PROVE Headed'
  BY <1>0, <1>2 DEF Ask, FetchFails, Headed
<1>3. ASSUME NEW x \in Query, Answer(x) PROVE Headed'
  BY <1>0, <1>3 DEF Answer, AnswerOr, Headed
<1>4. ASSUME NEW x \in Query, Merge(x) PROVE Headed'
  <2>1. /\ report'[x].ingested = ingested /\ report'[x].header = header
        /\ report'[x].since = tFirst /\ report'[x].owner = owner
    BY <1>0, <1>4 DEF Merge
  <2>2. \A y \in Query \ {x} : report'[y] = report[y] /\ qpc'[y] = qpc[y]
    BY <1>0, <1>4 DEF Merge
  <2> QED
    BY <1>0, <2>1, <2>2 DEF Headed, Marked
<1>5. ASSUME NEW x \in Query, AddInfo(x) PROVE Headed'
  <2>1. \A y \in Query : /\ report'[y].ingested = report[y].ingested
                         /\ report'[y].header = report[y].header
                         /\ report'[y].since = report[y].since
                         /\ report'[y].owner = report[y].owner
    BY <1>0, <1>5 DEF AddInfo, Report
  <2>2. \A y \in Query : Reported(y)' => Reported(y)
    BY <1>0, <1>5 DEF AddInfo
  <2> QED
    BY <2>1, <2>2 DEF Headed
<1>6. ASSUME NEW s \in Session, Open(s) \/ Cancel(s) \/ Handler(s) PROVE UNCHANGED queryVars
  BY <1>6 DEF Open, Cancel, Handler, Refuse, Begin, ResetLink, ResetLinkTo, ResetFails, ReadHeader,
       ReadBatch, ReadBatchFrom, ReadFails, ReadEnd, Put, Count, CountTo, PutSentinel, Await,
       AwaitUntil, AwaitFails, Finish
<1>7. ASSUME NEW w \in Worker, Link(w) \/ SendLost(w) \/ Fold(w) \/ Crash(w)
      PROVE  UNCHANGED queryVars
  BY <1>7 DEF Link, Send, HalfClose, SendLost, Fold, FoldTables, FoldCount, Ack, Crash
<1>8. ASSUME NEW x \in Query, Fetch(x) \/ FetchInfo(x) PROVE UNCHANGED <<qpc, report>>
  BY <1>8 DEF Fetch, FetchFrom, FetchInfo
<1>9. CASE UNCHANGED vars
  BY <1>1, <1>9 DEF vars
<1> QED
  BY <1>1, <1>2, <1>3, <1>4, <1>5, <1>6, <1>7, <1>8, <1>9 DEF Next, Quiet, Serve

-----------------------------------------------------------------------------
(***************************************************************************)
(* The links: what the state of a Process call says of what is under way.  *)
(***************************************************************************)

\* Who changes what.
LEMMA HandlerFrame ==
  ASSUME NEW s \in Session, Open(s) \/ Cancel(s) \/ Handler(s)
  PROVE  UNCHANGED queryVars /\ UNCHANGED <<wire, alive, folding>>
BY DEF Open, Cancel, Handler, Refuse, Begin, ResetLink, ResetLinkTo, ResetFails, ReadHeader,
       ReadBatch, ReadBatchFrom, ReadFails, ReadEnd, Put, Count, CountTo, PutSentinel, Await,
       AwaitUntil, AwaitFails, Finish, workerVars

LEMMA LinkFrame ==
  ASSUME NEW w \in Worker, Link(w) \/ SendLost(w) \/ Fold(w) \/ Crash(w)
  PROVE  UNCHANGED <<coordVars, sessionVars, queryVars, owner, sent>>
BY DEF Link, Send, HalfClose, SendLost, Fold, FoldTables, FoldCount, Ack, Crash, linkVars

LEMMA QueryFrame ==
  ASSUME NEW x \in Query, Ask(x) \/ Serve(x)
  PROVE  UNCHANGED <<coordVars, linkVars, sessionVars, workerVars, owner>>
BY DEF Ask, Serve, Fetch, FetchFrom, Merge, FetchInfo, AddInfo, FetchFails, Answer, AnswerOr

\* The end of the stream is the last thing that a queue holds.
EndLast ==
  \A w \in Worker : \A i \in 1..Len(queue[w]) : queue[w][i].end => i = Len(queue[w])

\* Once gRPC has half-closed the stream the queue is empty, and once the worker
\* has acknowledged it nothing is under way; a call ends with its worker.
Streamed ==
  \A w \in Worker :
    /\ stream[w] \in {"halfclosed", "acked"} => queue[w] = <<>>
    /\ stream[w] = "acked" => wire[w] = <<>> /\ ~folding[w]
    /\ stream[w] \in {"open", "halfclosed"} => alive[w]
    /\ stream[w] \in {"broken", "stopped"} => ~alive[w]
    /\ ~alive[w] => wire[w] = <<>> /\ ~folding[w]

\* Nothing is under way before the first session and while workers are reset.
Drained ==
  owner = Free \/ lock # Free =>
    \A w \in Worker : queue[w] = <<>> /\ wire[w] = <<>> /\ ~folding[w]

\* A link that a handler has closed is acknowledged.
Closed ==
  \A w \in Worker :
    /\ complete => stream[w] = "acked"
    /\ \A s \in Session : pc[s] \in {"closing", "awaiting", "finishing"} /\ w \notin todo[s] =>
         stream[w] = "acked"

\* Session s has yet to put the end of the stream of a link it has opened.
Unclosed(s, w) ==
  \/ pc[s] \in {"reading", "dispatch"}
  \/ pc[s] = "closing" /\ w \in todo[s]
  \/ pc[s] = "awaiting" /\ w \in todo[s] \ {NextLink(s)}
  \/ pc[s] = "resetting" /\ w \notin todo[s]

\* Such a link's queue has no end yet.
EndToCome ==
  \A s \in Session, w \in Worker : Unclosed(s, w) =>
    /\ stream[w] \notin {"halfclosed", "acked"}
    /\ \A i \in 1..Len(queue[w]) : ~queue[w][i].end

Links == EndLast /\ Streamed /\ Drained /\ Closed /\ EndToCome

\* The elements of a sequence with one more, and with one less.
LEMMA AppendAt ==
  ASSUME NEW S, NEW q \in Seq(S), NEW e \in S
  PROVE  /\ Len(Append(q, e)) = Len(q) + 1
         /\ \A i \in 1..(Len(q) + 1) : Append(q, e)[i] = IF i <= Len(q) THEN q[i] ELSE e
OBVIOUS

LEMMA TailAt ==
  ASSUME NEW S, NEW q \in Seq(S), q # <<>>
  PROVE  /\ Len(q) \in Nat \ {0} /\ Head(q) = q[1]
         /\ Tail(q) \in Seq(S) /\ Len(Tail(q)) = Len(q) - 1
         /\ \A i \in 1..(Len(q) - 1) : Tail(q)[i] = q[i + 1]
         /\ Len(q) = 1 <=> Tail(q) = <<>>
<1>1. Len(q) \in Nat \ {0} /\ Head(q) = q[1]
      /\ Tail(q) \in Seq(S) /\ Len(Tail(q)) = Len(q) - 1
      /\ \A i \in 1..(Len(q) - 1) : Tail(q)[i] = q[i + 1]
  OBVIOUS
<1>2. Len(Tail(q)) = 0 <=> Tail(q) = <<>>
  BY <1>1, EmptySeq
<1> QED
  BY <1>1, <1>2

\* A step of a handler that puts nothing on a link and resets none.
LEMMA LinksHandler ==
  ASSUME IInv, Owns, Stages, Links, NEW s \in Session,
         Open(s) \/ Cancel(s) \/ (Handler(s) /\ ~ResetLink(s) /\ ~Put(s) /\ ~PutSentinel(s))
  PROVE  Links'
<1> USE DEF coordVars, linkVars, sessionVars, Goto
<1> USE ActorAssumption
<1>0. /\ pc \in [Session -> Pcs] /\ todo \in [Session -> SUBSET Worker]
      /\ owner \in Session \union {Free} /\ active \in BOOLEAN /\ complete \in BOOLEAN
  BY DEF IInv, TypeOK, CoordOK, SessionOK
<1>1. UNCHANGED <<queue, stream, wire, alive, folding>>
  BY HandlerFrame DEF Open, Cancel, Handler, Refuse, Begin, ResetFails, ReadHeader,
       ReadBatch, ReadBatchFrom, ReadFails, ReadEnd, Count, CountTo, Await,
       AwaitUntil, AwaitFails, Finish
<1>2. EndLast' /\ Streamed'
  BY <1>1 DEF Links, EndLast, Streamed
<1>3. \A t \in Session : todo'[t] = todo[t] => NextLink(t)' = NextLink(t)
  BY DEF NextLink
<1>4. CASE Open(s) \/ Cancel(s)
  BY <1>0, <1>1, <1>2, <1>3, <1>4 DEF Links, Drained, Closed, EndToCome, Unclosed, Open, Cancel
<1>5. CASE Refuse(s)
  BY <1>0, <1>1, <1>2, <1>3, <1>5 DEF Links, Drained, Closed, EndToCome, Unclosed, Refuse
<1>6. CASE Begin(s)
  <2>1. \A w \in Worker : queue[w] = <<>> /\ wire[w] = <<>> /\ ~folding[w]
    BY <1>6 DEF Begin, Owns, Links, Drained, Closed, Streamed
  <2>2. Drained'
    BY <1>1, <2>1 DEF Drained
  <2>3. Closed' /\ EndToCome'
    BY <1>0, <1>1, <1>3, <1>6 DEF Begin, Links, Closed, EndToCome, Unclosed
  <2> QED
    BY <1>2, <2>2, <2>3 DEF Links
<1>7. CASE ResetFails(s)
  BY <1>0, <1>1, <1>2, <1>3, <1>7 DEF Links, Drained, Closed, EndToCome, Unclosed, ResetFails,
                                      Owns, Taken, Running
<1>8. CASE ReadHeader(s)
  BY <1>0, <1>1, <1>2, <1>3, <1>8 DEF Links, Drained, Closed, EndToCome, Unclosed, ReadHeader
<1>9. CASE ReadBatch(s)
  BY <1>0, <1>1, <1>2, <1>3, <1>9 DEF Links, Drained, Closed, EndToCome, Unclosed, ReadBatch,
                                      ReadBatchFrom
<1>10. CASE ReadFails(s) \/ ReadEnd(s)
  BY <1>0, <1>1, <1>2, <1>3, <1>10 DEF Links, Drained, Closed, EndToCome, Unclosed, ReadFails,
                                       ReadEnd
<1>11. CASE Count(s)
  BY <1>0, <1>1, <1>2, <1>3, <1>11 DEF Links, Drained, Closed, EndToCome, Unclosed, Count, CountTo
<1>12. CASE Await(s)
  <2>1. Drained' /\ Closed'
    BY <1>0, <1>1, <1>12 DEF Links, Drained, Closed, Await, AwaitUntil
  <2>2. EndToCome'
    BY <1>0, <1>1, <1>3, <1>12 DEF Links, EndToCome, Unclosed, Await, AwaitUntil
  <2> QED
    BY <1>2, <2>1, <2>2 DEF Links
<1>13. CASE AwaitFails(s)
  BY <1>0, <1>1, <1>2, <1>3, <1>13 DEF Links, Drained, Closed, EndToCome, Unclosed, AwaitFails
<1>14. CASE Finish(s)
  BY <1>0, <1>1, <1>2, <1>3, <1>14 DEF Links, Drained, Closed, EndToCome, Unclosed, Finish, Stages
<1> QED
  BY <1>4, <1>5, <1>6, <1>7, <1>8, <1>9, <1>10, <1>11, <1>12, <1>13, <1>14 DEF Handler

LEMMA LinksReset ==
  ASSUME IInv, Owns, Links, NEW s \in Session, ResetLink(s)
  PROVE  Links'
<1> USE DEF Goto
<1> USE ActorAssumption
<1> DEFINE w == NextLink(s)
<1>0. /\ pc \in [Session -> Pcs] /\ todo \in [Session -> SUBSET Worker]
      /\ stream \in [Worker -> Streams]
      /\ owner \in Session \union {Free} /\ active \in BOOLEAN /\ complete \in BOOLEAN
  BY DEF IInv, TypeOK, CoordOK, SessionOK, LinkOK
<1>1. w \in Worker
  BY <1>0, MinWorker DEF NextLink, IInv, Pending, ResetLink, ResetLinkTo
<1>2. /\ UNCHANGED <<queue, wire, alive, folding, active, complete, owner>>
      /\ pc[s] = "resetting" /\ alive[w] /\ ~folding[w]
      /\ stream' = [stream EXCEPT ![w] = "open"]
      /\ todo' = [todo EXCEPT ![s] = @ \ {w}]
      /\ IF todo[s] = {w} THEN lock' = Free /\ pc' = [pc EXCEPT ![s] = "reading"]
                          ELSE UNCHANGED <<lock, pc>>
  BY DEF ResetLink, ResetLinkTo
<1>3. owner = s /\ lock = s /\ ~complete
      /\ \A t \in Session \ {s} : pc[t] \notin Running
  BY <1>2 DEF Owns, Taken, Running
<1>4. \A v \in Worker : queue[v] = <<>> /\ wire[v] = <<>> /\ ~folding[v]
  BY <1>3 DEF Links, Drained
<1> HIDE DEF w
<1>5. EndLast' /\ Streamed' /\ Drained'
  BY <1>0, <1>1, <1>2, <1>4 DEF Links, EndLast, Streamed, Drained
<1>6. Closed'
  BY <1>0, <1>1, <1>2, <1>3 DEF Closed, Running
<1>7. EndToCome'
  <2> SUFFICES ASSUME NEW t \in Session, NEW v \in Worker, Unclosed(t, v)'
               PROVE  stream'[v] \notin {"halfclosed", "acked"}
    BY <1>2, <1>4 DEF EndToCome
  <2>1. t = s
    BY <1>0, <1>2, <1>3 DEF Unclosed, Running
  <2>2. v = w \/ v \notin todo[s]
    BY <1>0, <1>2, <2>1 DEF Unclosed
  <2> QED
    BY <1>0, <1>1, <1>2, <2>1, <2>2 DEF Links, EndToCome, Unclosed
<1> QED
  BY <1>5, <1>6, <1>7 DEF Links

LEMMA LinksPut ==
  ASSUME IInv, Owns, Links, NEW s \in Session, Put(s) \/ PutSentinel(s)
  PROVE  Links'
<1> USE DEF Goto
<1> USE ActorAssumption
<1> DEFINE w == NextLink(s)
           m == IF pc[s] = "dispatch" THEN Data(Part(Current(s), w)) ELSE Sentinel
<1>0. /\ pc \in [Session -> Pcs] /\ todo \in [Session -> SUBSET Worker]
      /\ queue \in [Worker -> Seq(Item)]
      /\ owner \in Session \union {Free} /\ active \in BOOLEAN /\ complete \in BOOLEAN
  BY DEF IInv, TypeOK, CoordOK, SessionOK, LinkOK
<1>1. /\ pc[s] \in {"dispatch", "closing"} /\ todo[s] # {}
      /\ queue' = [queue EXCEPT ![w] = Append(@, m)]
      /\ UNCHANGED <<stream, wire, alive, folding, lock, active, complete, owner>>
      /\ pc[s] = "dispatch" => pc' = pc /\ todo' = [todo EXCEPT ![s] = @ \ {w}]
      /\ pc[s] = "closing" => pc' = [pc EXCEPT ![s] = "awaiting"] /\ UNCHANGED todo
  BY DEF IInv, Pending, Put, PutSentinel, coordVars, workerVars
<1>2. w \in Worker /\ w \in todo[s]
  BY <1>0, <1>1, MinWorker DEF NextLink
<1>3. m \in Item /\ (m.end <=> pc[s] = "closing")
  <2>1. CASE pc[s] = "dispatch"
    <3>1. Part(Current(s), w) \in Portion
      BY <2>1, CurrentPortion
    <3> QED
      BY <2>1, <3>1 DEF Data, Item
  <2>2. CASE pc[s] = "closing"
    BY <2>2, FS_EmptySet DEF Sentinel, Item, Portion
  <2> QED
    BY <1>1, <2>1, <2>2
<1>4. /\ owner = s /\ lock = Free /\ ~complete
      /\ \A t \in Session \ {s} : pc[t] \notin Running
  BY <1>1 DEF Owns, Taken, Running
<1>5. Unclosed(s, w)
  BY <1>1, <1>2 DEF Unclosed
<1>6. stream[w] \notin {"halfclosed", "acked"} /\ \A i \in 1..Len(queue[w]) : ~queue[w][i].end
  BY <1>2, <1>5 DEF Links, EndToCome
<1>7. NextLink(s)' = IF pc[s] = "closing" THEN w ELSE NextLink(s)'
  BY <1>1 DEF NextLink
<1> HIDE DEF w, m
<1>8. /\ Len(queue[w]) \in Nat /\ Len(queue'[w]) = Len(queue[w]) + 1
      /\ \A i \in 1..(Len(queue[w]) + 1) :
           queue'[w][i] = IF i <= Len(queue[w]) THEN queue[w][i] ELSE m
  <2>1. queue[w] \in Seq(Item) /\ queue'[w] = Append(queue[w], m)
    BY <1>0, <1>1, <1>2
  <2> QED
    BY <1>3, <2>1, AppendAt, AppendSeq
<1>9. \A v \in Worker \ {w} : queue'[v] = queue[v]
  BY <1>0, <1>1, <1>2
<1>10. EndLast'
  BY <1>6, <1>8, <1>9 DEF Links, EndLast
<1>11. Streamed' /\ Drained'
  BY <1>1, <1>4, <1>6, <1>9 DEF Links, Streamed, Drained
<1>12. Closed'
  BY <1>0, <1>1, <1>2, <1>4 DEF Links, Closed, Running
<1>13. EndToCome'
  <2> SUFFICES ASSUME NEW t \in Session, NEW v \in Worker, Unclosed(t, v)'
               PROVE  /\ stream'[v] \notin {"halfclosed", "acked"}
                      /\ \A i \in 1..Len(queue'[v]) : ~queue'[v][i].end
    BY DEF EndToCome
  <2>1. t = s
    BY <1>0, <1>1, <1>4 DEF Unclosed, Running
  <2>2. Unclosed(s, v)
    BY <1>0, <1>1, <1>2, <2>1 DEF Unclosed
  <2>3. v = w => pc[s] = "dispatch"
    BY <1>0, <1>1, <1>7, <2>1 DEF Unclosed
  <2>4. stream[v] \notin {"halfclosed", "acked"} /\ \A i \in 1..Len(queue[v]) : ~queue[v][i].end
    BY <2>2 DEF Links, EndToCome
  <2> QED
    BY <1>1, <1>3, <1>8, <1>9, <2>3, <2>4
<1> QED
  BY <1>10, <1>11, <1>12, <1>13 DEF Links

\* A step that takes the next item out of a queue, and what else it may change.
LEMMA LinksTake ==
  ASSUME IInv, Owns, Links, NEW w \in Worker, Send(w) \/ HalfClose(w) \/ SendLost(w)
  PROVE  Links'
<1>0. /\ queue \in [Worker -> Seq(Item)] /\ wire \in [Worker -> Seq(Portion)]
      /\ stream \in [Worker -> Streams]
  BY DEF IInv, TypeOK, LinkOK
<1>1. /\ queue[w] # <<>> /\ queue' = [queue EXCEPT ![w] = Tail(@)]
      /\ UNCHANGED <<coordVars, sessionVars, owner, alive, folding>>
      /\ stream[w] \in {"open", "broken"}
  BY DEF Send, HalfClose, SendLost, workerVars
<1>2. /\ Len(queue[w]) \in Nat \ {0} /\ Head(queue[w]) = queue[w][1]
      /\ Tail(queue[w]) \in Seq(Item) /\ Len(Tail(queue[w])) = Len(queue[w]) - 1
      /\ \A i \in 1..(Len(queue[w]) - 1) : Tail(queue[w])[i] = queue[w][i + 1]
      /\ Len(queue[w]) = 1 => Tail(queue[w]) = <<>>
  BY <1>0, <1>1, TailAt
<1>3. /\ \A v \in Worker \ {w} : queue'[v] = queue[v] /\ stream'[v] = stream[v] /\ wire'[v] = wire[v]
      /\ queue'[w] = Tail(queue[w])
  <2>1. CASE Send(w)
    BY <1>0, <1>1, <2>1 DEF Send
  <2>2. CASE HalfClose(w)
    BY <1>0, <1>1, <2>2 DEF HalfClose, workerVars
  <2>3. CASE SendLost(w)
    BY <1>0, <1>1, <2>3 DEF SendLost, workerVars
  <2> QED
    BY <2>1, <2>2, <2>3
<1>4. /\ Send(w) => stream' = stream
      /\ HalfClose(w) => stream[w] = "open" /\ stream'[w] = "halfclosed" /\ wire' = wire
                         /\ Len(queue[w]) = 1
      /\ SendLost(w) => stream[w] = "broken" /\ stream'[w] = "stopped" /\ wire' = wire
  <2>1. ASSUME HalfClose(w) PROVE Len(queue[w]) = 1
    <3>1. queue[w][1].end /\ 1 \in 1..Len(queue[w])
      BY <1>2, <2>1 DEF HalfClose
    <3> QED
      BY <3>1 DEF Links, EndLast
  <2>2. Send(w) => stream' = stream
    BY DEF Send
  <2>3. HalfClose(w) => stream[w] = "open" /\ stream'[w] = "halfclosed" /\ wire' = wire
    BY <1>0 DEF HalfClose, workerVars
  <2>4. SendLost(w) => stream[w] = "broken" /\ stream'[w] = "stopped" /\ wire' = wire
    BY <1>0 DEF SendLost, workerVars
  <2> QED
    BY <2>1, <2>2, <2>3, <2>4
<1>5. EndLast'
  <2>1. ASSUME NEW i \in 1..Len(queue'[w]), queue'[w][i].end PROVE i = Len(queue'[w])
    <3>1. i + 1 \in 1..Len(queue[w]) /\ queue[w][i + 1].end
      BY <1>2, <1>3, <2>1
    <3> QED
      BY <1>2, <1>3, <3>1 DEF Links, EndLast
  <2> QED
    BY <1>3, <2>1 DEF Links, EndLast
<1>6. Streamed'
  <2> SUFFICES ASSUME NEW v \in Worker
               PROVE  /\ stream'[v] \in {"halfclosed", "acked"} => queue'[v] = <<>>
                      /\ stream'[v] = "acked" => wire'[v] = <<>> /\ ~folding[v]
                      /\ stream'[v] \in {"open", "halfclosed"} => alive[v]
                      /\ stream'[v] \in {"broken", "stopped"} => ~alive[v]
                      /\ ~alive[v] => wire'[v] = <<>> /\ ~folding[v]
    BY <1>1 DEF Streamed, workerVars
  <2>1. CASE v # w
    BY <1>3, <2>1 DEF Links, Streamed
  <2>2. CASE v = w /\ Send(w)
    BY <1>1, <1>4, <2>2 DEF Send, Links, Streamed
  <2>3. CASE v = w /\ HalfClose(w)
    BY <1>2, <1>3, <1>4, <2>3 DEF Links, Streamed
  <2>4. CASE v = w /\ SendLost(w)
    BY <1>4, <2>4 DEF Links, Streamed
  <2> QED
    BY <2>1, <2>2, <2>3, <2>4
<1>7. Drained' /\ Closed'
  BY <1>1, <1>3 DEF Links, Drained, Closed, coordVars, sessionVars
<1>8. EndToCome'
  <2> SUFFICES ASSUME NEW t \in Session, NEW v \in Worker, Unclosed(t, v)'
               PROVE  /\ stream'[v] \notin {"halfclosed", "acked"}
                      /\ \A i \in 1..Len(queue'[v]) : ~queue'[v][i].end
    BY DEF EndToCome
  <2>1. Unclosed(t, v)
    BY <1>1 DEF Unclosed, NextLink, sessionVars
  <2>2. /\ stream[v] \notin {"halfclosed", "acked"}
        /\ \A i \in 1..Len(queue[v]) : ~queue[v][i].end
    BY <2>1 DEF Links, EndToCome
  <2>3. CASE v # w
    BY <1>3, <2>2, <2>3
  <2>4. CASE v = w
    <3>1. ~HalfClose(w)
      BY <1>2, <2>2, <2>4 DEF HalfClose
    <3> QED
      BY <1>1, <1>2, <1>3, <1>4, <2>2, <2>4, <3>1
  <2> QED
    BY <2>3, <2>4
<1> QED
  BY <1>5, <1>6, <1>7, <1>8 DEF Links

LEMMA LinksWorker ==
  ASSUME IInv, Owns, Links, NEW w \in Worker, Fold(w) \/ Crash(w)
  PROVE  Links'
<1>0. /\ wire \in [Worker -> Seq(Portion)] /\ alive \in [Worker -> BOOLEAN]
      /\ stream \in [Worker -> Streams] /\ folding \in [Worker -> BOOLEAN]
  BY DEF IInv, TypeOK, LinkOK
<1>1. UNCHANGED <<coordVars, sessionVars, owner, queue>>
  BY DEF Fold, FoldTables, FoldCount, Ack, Crash, linkVars
<1>2. EndLast'
  BY <1>1 DEF Links, EndLast
<1>3. \A t \in Session, v \in Worker : Unclosed(t, v)' <=> Unclosed(t, v)
  BY <1>1 DEF Unclosed, NextLink, sessionVars
<1> USE DEF coordVars, sessionVars
<1>4. CASE FoldTables(w)
  <2>1. Streamed'
    BY <1>0, <1>1, <1>4 DEF FoldTables, Links, Streamed, linkVars
  <2>2. Drained' /\ Closed' /\ EndToCome'
    BY <1>0, <1>1, <1>3, <1>4 DEF FoldTables, Links, Drained, Closed, EndToCome, linkVars
  <2> QED
    BY <1>2, <2>1, <2>2 DEF Links
<1>5. CASE FoldCount(w)
  <2>1. Streamed'
    BY <1>0, <1>1, <1>5 DEF FoldCount, Links, Streamed, linkVars
  <2>2. Drained' /\ Closed' /\ EndToCome'
    BY <1>0, <1>1, <1>3, <1>5 DEF FoldCount, Links, Drained, Closed, EndToCome, linkVars
  <2> QED
    BY <1>2, <2>1, <2>2 DEF Links
<1>6. CASE Ack(w)
  <2>1. Streamed'
    BY <1>0, <1>1, <1>6 DEF Ack, Links, Streamed, workerVars
  <2>2. Drained' /\ Closed' /\ EndToCome'
    BY <1>0, <1>1, <1>3, <1>6 DEF Ack, Links, Drained, Closed, EndToCome, workerVars
  <2> QED
    BY <1>2, <2>1, <2>2 DEF Links
<1>7. CASE Crash(w)
  <2>1. Streamed'
    BY <1>0, <1>1, <1>7 DEF Crash, Links, Streamed, Streams
  <2>2. Drained' /\ Closed' /\ EndToCome'
    BY <1>0, <1>1, <1>3, <1>7 DEF Crash, Links, Drained, Closed, EndToCome
  <2> QED
    BY <1>2, <2>1, <2>2 DEF Links
<1> QED
  BY <1>4, <1>5, <1>6, <1>7 DEF Fold

LEMMA LinksStep ==
  ASSUME IInv, Owns, Stages, Links, [Next]_vars
  PROVE  Links'
<1>1. ASSUME UNCHANGED <<coordVars, linkVars, sessionVars, workerVars, owner>> PROVE Links'
  BY <1>1 DEF Links, EndLast, Streamed, Drained, Closed, EndToCome, Unclosed, NextLink,
              coordVars, linkVars, sessionVars, workerVars
<1>2. CASE UNCHANGED vars
  BY <1>1, <1>2 DEF vars
<1> QED
  BY <1>1, <1>2, LinksHandler, LinksReset, LinksPut, LinksTake, LinksWorker, QueryFrame
     DEF Next, Quiet, Link

-----------------------------------------------------------------------------
(***************************************************************************)
(* Between the coordinator and a worker nothing is lost, repeated or       *)
(* reordered.                                                              *)
(***************************************************************************)

\* Moving the first element of one sequence to the end of the one before it, and
\* adding one at the end.
LEMMA Move ==
  ASSUME NEW S, NEW a \in Seq(S), NEW b \in Seq(S), b # <<>>
  PROVE  Append(a, Head(b)) \o Tail(b) = a \o b
<1>1. b = <<Head(b)>> \o Tail(b) /\ Head(b) \in S /\ Tail(b) \in Seq(S)
  BY HeadTailProperties
<1>2. Append(a, Head(b)) = a \o <<Head(b)>> /\ <<Head(b)>> \in Seq(S)
  BY <1>1, AppendIsConcat
<1> QED
  BY <1>1, <1>2, ConcatAssociative

\* The same between the second and the third of three.
Laid(a, b, c) == a \o b \o c
Longer(b, c)  == Append(b, Head(c))
Rest(c)       == Tail(c)

LEMMA MoveOver ==
  ASSUME NEW S, NEW a \in Seq(S), NEW b \in Seq(S), NEW c \in Seq(S), c # <<>>
  PROVE  Laid(a, Longer(b, c), Rest(c)) = Laid(a, b, c)
<1> DEFINE d == Longer(b, c)
           e == Rest(c)
<1>1. d \in Seq(S) /\ e \in Seq(S)
  BY HeadTailProperties DEF Longer, Rest
<1>2. d \o e = b \o c
  BY Move DEF Longer, Rest
<1> HIDE DEF d, e
<1>3. (a \o d) \o e = a \o (d \o e)
  BY <1>1, ConcatAssociative
<1>4. (a \o b) \o c = a \o (b \o c)
  BY ConcatAssociative
<1>5. (a \o d) \o e = (a \o b) \o c
  BY <1>2, <1>3, <1>4, Zenon
<1> QED
  BY <1>5 DEF Laid, d, e

LEMMA Grow ==
  ASSUME NEW S, NEW a \in Seq(S), NEW b \in Seq(S), NEW e \in S
  PROVE  a \o Append(b, e) = Append(a \o b, e)
<1>1. Append(b, e) = b \o <<e>> /\ Append(a \o b, e) = (a \o b) \o <<e>> /\ <<e>> \in Seq(S)
      /\ a \o b \in Seq(S)
  BY AppendIsConcat, ConcatProperties
<1> QED
  BY <1>1, ConcatAssociative

\* How many parts a queue holds for the worker.
Parts(q) == IF q # <<>> /\ q[Len(q)].end THEN Len(q) - 1 ELSE Len(q)

LEMMA QueuedIs ==
  ASSUME NEW q \in Seq(Item)
  PROVE  /\ Parts(q) \in Nat /\ Parts(q) <= Len(q)
         /\ Queued(q) \in Seq(Portion) /\ Len(Queued(q)) = Parts(q)
         /\ \A i \in 1..Parts(q) : Queued(q)[i] = q[i].part
<1>1. Len(q) \in Nat /\ (q # <<>> => Len(q) # 0)
  OBVIOUS
<1>2. Parts(q) \in Nat /\ Parts(q) <= Len(q)
  BY <1>1 DEF Parts
<1>3. \A i \in 1..Len(q) : q[i] \in Item
  OBVIOUS
<1>4. \A i \in 1..Parts(q) : q[i].part \in Portion
  BY <1>1, <1>2, <1>3 DEF Item
<1>5. Queued(q) = [i \in 1..Parts(q) |-> q[i].part]
  BY DEF Queued, Parts
<1>6. Queued(q) \in Seq(Portion) /\ Len(Queued(q)) = Parts(q)
      /\ \A i \in 1..Parts(q) : Queued(q)[i] = q[i].part
  BY <1>2, <1>4, <1>5
<1> QED
  BY <1>2, <1>6

\* The same when a part is added, when the end is, when the first part is taken,
\* and when the end is.
LEMMA QueuedAppend ==
  ASSUME NEW q \in Seq(Item), \A i \in 1..Len(q) : ~q[i].end, NEW m \in Item
  PROVE  Queued(Append(q, m)) = IF m.end THEN Queued(q) ELSE Append(Queued(q), m.part)
<1>1. /\ Append(q, m) \in Seq(Item) /\ Append(q, m) # <<>> /\ Len(q) \in Nat
      /\ Len(Append(q, m)) = Len(q) + 1
      /\ \A i \in 1..(Len(q) + 1) : Append(q, m)[i] = IF i <= Len(q) THEN q[i] ELSE m
  BY AppendSeq, AppendAt
<1>2. q # <<>> => ~q[Len(q)].end
  OBVIOUS
<1>3. /\ Queued(q) \in Seq(Portion) /\ Len(Queued(q)) = Len(q)
      /\ \A i \in 1..Len(q) : Queued(q)[i] = q[i].part
  BY <1>2, QueuedIs DEF Parts
<1>4. Append(q, m)[Len(Append(q, m))] = m /\ m.part \in Portion
  BY <1>1 DEF Item
<1>5. CASE m.end
  <2>1. /\ Queued(Append(q, m)) \in Seq(Portion) /\ Len(Queued(Append(q, m))) = Len(q)
        /\ \A i \in 1..Len(q) : Queued(Append(q, m))[i] = Append(q, m)[i].part
    <3>1. Parts(Append(q, m)) = Len(q)
      BY <1>1, <1>4, <1>5 DEF Parts
    <3> QED
      BY <1>1, <3>1, QueuedIs
  <2>2. \A i \in 1..Len(q) : Queued(Append(q, m))[i] = Queued(q)[i]
    BY <1>1, <1>3, <2>1
  <2> QED
    BY <1>3, <1>5, <2>1, <2>2, SeqEqual
<1>6. CASE ~m.end
  <2>1. /\ Queued(Append(q, m)) \in Seq(Portion) /\ Len(Queued(Append(q, m))) = Len(q) + 1
        /\ \A i \in 1..(Len(q) + 1) : Queued(Append(q, m))[i] = Append(q, m)[i].part
    <3>1. Parts(Append(q, m)) = Len(q) + 1
      BY <1>1, <1>4, <1>6 DEF Parts
    <3> QED
      BY <1>1, <3>1, QueuedIs
  <2>2. /\ Append(Queued(q), m.part) \in Seq(Portion)
        /\ Len(Append(Queued(q), m.part)) = Len(q) + 1
        /\ \A i \in 1..(Len(q) + 1) : Append(Queued(q), m.part)[i] =
             IF i <= Len(q) THEN Queued(q)[i] ELSE m.part
    BY <1>3, <1>4, AppendSeq, AppendAt
  <2>3. \A i \in 1..(Len(q) + 1) : Queued(Append(q, m))[i] = Append(Queued(q), m.part)[i]
    BY <1>1, <1>3, <2>1, <2>2
  <2> QED
    BY <1>6, <2>1, <2>2, <2>3, SeqEqual
<1> QED
  BY <1>5, <1>6

LEMMA QueuedTail ==
  ASSUME NEW q \in Seq(Item), q # <<>>,
         \A i \in 1..Len(q) : q[i].end => i = Len(q)
  PROVE  IF Head(q).end
           THEN Queued(q) = <<>> /\ Queued(Tail(q)) = <<>>
           ELSE Queued(q) # <<>> /\ Head(q).part = Head(Queued(q))
                /\ Queued(Tail(q)) = Tail(Queued(q))
<1> DEFINE n == Parts(q)
<1>1. /\ Len(q) \in Nat \ {0} /\ Head(q) = q[1]
      /\ Tail(q) \in Seq(Item) /\ Len(Tail(q)) = Len(q) - 1
      /\ \A i \in 1..(Len(q) - 1) : Tail(q)[i] = q[i + 1]
      /\ Len(q) = 1 <=> Tail(q) = <<>>
  BY TailAt
<1>0. Len(q) \in Nat /\ Len(q) >= 1
  OBVIOUS
<1>2. /\ n \in Nat /\ Queued(q) \in Seq(Portion) /\ Len(Queued(q)) = n
      /\ \A i \in 1..n : Queued(q)[i] = q[i].part
  BY QueuedIs
<1>3. CASE q[1].end
  <2>1. Len(q) = 1
    <3>1. 1 \in 1..Len(q)
      BY <1>0
    <3> QED
      BY <1>3, <3>1
  <2>2. n = 0 /\ Tail(q) = <<>>
    BY <1>1, <1>3, <2>1 DEF Parts
  <2>3. Queued(<<>>) = <<>>
    <3>1. <<>> \in Seq(Item) /\ Len(<<>>) = 0
      OBVIOUS
    <3>2. Queued(<<>>) \in Seq(Portion) /\ Len(Queued(<<>>)) = 0
      BY <3>1, QueuedIs DEF Parts
    <3> QED
      BY <3>2
  <2>4. Queued(q) = <<>>
    BY <1>2, <2>2
  <2> QED
    BY <1>1, <1>3, <2>2, <2>3, <2>4
<1>4. CASE ~q[1].end
  <2>1. n >= 1
    BY <1>0, <1>4 DEF Parts
  <2>2. Tail(q) # <<>> => Tail(q)[Len(Tail(q))] = q[Len(q)]
    <3> SUFFICES ASSUME Tail(q) # <<>> PROVE Tail(q)[Len(q) - 1] = q[Len(q)]
      BY <1>1
    <3>1. Len(q) # 1
      BY <1>1
    <3>2. Len(q) - 1 \in 1..(Len(q) - 1) /\ (Len(q) - 1) + 1 = Len(q)
      BY <1>0, <3>1
    <3> QED
      BY <1>1, <3>2
  <2>3. Parts(Tail(q)) = n - 1
    <3>1. Tail(q) = <<>> <=> Len(q) = 1
      BY <1>1
    <3> QED
      BY <1>1, <1>4, <2>2, <3>1 DEF Parts
  <2>4. /\ Queued(Tail(q)) \in Seq(Portion) /\ Len(Queued(Tail(q))) = n - 1
        /\ \A i \in 1..(n - 1) : Queued(Tail(q))[i] = Tail(q)[i].part
    BY <1>1, <2>3, QueuedIs
  <2>5. n <= Len(q)
    BY QueuedIs
  <2> HIDE DEF n
  <2>6. Queued(q) # <<>>
    BY <1>2, <2>1
  <2>7. /\ Head(Queued(q)) = Queued(q)[1] /\ Tail(Queued(q)) \in Seq(Portion)
        /\ Len(Tail(Queued(q))) = n - 1
        /\ \A i \in 1..(n - 1) : Tail(Queued(q))[i] = Queued(q)[i + 1]
    BY <1>2, <2>6, TailAt
  <2>8. \A i \in 1..(n - 1) : Queued(Tail(q))[i] = Tail(Queued(q))[i]
    <3> SUFFICES ASSUME NEW i \in 1..(n - 1) PROVE Tail(q)[i].part = Queued(q)[i + 1]
      BY <2>4, <2>7
    <3>1. i \in 1..(Len(q) - 1) /\ i + 1 \in 1..n
      BY <1>0, <1>2, <2>5
    <3> QED
      BY <1>1, <1>2, <3>1
  <2>9. Queued(Tail(q)) = Tail(Queued(q))
    BY <2>4, <2>7, <2>8, SeqEqual
  <2>10. Head(q).part = Head(Queued(q))
    <3>1. 1 \in 1..n
      BY <1>2, <2>1
    <3> QED
      BY <1>1, <1>2, <2>7, <3>1
  <2> QED
    BY <1>1, <1>4, <2>6, <2>9, <2>10
<1> QED
  BY <1>3, <1>4

LEMMA ConduitStep ==
  ASSUME IInv, Owns, Links, Conduit, [Next]_vars
  PROVE  Conduit'
<1> USE DEF Goto
<1>0. /\ queue \in [Worker -> Seq(Item)] /\ wire \in [Worker -> Seq(Portion)]
      /\ tables \in [Worker -> Seq(Portion)] /\ sent \in [Worker -> Seq(Portion)]
      /\ alive \in [Worker -> BOOLEAN] /\ folding \in [Worker -> BOOLEAN]
      /\ todo \in [Session -> SUBSET Worker] /\ owner \in Session \union {Free}
  BY DEF IInv, TypeOK, CoordOK, SessionOK, LinkOK
<1>1. ASSUME NEW w \in Worker, UNCHANGED <<tables[w], wire[w], queue[w], sent[w], alive[w]>>
      PROVE  alive'[w] => tables'[w] \o wire'[w] \o Queued(queue'[w]) = sent'[w]
  BY <1>1 DEF Conduit
<1>2. ASSUME UNCHANGED <<tables, wire, queue, sent, alive>> PROVE Conduit'
  BY <1>2 DEF Conduit
<1>3. ASSUME NEW s \in Session, Open(s) \/ Cancel(s) \/ Handler(s), ~ResetLink(s), ~Put(s),
             ~PutSentinel(s)
      PROVE  Conduit'
  BY <1>2, <1>3 DEF Open, Cancel, Handler, Refuse, Begin, ResetFails, ReadHeader,
       ReadBatch, ReadBatchFrom, ReadFails, ReadEnd, Count, CountTo, Await,
       AwaitUntil, AwaitFails, Finish, linkVars, workerVars
<1>4. ASSUME NEW s \in Session, ResetLink(s) PROVE Conduit'
  <2> DEFINE w == NextLink(s)
  <2>1. w \in Worker
    BY <1>0, <1>4, MinWorker DEF NextLink, IInv, Pending, ResetLink, ResetLinkTo
  <2>2. /\ tables' = [tables EXCEPT ![w] = <<>>] /\ sent' = [sent EXCEPT ![w] = <<>>]
        /\ UNCHANGED <<queue, wire, alive>> /\ pc[s] = "resetting"
    BY <1>4 DEF ResetLink, ResetLinkTo
  <2>3. queue[w] = <<>> /\ wire[w] = <<>>
    BY <2>1, <2>2, ActorAssumption DEF Owns, Links, Drained
  <2>4. <<>> \o <<>> \o Queued(<<>>) = <<>>
    <3>1. <<>> \in Seq(Item) /\ Len(<<>>) = 0 /\ <<>> \o <<>> = <<>>
      OBVIOUS
    <3>2. Queued(<<>>) \in Seq(Portion) /\ Len(Queued(<<>>)) = 0
      BY <3>1, QueuedIs DEF Parts
    <3> QED
      BY <3>1, <3>2
  <2> HIDE DEF w
  <2> QED
    BY <1>0, <2>1, <2>2, <2>3, <2>4 DEF Conduit
<1>5. ASSUME NEW s \in Session, Put(s) \/ PutSentinel(s) PROVE Conduit'
  <2> DEFINE w == NextLink(s)
             m == IF pc[s] = "dispatch" THEN Data(Part(Current(s), w)) ELSE Sentinel
  <2>1. /\ pc[s] \in {"dispatch", "closing"} /\ todo[s] # {}
        /\ queue' = [queue EXCEPT ![w] = Append(@, m)]
        /\ UNCHANGED <<tables, wire, alive>>
        /\ pc[s] = "dispatch" => sent' = [sent EXCEPT ![w] = Append(@, Part(Current(s), w))]
        /\ pc[s] = "closing" => sent' = sent
    BY <1>5 DEF IInv, Pending, Put, PutSentinel, workerVars
  <2>2. w \in Worker /\ w \in todo[s]
    BY <1>0, <2>1, MinWorker DEF NextLink
  <2>3. m \in Item /\ (m.end <=> pc[s] = "closing")
        /\ (pc[s] = "dispatch" => m.part = Part(Current(s), w) /\ m.part \in Portion)
    <3>1. CASE pc[s] = "dispatch"
      <4>1. Part(Current(s), w) \in Portion
        BY <3>1, CurrentPortion
      <4> QED
        BY <3>1, <4>1 DEF Data, Item
    <3>2. CASE pc[s] = "closing"
      BY <3>2, FS_EmptySet DEF Sentinel, Item, Portion
    <3> QED
      BY <2>1, <3>1, <3>2
  <2>4. \A i \in 1..Len(queue[w]) : ~queue[w][i].end
    <3>1. Unclosed(s, w)
      BY <2>1, <2>2 DEF Unclosed
    <3> QED
      BY <2>2, <3>1 DEF Links, EndToCome
  <2> HIDE DEF w, m
  <2>5. Queued(queue'[w]) = IF m.end THEN Queued(queue[w]) ELSE Append(Queued(queue[w]), m.part)
    <3>1. queue[w] \in Seq(Item) /\ queue'[w] = Append(queue[w], m)
      BY <1>0, <2>1, <2>2
    <3> QED
      BY <2>3, <2>4, <3>1, QueuedAppend
  <2>6. alive'[w] => tables'[w] \o wire'[w] \o Queued(queue'[w]) = sent'[w]
    <3>1. CASE pc[s] = "closing"
      BY <2>1, <2>2, <2>3, <2>5, <3>1 DEF Conduit
    <3>2. CASE pc[s] = "dispatch"
      <4>1. tables[w] \o wire[w] \in Seq(Portion) /\ Queued(queue[w]) \in Seq(Portion)
        <5>1. queue[w] \in Seq(Item) /\ tables[w] \in Seq(Portion) /\ wire[w] \in Seq(Portion)
          BY <1>0, <2>2
        <5> QED
          BY <5>1, QueuedIs, ConcatProperties
      <4>2. (tables[w] \o wire[w]) \o Append(Queued(queue[w]), m.part)
              = Append((tables[w] \o wire[w]) \o Queued(queue[w]), m.part)
        <5>1. \A a, b \in Seq(Portion), e \in Portion : a \o Append(b, e) = Append(a \o b, e)
          BY Grow
        <5> QED
          BY <2>3, <3>2, <4>1, <5>1
      <4>3. sent'[w] = Append(sent[w], m.part)
        BY <1>0, <2>1, <2>2, <2>3, <3>2
      <4> QED
        BY <2>1, <2>2, <2>3, <2>5, <3>2, <4>2, <4>3 DEF Conduit
    <3> QED
      BY <2>1, <3>1, <3>2
  <2>7. \A v \in Worker \ {w} : queue'[v] = queue[v] /\ sent'[v] = sent[v]
    BY <1>0, <2>1, <2>2
  <2> QED
    BY <2>1, <2>6, <2>7 DEF Conduit
<1>6. ASSUME NEW w \in Worker, Send(w) \/ HalfClose(w) PROVE Conduit'
  <2> DEFINE q == queue[w]
  <2>1. /\ q \in Seq(Item) /\ q # <<>> /\ \A i \in 1..Len(q) : q[i].end => i = Len(q)
        /\ queue' = [queue EXCEPT ![w] = Tail(q)]
        /\ UNCHANGED <<tables, sent, alive>>
        /\ IF Head(q).end THEN wire' = wire ELSE wire' = [wire EXCEPT ![w] = Append(@, Head(q).part)]
    BY <1>0, <1>6 DEF Send, HalfClose, Links, EndLast, workerVars
  <2>2. queue'[w] = Tail(q) /\ \A v \in Worker \ {w} : queue'[v] = queue[v] /\ wire'[v] = wire[v]
    BY <1>0, <2>1
  <2>3. tables[w] \in Seq(Portion) /\ wire[w] \in Seq(Portion) /\ Queued(q) \in Seq(Portion)
    BY <1>0, QueuedIs
  <2> HIDE DEF q
  <2>4. tables'[w] \o wire'[w] \o Queued(queue'[w]) = tables[w] \o wire[w] \o Queued(q)
    <3>1. CASE Head(q).end
      BY <2>1, <2>2, <3>1, QueuedTail
    <3>2. CASE ~Head(q).end
      <4>1. /\ Queued(q) # <<>> /\ Head(q).part = Head(Queued(q))
            /\ Queued(Tail(q)) = Tail(Queued(q))
        BY <2>1, <3>2, QueuedTail
      <4>2. wire'[w] = Longer(wire[w], Queued(q)) /\ Queued(Tail(q)) = Rest(Queued(q))
        BY <1>0, <2>1, <3>2, <4>1 DEF Longer, Rest
      <4>3. Laid(tables[w], Longer(wire[w], Queued(q)), Rest(Queued(q)))
              = Laid(tables[w], wire[w], Queued(q))
        BY <2>3, <4>1, MoveOver
      <4> QED
        BY <2>1, <2>2, <4>2, <4>3 DEF Laid
    <3> QED
      BY <3>1, <3>2
  <2> QED
    BY <2>1, <2>2, <2>4 DEF Conduit, q
<1>7. ASSUME NEW w \in Worker, SendLost(w) PROVE Conduit'
  <2>1. ~alive[w] /\ UNCHANGED <<tables, wire, sent, alive>>
        /\ queue' = [queue EXCEPT ![w] = Tail(@)]
    BY <1>7 DEF SendLost, Links, Streamed, workerVars
  <2> QED
    BY <1>0, <2>1 DEF Conduit
<1>8. ASSUME NEW w \in Worker, FoldTables(w) PROVE Conduit'
  <2>1. /\ wire[w] # <<>> /\ UNCHANGED <<queue, sent, alive>>
        /\ tables' = [tables EXCEPT ![w] = Append(@, Head(wire[w]))]
        /\ wire' = [wire EXCEPT ![w] = Tail(@)]
    BY <1>8 DEF FoldTables, linkVars
  <2>2. tables[w] \in Seq(Portion) /\ wire[w] \in Seq(Portion)
    BY <1>0
  <2>3. tables'[w] \o wire'[w] = tables[w] \o wire[w]
    BY <1>0, <2>1, <2>2, Move
  <2> QED
    BY <1>0, <2>1, <2>3 DEF Conduit
<1>9. ASSUME NEW w \in Worker, FoldCount(w) \/ Ack(w) PROVE Conduit'
  BY <1>2, <1>9 DEF FoldCount, Ack, linkVars, workerVars
<1>10. ASSUME NEW w \in Worker, Crash(w) PROVE Conduit'
  <2>1. ~alive'[w] /\ \A v \in Worker \ {w} :
          UNCHANGED <<tables[v], wire[v], queue[v], sent[v], alive[v]>>
    BY <1>0, <1>10 DEF Crash
  <2> QED
    BY <1>1, <2>1 DEF Conduit
<1>11. ASSUME NEW x \in Query, Ask(x) \/ Serve(x) PROVE Conduit'
  BY <1>2, <1>11, QueryFrame DEF linkVars, workerVars
<1>12. CASE UNCHANGED vars
  BY <1>2, <1>12 DEF vars, linkVars, workerVars
<1> QED
  BY <1>3, <1>4, <1>5, <1>6, <1>7, <1>8, <1>9, <1>10, <1>11, <1>12
     DEF Next, Quiet, Link, Fold

-----------------------------------------------------------------------------
(***************************************************************************)
(* All of it is an invariant.                                              *)
(***************************************************************************)
WInv ==
  /\ IInv /\ Owns /\ Stages /\ Unheard /\ Marked /\ Noted /\ Headed
  /\ Links /\ Conduit

LEMMA NothingQueued ==
  /\ <<>> \in Seq(Item) /\ Queued(<<>>) = <<>>
  /\ <<>> \o <<>> \o Queued(<<>>) = <<>>
<1>1. <<>> \in Seq(Item) /\ Len(<<>>) = 0 /\ <<>> \o <<>> = <<>>
  OBVIOUS
<1>2. Queued(<<>>) \in Seq(Portion) /\ Len(Queued(<<>>)) = 0
  BY <1>1, QueuedIs DEF Parts
<1>3. Queued(<<>>) = <<>>
  BY <1>2
<1> QED
  BY <1>1, <1>3

LEMMA InitWInv == Init => WInv
<1> SUFFICES ASSUME Init PROVE WInv
  OBVIOUS
<1>1. IInv
  BY InitIInv
<1>2. Owns /\ Unheard /\ Marked /\ Noted /\ Headed
  BY ActorAssumption DEF Init, Owns, Taken, Running, Unheard, Marked, Noted, Headed, Reported,
                         NoReport
<1>3. Stages
  BY DataAssumption DEF Init, Stages
<1>4. Links
  <2>1. Len(<<>>) = 0
    OBVIOUS
  <2> QED
    BY <2>1 DEF Init, Links, EndLast, Streamed, Drained, Closed, EndToCome, Unclosed
<1>5. Conduit
  BY NothingQueued DEF Init, Conduit
<1> QED
  BY <1>1, <1>2, <1>3, <1>4, <1>5 DEF WInv

LEMMA StepWInv == WInv /\ [Next]_vars => WInv'
BY StepIInv, OwnsStep, StagesStep, UnheardStep, MarkedStep, NotedStep, HeadedStep, LinksStep,
   ConduitStep DEF WInv

LEMMA WInvariance == Spec => []WInv
BY InitWInv, StepWInv, PTL DEF Spec

\* What a live worker holds, what gRPC carries to it and what waits in its queue
\* is what the handler put on the link since the worker's last Reset, in that
\* order: nothing is lost, repeated or left over from an earlier session.
THEOREM ConduitHolds == Spec => []Conduit
<1>1. WInv => Conduit
  BY DEF WInv
<1> QED
  BY <1>1, WInvariance, PTL

\* Once the session is marked complete every worker has acknowledged the end of
\* its stream and nothing waits in a queue: Finish comes after all the acks.
THEOREM CompleteIsAckedHolds == Spec => []CompleteIsAcked
<1>1. WInv => CompleteIsAcked
  BY DEF WInv, CompleteIsAcked, Links, Closed, Streamed
<1> QED
  BY <1>1, WInvariance, PTL

-----------------------------------------------------------------------------
(***************************************************************************)
(* How many records a sequence of portions has.                            *)
(***************************************************************************)
Sizes(t) == [i \in 1..Len(t) |-> Cardinality(t[i])]

LEMMA SizesAre ==
  ASSUME NEW t \in Seq(Portion)
  PROVE  /\ Len(t) \in Nat /\ IsFiniteSet(1..Len(t))
         /\ Sizes(t) \in [1..Len(t) -> Nat]
         /\ \A i \in 1..Len(t) : Sizes(t)[i] = Cardinality(t[i])
         /\ Size(t) = SumFunctionOnSet(Sizes(t), 1..Len(t))
<1>1. Len(t) \in Nat /\ IsFiniteSet(1..Len(t))
  <2>1. 1 \in Int /\ Len(t) \in Int /\ Len(t) \in Nat
    OBVIOUS
  <2> QED
    BY <2>1, FS_Interval
<1>2. \A i \in 1..Len(t) : t[i] \in Portion
  OBVIOUS
<1>3. \A i \in 1..Len(t) : Cardinality(t[i]) \in Nat
  BY <1>2, FS_CardinalityType DEF Portion
<1>4. Size(t) = SumFunctionOnSet(Sizes(t), 1..Len(t))
  BY DEF Size, Sizes
<1> QED
  BY <1>1, <1>3, <1>4 DEF Sizes

\* The empty sequence has none, one portion more adds its records, and a prefix
\* has no more.
LEMMA SizeNat ==
  ASSUME NEW t \in Seq(Portion)
  PROVE  Size(t) \in Nat /\ (t = <<>> => Size(t) = 0)
<1>1. Size(t) \in Nat /\ (1..Len(t) = {} => Size(t) = 0)
  <2>1. 1..Len(t) \in SUBSET (1..Len(t))
    OBVIOUS
  <2> QED
    BY <2>1, SizesAre, SumNat
<1>2. t = <<>> => 1..Len(t) = {}
  OBVIOUS
<1> QED
  BY <1>1, <1>2

LEMMA SizeAppend ==
  ASSUME NEW t \in Seq(Portion), NEW b \in Portion
  PROVE  Size(Append(t, b)) = Size(t) + Cardinality(b)
<1> DEFINE u == Append(t, b)
           n == Len(t)
<1>1. /\ u \in Seq(Portion) /\ n \in Nat /\ Len(u) = n + 1
      /\ \A i \in 1..(n + 1) : u[i] = IF i <= n THEN t[i] ELSE b
  BY AppendSeq, AppendAt
<1>2. /\ Sizes(t) \in [1..n -> Nat] /\ IsFiniteSet(1..n)
      /\ \A i \in 1..n : Sizes(t)[i] = Cardinality(t[i])
      /\ Size(t) = SumFunctionOnSet(Sizes(t), 1..n)
  BY SizesAre
<1>3. /\ Sizes(u) \in [1..(n + 1) -> Nat] /\ IsFiniteSet(1..(n + 1))
      /\ \A i \in 1..(n + 1) : Sizes(u)[i] = Cardinality(u[i])
      /\ Size(u) = SumFunctionOnSet(Sizes(u), 1..(n + 1))
  <2> HIDE DEF u
  <2> QED
    BY <1>1, SizesAre
<1> HIDE DEF u, n
<1>4. n + 1 \in 1..(n + 1) /\ (1..(n + 1)) \ {n + 1} = 1..n /\ 1..n \in SUBSET (1..(n + 1))
      /\ 1..(n + 1) \in SUBSET (1..(n + 1)) /\ 1..n \in SUBSET (1..n)
  BY <1>1
<1>5. Size(u) = Sizes(u)[n + 1] + SumFunctionOnSet(Sizes(u), 1..n)
  <2> DEFINE D == 1..(n + 1)
             e == n + 1
  <2>1. e \in D /\ D \ {e} = 1..n /\ D \in SUBSET D /\ Sizes(u) \in [D -> Nat] /\ IsFiniteSet(D)
    BY <1>3, <1>4
  <2> HIDE DEF D, e
  <2>2. SumFunctionOnSet(Sizes(u), D) = Sizes(u)[e] + SumFunctionOnSet(Sizes(u), D \ {e})
    BY <2>1, SumRemove
  <2> QED
    BY <1>3, <2>1, <2>2 DEF D, e
<1>6. \A i \in 1..n : Sizes(u)[i] = Sizes(t)[i]
  BY <1>1, <1>2, <1>3, <1>4
<1>7. SumFunctionOnSet(Sizes(u), 1..n) = SumFunctionOnSet(Sizes(t), 1..n)
  <2> DEFINE D == 1..(n + 1)
             C == 1..n
  <2>1. /\ C \in SUBSET D /\ C \subseteq C /\ IsFiniteSet(C)
        /\ Sizes(u) \in [D -> Nat] /\ Sizes(t) \in [C -> Nat]
        /\ \A i \in C : Sizes(u)[i] = Sizes(t)[i]
    BY <1>2, <1>3, <1>4, <1>6
  <2> HIDE DEF D, C
  <2>2. SumFunctionOnSet(Sizes(u), C) = SumFunctionOnSet(Sizes(t), C)
    BY <2>1, SumSame
  <2> QED
    BY <2>2 DEF C
<1>8. Sizes(u)[n + 1] = Cardinality(b) /\ Cardinality(b) \in Nat
  BY <1>1, <1>3, <1>4, FS_CardinalityType DEF Portion
<1>9. Size(t) \in Nat
  BY SizeNat
<1> QED
  BY <1>2, <1>5, <1>7, <1>8, <1>9 DEF u

\* t is the beginning of u.
Begins(t, u) == Len(t) <= Len(u) /\ \A i \in 1..Len(t) : t[i] = u[i]

LEMMA SizeBegins ==
  ASSUME NEW t \in Seq(Portion), NEW u \in Seq(Portion), Begins(t, u)
  PROVE  Size(t) <= Size(u)
<1>1. /\ Sizes(t) \in [1..Len(t) -> Nat] /\ IsFiniteSet(1..Len(t)) /\ Len(t) \in Nat
      /\ \A i \in 1..Len(t) : Sizes(t)[i] = Cardinality(t[i])
      /\ Size(t) = SumFunctionOnSet(Sizes(t), 1..Len(t))
  BY SizesAre
<1>2. /\ Sizes(u) \in [1..Len(u) -> Nat] /\ IsFiniteSet(1..Len(u)) /\ Len(u) \in Nat
      /\ \A i \in 1..Len(u) : Sizes(u)[i] = Cardinality(u[i])
      /\ Size(u) = SumFunctionOnSet(Sizes(u), 1..Len(u))
  BY SizesAre
<1>3. 1..Len(t) \in SUBSET (1..Len(u)) /\ 1..Len(t) \in SUBSET (1..Len(t))
      /\ 1..Len(u) \in SUBSET (1..Len(u))
  BY <1>1, <1>2 DEF Begins
<1>4. \A i \in 1..Len(t) : Sizes(t)[i] = Sizes(u)[i]
  BY <1>1, <1>2, <1>3 DEF Begins
<1>5. SumFunctionOnSet(Sizes(t), 1..Len(t)) = SumFunctionOnSet(Sizes(u), 1..Len(t))
  <2> DEFINE C == 1..Len(t)
             D == 1..Len(u)
             f == Sizes(u)
             g == Sizes(t)
  <2>1. /\ C \in SUBSET D /\ C \subseteq C /\ IsFiniteSet(C)
        /\ f \in [D -> Nat] /\ g \in [C -> Nat]
        /\ \A i \in C : f[i] = g[i]
    BY <1>1, <1>2, <1>3, <1>4
  <2> HIDE DEF C, D, f, g
  <2>2. SumFunctionOnSet(f, C) = SumFunctionOnSet(g, C)
    BY <2>1, SumSame, SMTT(60)
  <2> QED
    BY <2>2 DEF C, f, g
<1>6. SumFunctionOnSet(Sizes(u), 1..Len(t)) <= SumFunctionOnSet(Sizes(u), 1..Len(u))
  BY <1>2, <1>3, SumSubset
<1> QED
  BY <1>1, <1>2, <1>5, <1>6

-----------------------------------------------------------------------------
(***************************************************************************)
(* A worker's count is the size of its tables, but for the batch that it   *)
(* is folding.                                                             *)
(***************************************************************************)
Uncounted(w) == IF folding[w] THEN Cardinality(tables[w][Len(tables[w])]) ELSE 0

Counted == \A w \in Worker : alive[w] => Size(tables[w]) = count[w] + Uncounted(w)

LEMMA CountedStep ==
  ASSUME IInv, Counted, [Next]_vars
  PROVE  Counted'
<1>0. /\ wire \in [Worker -> Seq(Portion)] /\ tables \in [Worker -> Seq(Portion)]
      /\ count \in [Worker -> Nat]
      /\ alive \in [Worker -> BOOLEAN] /\ folding \in [Worker -> BOOLEAN]
      /\ todo \in [Session -> SUBSET Worker]
  BY DEF IInv, TypeOK, SessionOK, LinkOK
<1>1. ASSUME UNCHANGED <<tables, count, folding, alive>> PROVE Counted'
  BY <1>1 DEF Counted, Uncounted
<1>2. ASSUME NEW s \in Session, Open(s) \/ Cancel(s) \/ Handler(s), ~ResetLink(s) PROVE Counted'
  BY <1>1, <1>2 DEF Open, Cancel, Handler, Refuse, Begin, ResetFails, ReadHeader,
       ReadBatch, ReadBatchFrom, ReadFails, ReadEnd, Put, Count, CountTo, PutSentinel, Await,
       AwaitUntil, AwaitFails, Finish, workerVars
<1>3. ASSUME NEW s \in Session, ResetLink(s) PROVE Counted'
  <2> DEFINE w == NextLink(s)
  <2>1. w \in Worker
    BY <1>0, <1>3, MinWorker DEF NextLink, IInv, Pending, ResetLink, ResetLinkTo
  <2>2. /\ tables' = [tables EXCEPT ![w] = <<>>] /\ count' = [count EXCEPT ![w] = 0]
        /\ ~folding[w] /\ UNCHANGED <<alive, folding>>
    BY <1>3 DEF ResetLink, ResetLinkTo
  <2>3. Size(<<>>) = 0
    <3>1. <<>> \in Seq(Portion)
      OBVIOUS
    <3> QED
      BY <3>1, SizeNat
  <2> HIDE DEF w
  <2> QED
    BY <1>0, <2>1, <2>2, <2>3 DEF Counted, Uncounted
<1>4. ASSUME NEW w \in Worker, FoldTables(w) PROVE Counted'
  <2> DEFINE b == Head(wire[w])
  <2>1. /\ wire[w] # <<>> /\ UNCHANGED <<alive, count>> /\ alive[w] /\ ~folding[w]
        /\ tables' = [tables EXCEPT ![w] = Append(@, b)]
        /\ folding' = [folding EXCEPT ![w] = TRUE]
    BY <1>4 DEF FoldTables
  <2>2. tables[w] \in Seq(Portion) /\ wire[w] \in Seq(Portion)
    BY <1>0
  <2>3. b \in Portion
    BY <2>1, <2>2, TailSeq
  <2> HIDE DEF b
  <2>4. /\ Size(Append(tables[w], b)) = Size(tables[w]) + Cardinality(b)
        /\ Append(tables[w], b)[Len(Append(tables[w], b))] = b
    <3>1. Len(tables[w]) \in Nat /\ Len(tables[w]) + 1 \in 1..(Len(tables[w]) + 1)
      BY <2>2
    <3> QED
      BY <2>2, <2>3, <3>1, SizeAppend, AppendAt
  <2>5. Cardinality(b) \in Nat /\ count[w] \in Nat
    BY <1>0, <2>3, FS_CardinalityType DEF Portion
  <2>6. /\ tables'[w] = Append(tables[w], b) /\ folding'[w] /\ count'[w] = count[w]
        /\ \A v \in Worker \ {w} : tables'[v] = tables[v] /\ folding'[v] = folding[v]
    BY <1>0, <2>1
  <2>7. Size(tables[w]) = count[w]
    BY <2>1, <2>5 DEF Counted, Uncounted
  <2>8. Size(tables'[w]) = count'[w] + Uncounted(w)'
    BY <2>4, <2>6, <2>7 DEF Uncounted
  <2> QED
    BY <2>1, <2>6, <2>8 DEF Counted, Uncounted
<1>5. ASSUME NEW w \in Worker, FoldCount(w) PROVE Counted'
  <2> DEFINE b == tables[w][Len(tables[w])]
  <2>1. /\ UNCHANGED <<alive, tables>> /\ alive[w] /\ folding[w]
        /\ count' = [count EXCEPT ![w] = @ + Cardinality(b)]
        /\ folding' = [folding EXCEPT ![w] = FALSE]
    BY <1>5 DEF FoldCount
  <2>2. b \in Portion
    <3>1. tables[w] \in Seq(Portion) /\ tables[w] # <<>>
      BY <1>0, <2>1 DEF IInv, Folded
    <3>2. Len(tables[w]) \in 1..Len(tables[w])
      BY <3>1
    <3> QED
      BY <3>1, <3>2
  <2>3. Cardinality(b) \in Nat /\ count[w] \in Nat
    BY <1>0, <2>2, FS_CardinalityType DEF Portion
  <2>4. Size(tables[w]) = count[w] + Cardinality(b)
    BY <2>1 DEF Counted, Uncounted
  <2> HIDE DEF b
  <2> QED
    BY <1>0, <2>1, <2>3, <2>4 DEF Counted, Uncounted
<1>6. ASSUME NEW w \in Worker, Crash(w) PROVE Counted'
  BY <1>0, <1>6 DEF Crash, Counted, Uncounted
<1>7. ASSUME NEW w \in Worker, Link(w) \/ SendLost(w) \/ Ack(w) PROVE Counted'
  BY <1>1, <1>7 DEF Link, Send, HalfClose, SendLost, Ack, workerVars
<1>8. ASSUME NEW x \in Query, Ask(x) \/ Serve(x) PROVE Counted'
  BY <1>1, <1>8, QueryFrame DEF workerVars
<1>9. CASE UNCHANGED vars
  BY <1>1, <1>9 DEF vars, workerVars
<1> QED
  BY <1>2, <1>3, <1>4, <1>5, <1>6, <1>7, <1>8, <1>9 DEF Next, Quiet, Fold

\* What a worker answers is consistent.
LEMMA HalfBatchStep ==
  ASSUME IInv, Counted, NoHalfBatch, [Next]_vars
  PROVE  NoHalfBatch'
<1>0. /\ count \in [Worker -> Nat] /\ partial \in [Query -> [Worker -> State]]
  BY DEF IInv, TypeOK, LinkOK, QueryOK
<1>1. ASSUME UNCHANGED partial PROVE NoHalfBatch'
  BY <1>1 DEF NoHalfBatch
<1>2. ASSUME NEW s \in Session, Open(s) \/ Cancel(s) \/ Handler(s) PROVE NoHalfBatch'
  BY <1>1, <1>2, HandlerFrame DEF queryVars
<1>3. ASSUME NEW w \in Worker, Link(w) \/ SendLost(w) \/ Fold(w) \/ Crash(w) PROVE NoHalfBatch'
  BY <1>1, <1>3, LinkFrame DEF queryVars
<1>4. ASSUME NEW x \in Query, Fetch(x) PROVE NoHalfBatch'
  <2>1. PICK w \in Worker : /\ alive[w] /\ ~folding[w]
             /\ partial' = [partial EXCEPT ![x][w] = [count |-> count[w], tables |-> tables[w]]]
    BY <1>4 DEF Fetch, FetchFrom
  <2>2. count[w] = Size(tables[w])
    BY <1>0, <2>1 DEF Counted, Uncounted
  <2> DEFINE a == [count |-> count[w], tables |-> tables[w]]
  <2>3. a.count = Size(a.tables)
    BY <2>2
  <2> HIDE DEF a
  <2> QED
    BY <1>0, <2>1, <2>3 DEF NoHalfBatch, a
<1>5. ASSUME NEW x \in Query, Ask(x) \/ (Serve(x) /\ ~Fetch(x)) PROVE NoHalfBatch'
  BY <1>1, <1>5 DEF Ask, Serve, Merge, FetchInfo, AddInfo, FetchFails, Answer, AnswerOr, queryVars
<1>6. CASE UNCHANGED vars
  BY <1>1, <1>6 DEF vars, queryVars
<1> QED
  BY <1>2, <1>3, <1>4, <1>5, <1>6 DEF Next, Quiet, Serve

-----------------------------------------------------------------------------
(***************************************************************************)
(* What a session has put on the links.                                    *)
(***************************************************************************)

\* The worker that record r of batch i of a session is for.
Home(i, r) == IF Dist = "rr" \/ W = 1 THEN i % W ELSE Station[r] % W

LEMMA HomeIs ==
  ASSUME NEW s \in Session, NEW j \in 1..Len(Batches[s])
  PROVE  /\ \A r \in Batches[s][j] : /\ r \in Record /\ Home(j - 1, r) \in Worker
                                     /\ Home(j - 1, r) \in Targets(Batches[s][j], j - 1)
         /\ \A w \in Targets(Batches[s][j], j - 1) :
              Part(Batches[s][j], w) = {r \in Batches[s][j] : Home(j - 1, r) = w}
<1> DEFINE b == Batches[s][j]
<1>1. b \in SUBSET Record
  BY BatchPortion DEF Portion
<1>2. W \in Nat \ {0} /\ j - 1 \in Nat /\ (j - 1) % W \in Worker
  <2>1. W \in Nat \ {0} /\ j - 1 \in Nat
    BY SizeAssumption, DataAssumption
  <2> QED
    BY <2>1 DEF Worker
<1>3. \A r \in Record : Station[r] % W \in Worker
  <2>1. \A n \in Nat : n % W \in Worker
    BY <1>2 DEF Worker
  <2> QED
    BY <2>1, DataAssumption
<1> HIDE DEF b
<1>4. CASE Dist = "rr" \/ W = 1
  BY <1>1, <1>2, <1>4 DEF Home, Targets, Part, b
<1>5. CASE ~(Dist = "rr" \/ W = 1)
  <2>1. \A w : Part(b, w) = {r \in b : Station[r] % W = w}
    BY <1>5 DEF Part
  <2>2. Targets(b, j - 1) = {w \in Worker : Part(b, w) # {}}
    BY <1>5 DEF Targets
  <2>3. \A r \in b : Home(j - 1, r) = Station[r] % W /\ r \in Record
    BY <1>1, <1>5 DEF Home
  <2>4. \A r \in b : Home(j - 1, r) \in Worker /\ Home(j - 1, r) \in Targets(b, j - 1)
    BY <1>3, <2>1, <2>2, <2>3
  <2>5. \A w \in Targets(b, j - 1) : Part(b, w) = {r \in b : Home(j - 1, r) = w}
    BY <2>1, <2>3
  <2> QED
    BY <2>3, <2>4, <2>5 DEF b
<1> QED
  BY <1>4, <1>5

\* The workers of session s have been reset: it may read, or has.
Started(s) ==
  \/ pc[s] \in {"reading", "dispatch", "closing", "awaiting", "finishing", "done"}
  \/ pc[s] = "failed" /\ (pos[s] # 0 \/ todo[s] = {})

\* The records of session s that it has put on the link of worker w.
Out(s, w) ==
  {r \in Record : \E j \in 1..Len(Batches[s]) :
     /\ j < pos[s] /\ r \in Batches[s][j] /\ Home(j - 1, r) = w
     /\ ~(pc[s] = "dispatch" /\ j = pos[s] - 1 /\ w \in todo[s])}

\* The records of the batches that it has dispatched, and those of the batch that
\* it is dispatching which it has put already.
Sofar(s) ==
  UNION {Batches[s][j] : j \in 1..(IF pc[s] = "dispatch" THEN pos[s] - 2 ELSE pos[s] - 1)}

Dispatched(s) ==
  IF pc[s] = "dispatch" THEN {r \in Current(s) : Home(pos[s] - 2, r) \notin todo[s]} ELSE {}

\* A link carried those and no others, none of them twice.
Carried(s) ==
  \A w \in Worker, r \in Record :
    r \in Out(s, w) <=> \E i \in 1..Len(sent[w]) : r \in sent[w][i]

Apart ==
  \A w \in Worker : \A i, k \in 1..Len(sent[w]) :
    i # k => sent[w][i] \intersect sent[w][k] = {}

\* The coordinator's counter is what it has dispatched, and the links together
\* carried what it counts and what it is dispatching.
Tallied(s) == IsFiniteSet(Sofar(s)) /\ ingested = Cardinality(Sofar(s))

Summed(s) ==
  Sum([w \in Worker |-> Size(sent[w])]) = ingested + Cardinality(Dispatched(s))

DataOf(s) == Carried(s) /\ Apart /\ Tallied(s) /\ Summed(s)

\* Before that its workers hold nothing, but for those still to be reset; and it
\* can only have failed on one that is dead.
Begun(s) ==
  /\ pc[s] = "resetting" => ingested = 0 /\ \A w \in Worker \ todo[s] : sent[w] = <<>>
  /\ pc[s] = "failed" /\ ~Started(s) => \E w \in Worker : ~alive[w]

DataInv == owner # Free => Begun(owner) /\ (Started(owner) => DataOf(owner))

\* What those are when a step changes none of what they depend on.
LEMMA SameData ==
  ASSUME NEW s \in Session, DataOf(s), UNCHANGED <<sent, ingested>>,
         \A w \in Worker : Out(s, w)' = Out(s, w), Sofar(s)' = Sofar(s),
         Dispatched(s)' = Dispatched(s)
  PROVE  DataOf(s)'
<1>1. Carried(s)' /\ Apart'
  BY DEF DataOf, Carried, Apart
<1>2. Tallied(s)' /\ Summed(s)'
  BY DEF DataOf, Tallied, Summed
<1> QED
  BY <1>1, <1>2 DEF DataOf

\* No batch is being dispatched, before and after.
LEMMA Elsewhere ==
  ASSUME NEW s \in Session, pc[s] # "dispatch", pc'[s] # "dispatch", pos'[s] = pos[s]
  PROVE  /\ \A w \in Worker : Out(s, w)' = Out(s, w)
         /\ Sofar(s)' = Sofar(s) /\ Dispatched(s)' = Dispatched(s)
BY DEF Out, Sofar, Dispatched

\* What a handler on the way is: the owner, with a batch number in range.
LEMMA OnTheWay ==
  ASSUME IInv, Owns, Stages, NEW s \in Session, pc[s] \in Running
  PROVE  /\ owner = s /\ owner # Free /\ pos[s] \in Nat /\ Len(Batches[s]) \in Nat
         /\ pos[s] <= Len(Batches[s]) + 1
         /\ pc[s] = "dispatch" => pos[s] - 1 \in 1..Len(Batches[s])
BY ActorAssumption, DataAssumption DEF IInv, TypeOK, SessionOK, Pending, Owns, Stages, Taken

\* The last reset starts the session with nothing on its links.
LEMMA DataReset ==
  ASSUME IInv, Owns, Stages, DataInv, NEW s \in Session, ResetLink(s)
  PROVE  DataInv'
<1> USE DEF Goto
<1> DEFINE w == NextLink(s)
<1>0. /\ pc \in [Session -> Pcs] /\ todo \in [Session -> SUBSET Worker]
      /\ sent \in [Worker -> Seq(Portion)] /\ pos \in [Session -> Nat]
  BY DEF IInv, TypeOK, SessionOK, LinkOK
<1>1. w \in Worker
  BY <1>0, MinWorker DEF NextLink, IInv, Pending, ResetLink, ResetLinkTo
<1>2. /\ pc[s] = "resetting" /\ sent' = [sent EXCEPT ![w] = <<>>]
      /\ todo' = [todo EXCEPT ![s] = @ \ {w}]
      /\ UNCHANGED <<pos, ingested, owner>>
      /\ IF todo[s] = {w} THEN pc' = [pc EXCEPT ![s] = "reading"] ELSE UNCHANGED pc
  BY DEF ResetLink, ResetLinkTo
<1>3. owner = s /\ owner # Free /\ pos[s] = 0
  BY <1>2, OnTheWay DEF Running, Stages
<1>4. ingested = 0 /\ \A v \in Worker \ todo[s] : sent[v] = <<>>
  BY <1>2, <1>3 DEF DataInv, Begun
<1> HIDE DEF w
<1>5. CASE todo[s] = {w}
  <2>1. pc'[s] = "reading" /\ pos'[s] = 0 /\ ingested' = 0 /\ owner' = s
    BY <1>0, <1>2, <1>3, <1>4, <1>5
  <2>2. \A v \in Worker : sent'[v] = <<>>
    BY <1>0, <1>1, <1>2, <1>4, <1>5
  <2>3. \A v \in Worker : Out(s, v)' = {}
    <3>1. \A j \in 1..Len(Batches[s]) : ~(j < 0)
      BY DataAssumption
    <3> QED
      BY <2>1, <3>1 DEF Out
  <2>4. Sofar(s)' = {} /\ Dispatched(s)' = {}
    BY <2>1 DEF Sofar, Dispatched
  <2>5. Carried(s)' /\ Apart'
    <3>1. Len(<<>>) = 0
      OBVIOUS
    <3> QED
      BY <2>2, <2>3, <3>1 DEF Carried, Apart
  <2>6. Tallied(s)'
    BY <2>1, <2>4, FS_EmptySet DEF Tallied
  <2>7. Summed(s)'
    <3> DEFINE f == [v \in Worker |-> Size(sent'[v])]
    <3>1. <<>> \in Seq(Portion)
      OBVIOUS
    <3>2. f \in [Worker -> Nat] /\ \A v \in Worker : f[v] = 0
      BY <2>2, <3>1, SizeNat
    <3> HIDE DEF f
    <3>3. Sum(f) = 0
      BY <3>2, Workers, SumZero DEF Sum
    <3> QED
      BY <2>1, <2>4, <3>3, FS_EmptySet DEF Summed, f
  <2> QED
    BY <2>1, <2>5, <2>6, <2>7 DEF DataInv, Begun, DataOf
<1>6. CASE todo[s] # {w}
  <2>1. pc'[s] = "resetting" /\ ingested' = 0 /\ owner' = s
    BY <1>2, <1>3, <1>4, <1>6
  <2>2. \A v \in Worker \ todo'[s] : sent'[v] = <<>>
    BY <1>0, <1>1, <1>2, <1>4
  <2> QED
    BY <2>1, <2>2 DEF DataInv, Begun, Started
<1> QED
  BY <1>5, <1>6

\* A new batch has nothing on a link yet.
LEMMA DataRead ==
  ASSUME IInv, Owns, Stages, DataInv, NEW s \in Session, ReadHeader(s) \/ ReadBatch(s)
  PROVE  DataInv'
<1> USE DEF Goto
<1>0. /\ pc \in [Session -> Pcs] /\ todo \in [Session -> SUBSET Worker] /\ pos \in [Session -> Nat]
  BY DEF IInv, TypeOK, SessionOK
<1>1. pc[s] = "reading" /\ UNCHANGED <<sent, ingested, owner, alive>>
  BY DEF ReadHeader, ReadBatch, ReadBatchFrom, linkVars, workerVars
<1>2. /\ owner = s /\ owner # Free /\ pos[s] \in Nat /\ Len(Batches[s]) \in Nat
      /\ DataOf(s)
  BY <1>1, OnTheWay DEF Running, DataInv, Started
<1>3. CASE ReadHeader(s)
  <2>1. pos[s] = 0 /\ pos'[s] = 1 /\ pc'[s] = "reading"
    BY <1>0, <1>1, <1>3 DEF ReadHeader
  <2>2. \A w \in Worker : Out(s, w)' = Out(s, w)
    <3>1. \A j \in 1..Len(Batches[s]) : ~(j < 0) /\ ~(j < 1)
      BY <1>2
    <3> QED
      BY <2>1, <3>1 DEF Out
  <2>3. Sofar(s)' = Sofar(s) /\ Dispatched(s)' = Dispatched(s)
    BY <1>1, <2>1 DEF Sofar, Dispatched
  <2>4. DataOf(s)'
    BY <1>1, <1>2, <2>2, <2>3, SameData
  <2> QED
    BY <1>1, <1>2, <2>1, <2>4 DEF DataInv, Begun
<1>4. CASE ReadBatch(s)
  <2> DEFINE j == pos[s]
             b == Batches[s][j]
  <2>1. /\ j \in 1..Len(Batches[s]) /\ pos'[s] = j + 1 /\ pc'[s] = "dispatch"
        /\ todo'[s] = Targets(b, j - 1)
    BY <1>0, <1>4 DEF ReadBatch, ReadBatchFrom
  <2>2. \A r \in b : Home(j - 1, r) \in Targets(b, j - 1)
    BY <2>1, HomeIs
  <2>3. \A w \in Worker : Out(s, w)' = Out(s, w)
    <3> SUFFICES ASSUME NEW w \in Worker, NEW r \in Record, NEW i \in 1..Len(Batches[s]),
                        r \in Batches[s][i], Home(i - 1, r) = w
                 PROVE  /\ i < pos'[s] /\ ~(i = pos'[s] - 1 /\ w \in todo'[s]) <=> i < pos[s]
      BY <1>1, <2>1 DEF Out
    <3> QED
      BY <1>2, <2>1, <2>2
  <2>4. Sofar(s)' = Sofar(s)
    BY <1>1, <1>2, <2>1 DEF Sofar
  <2>5. Dispatched(s)' = Dispatched(s)
    <3>1. Current(s)' = b /\ pos'[s] - 2 = j - 1
      BY <1>2, <2>1 DEF Current
    <3> QED
      BY <1>1, <2>1, <2>2, <3>1 DEF Dispatched
  <2>6. DataOf(s)'
    BY <1>1, <1>2, <2>3, <2>4, <2>5, SameData
  <2> QED
    BY <1>1, <1>2, <2>1, <2>6 DEF DataInv, Begun
<1> QED
  BY <1>3, <1>4

\* The parts of two disjoint finite sets count separately.
LEMMA CountApart ==
  ASSUME NEW S, NEW T, IsFiniteSet(S), IsFiniteSet(T), S \intersect T = {}
  PROVE  /\ IsFiniteSet(S \union T) /\ Cardinality(S) \in Nat /\ Cardinality(T) \in Nat
         /\ Cardinality(S \union T) = Cardinality(S) + Cardinality(T)
<1>1. Cardinality(S \intersect T) = 0
  BY FS_EmptySet
<1>2. /\ IsFiniteSet(S \union T)
      /\ Cardinality(S \union T) = Cardinality(S) + Cardinality(T) - Cardinality(S \intersect T)
  BY FS_Union
<1>3. Cardinality(S) \in Nat /\ Cardinality(T) \in Nat
  BY FS_CardinalityType
<1> QED
  BY <1>1, <1>2, <1>3

\* One put hands a worker its part of the batch.
LEMMA DataPut ==
  ASSUME IInv, Owns, Stages, DataInv, NEW s \in Session, Put(s)
  PROVE  DataInv'
<1>0. /\ pc \in [Session -> Pcs] /\ todo \in [Session -> SUBSET Worker]
      /\ sent \in [Worker -> Seq(Portion)] /\ ingested \in Nat
  BY DEF IInv, TypeOK, CoordOK, SessionOK, LinkOK
<1>w. PICK w \in Worker : w = NextLink(s) /\ w \in todo[s]
  BY <1>0, MinWorker DEF NextLink, Put
<1>j. PICK j \in 1..Len(Batches[s]) : j = pos[s] - 1
  BY OnTheWay DEF Put, Running
<1> DEFINE b == Batches[s][j]
           p == Part(b, w)
<1>1. /\ pc[s] = "dispatch" /\ todo[s] # {} /\ sent' = [sent EXCEPT ![w] = Append(@, p)]
      /\ todo' = [todo EXCEPT ![s] = @ \ {w}]
      /\ UNCHANGED <<pc, pos, ingested, owner, alive>>
  BY <1>w, <1>j DEF Put, Current, coordVars, workerVars
<1>2. /\ owner = s /\ owner # Free /\ pos[s] \in Nat /\ j \in 1..Len(Batches[s])
      /\ j = pos[s] - 1 /\ DataOf(s)
  BY <1>1, <1>j, OnTheWay DEF Running, DataInv, Started
<1>3. w \in Worker /\ w \in todo[s] /\ w \in Targets(b, j - 1)
  <2>1. pos[s] - 2 = j - 1
    BY <1>2
  <2> QED
    BY <1>1, <1>2, <1>w, <2>1 DEF Stages, Current
<1>4. /\ b \in Portion /\ p \in Portion /\ p = {r \in b : Home(j - 1, r) = w}
      /\ b \in SUBSET Record /\ IsFiniteSet(b)
  <2>1. b \in Portion /\ p \in Portion
    BY <1>2, BatchPortion
  <2> QED
    BY <1>2, <1>3, <2>1, HomeIs DEF Portion
<1>5. Current(s) = b /\ Current(s)' = b /\ pos[s] - 2 = j - 1 /\ todo'[s] = todo[s] \ {w}
  BY <1>0, <1>1, <1>2 DEF Current
<1>6. ASSUME NEW i \in 1..Len(Batches[s]), i # j
      PROVE  Batches[s][i] \intersect b = {}
  BY <1>2, <1>6, DataAssumption
<1> HIDE DEF b, p
<1>7. \A r \in Record : r \in Out(s, w)' <=> r \in Out(s, w) \/ r \in p
  <2> SUFFICES ASSUME NEW r \in Record
               PROVE  r \in Out(s, w)' <=> r \in Out(s, w) \/ r \in p
    OBVIOUS
  <2>1. r \in Out(s, w)' <=>
          \E i \in 1..Len(Batches[s]) : i < pos[s] /\ r \in Batches[s][i] /\ Home(i - 1, r) = w
    BY <1>1, <1>5 DEF Out
  <2>2. r \in Out(s, w) <=>
          \E i \in 1..Len(Batches[s]) :
             i < pos[s] /\ r \in Batches[s][i] /\ Home(i - 1, r) = w /\ i # j
    BY <1>1, <1>2, <1>3 DEF Out
  <2>3. r \in p <=> r \in Batches[s][j] /\ Home(j - 1, r) = w
    BY <1>4 DEF b
  <2>4. j < pos[s]
    BY <1>2
  <2> QED
    BY <1>2, <2>1, <2>2, <2>3, <2>4
<1>8. \A v \in Worker \ {w} : Out(s, v)' = Out(s, v)
  <2> SUFFICES ASSUME NEW v \in Worker \ {w} PROVE Out(s, v)' = Out(s, v)
    OBVIOUS
  <2>1. (v \in todo'[s] <=> v \in todo[s]) /\ pc'[s] = pc[s] /\ pos'[s] = pos[s]
    BY <1>1, <1>5
  <2> QED
    BY <2>1 DEF Out
<1>9. Out(s, w) \intersect p = {}
  BY <1>1, <1>2, <1>3, <1>4, <1>6 DEF Out
<1>10. /\ Len(sent[w]) \in Nat /\ Len(sent'[w]) = Len(sent[w]) + 1
       /\ \A i \in 1..(Len(sent[w]) + 1) :
            sent'[w][i] = IF i <= Len(sent[w]) THEN sent[w][i] ELSE p
  <2>1. sent[w] \in Seq(Portion) /\ sent'[w] = Append(sent[w], p)
    BY <1>0, <1>1, <1>3
  <2> QED
    BY <1>4, <2>1, AppendAt, AppendSeq
<1>11. \A v \in Worker \ {w} : sent'[v] = sent[v]
  BY <1>0, <1>1, <1>3
<1>12. Carried(s)'
  <2> SUFFICES ASSUME NEW v \in Worker, NEW r \in Record
               PROVE  r \in Out(s, v)' <=> \E i \in 1..Len(sent'[v]) : r \in sent'[v][i]
    BY DEF Carried
  <2>1. r \in Out(s, v) <=> \E i \in 1..Len(sent[v]) : r \in sent[v][i]
    BY <1>2 DEF DataOf, Carried
  <2>2. CASE v # w
    BY <1>8, <1>11, <2>1, <2>2
  <2>3. CASE v = w
    <3>1. (\E i \in 1..Len(sent'[w]) : r \in sent'[w][i])
            <=> (\E i \in 1..Len(sent[w]) : r \in sent[w][i]) \/ r \in p
      <4>1. \A i \in 1..Len(sent[w]) : i \in 1..Len(sent'[w]) /\ sent'[w][i] = sent[w][i]
        BY <1>10
      <4>2. Len(sent[w]) + 1 \in 1..Len(sent'[w]) /\ sent'[w][Len(sent[w]) + 1] = p
        BY <1>10
      <4>3. \A i \in 1..Len(sent'[w]) : i \in 1..Len(sent[w]) \/ sent'[w][i] = p
        BY <1>10
      <4> QED
        BY <4>1, <4>2, <4>3
    <3> QED
      BY <1>7, <2>1, <2>3, <3>1
  <2> QED
    BY <2>2, <2>3
<1>13. Apart'
  <2> SUFFICES ASSUME NEW v \in Worker, NEW i \in 1..Len(sent'[v]), NEW k \in 1..Len(sent'[v]),
                      i # k
               PROVE  sent'[v][i] \intersect sent'[v][k] = {}
    BY DEF Apart
  <2>1. CASE v # w
    BY <1>2, <1>11, <2>1 DEF DataOf, Apart
  <2>2. CASE v = w
    <3>1. \A m \in 1..Len(sent[w]) : sent[w][m] \intersect p = {}
      <4>1. \A m \in 1..Len(sent[w]), r \in p : r \in sent[w][m] => r \in Out(s, w)
        BY <1>2, <1>3, <1>4 DEF DataOf, Carried
      <4> QED
        BY <1>9, <4>1
    <3>2. \A m \in 1..Len(sent'[w]) :
            \/ m \in 1..Len(sent[w]) /\ sent'[w][m] = sent[w][m]
            \/ m = Len(sent[w]) + 1 /\ sent'[w][m] = p
      BY <1>10
    <3> QED
      BY <1>2, <1>3, <2>2, <3>1, <3>2 DEF DataOf, Apart
  <2> QED
    BY <2>1, <2>2
<1>14. Tallied(s)'
  <2>1. Sofar(s)' = Sofar(s)
    BY <1>1 DEF Sofar
  <2> QED
    BY <1>1, <1>2, <2>1 DEF DataOf, Tallied
<1>15. Summed(s)'
  <2> DEFINE D == Dispatched(s)
             f == [v \in Worker |-> Size(sent[v])]
             g == [v \in Worker |-> Size(sent'[v])]
  <2>1. /\ D \subseteq b /\ D \intersect p = {} /\ Dispatched(s)' = D \union p
    BY <1>1, <1>3, <1>4, <1>5 DEF Dispatched
  <2>2. IsFiniteSet(D) /\ IsFiniteSet(p)
    BY <1>4, <2>1, FS_Subset DEF Portion
  <2>3. /\ Cardinality(D) \in Nat /\ Cardinality(p) \in Nat
        /\ Cardinality(D \union p) = Cardinality(D) + Cardinality(p)
    BY <2>1, <2>2, CountApart
  <2>4. /\ sent[w] \in Seq(Portion) /\ sent'[w] = Append(sent[w], p)
        /\ \A v \in Worker : sent[v] \in Seq(Portion) /\ Size(sent[v]) \in Nat
    BY <1>0, <1>1, <1>3, SizeNat
  <2>5. Size(sent'[w]) = Size(sent[w]) + Cardinality(p)
    BY <1>4, <2>4, SizeAppend
  <2>6. /\ f \in [Worker -> Nat] /\ g \in [Worker -> Nat]
        /\ g[w] = f[w] + Cardinality(p) /\ \A v \in Worker \ {w} : g[v] = f[v]
    <3>1. \A v \in Worker : Size(sent'[v]) \in Nat
      <4>1. \A v \in Worker : sent'[v] \in Seq(Portion)
        BY <1>4, <1>11, <2>4, AppendSeq
      <4> QED
        BY <4>1, SizeNat
    <3> QED
      BY <1>3, <1>11, <2>4, <2>5, <3>1
  <2>7. Sum(f) = ingested + Cardinality(D)
    BY <1>2 DEF DataOf, Summed
  <2> HIDE DEF D, f, g
  <2>8. Sum(g) = Sum(f) + Cardinality(p)
    BY <1>3, <2>3, <2>6, Workers, SumPoint DEF Sum
  <2>9. Sum(g) = ingested + Cardinality(D \union p)
    BY <1>0, <2>3, <2>7, <2>8
  <2> QED
    BY <1>1, <2>1, <2>9 DEF Summed, g
<1>16. DataOf(s)'
  BY <1>12, <1>13, <1>14, <1>15 DEF DataOf
<1> QED
  BY <1>1, <1>2, <1>16 DEF DataInv, Begun

\* The batch is counted when all of it has been put.
LEMMA DataCount ==
  ASSUME IInv, Owns, Stages, DataInv, NEW s \in Session, Count(s)
  PROVE  DataInv'
<1>j. PICK j \in 1..Len(Batches[s]) : j = pos[s] - 1
  BY OnTheWay DEF Count, CountTo, Running
<1> DEFINE b == Batches[s][j]
<1>0. pc \in [Session -> Pcs] /\ ingested \in Nat
  BY DEF IInv, TypeOK, CoordOK, SessionOK
<1>1. /\ pc[s] = "dispatch" /\ todo[s] = {} /\ ingested' = ingested + Cardinality(b)
      /\ pc'[s] = "reading" /\ UNCHANGED <<pos, todo, sent, owner, alive>>
  BY <1>0, <1>j DEF Count, CountTo, Current, Goto, linkVars, workerVars
<1>2. /\ owner = s /\ owner # Free /\ pos[s] \in Nat /\ j = pos[s] - 1 /\ DataOf(s)
  BY <1>1, <1>j, OnTheWay DEF Running, DataInv, Started
<1>3. b \in SUBSET Record /\ IsFiniteSet(b) /\ Cardinality(b) \in Nat
  BY BatchPortion, FS_CardinalityType DEF Portion
<1>4. Current(s) = b
  BY <1>2 DEF Current
<1>5. \A i \in 1..Len(Batches[s]) : i # j => Batches[s][i] \intersect b = {}
  BY DataAssumption
<1> HIDE DEF b
<1>6. Carried(s)' /\ Apart'
  <2>1. \A w \in Worker : Out(s, w)' = Out(s, w)
    BY <1>1 DEF Out
  <2> QED
    BY <1>1, <1>2, <2>1 DEF DataOf, Carried, Apart
<1>7. Tallied(s)'
  <2>1. 1..(pos[s] - 1) = 1..(pos[s] - 2) \union {j} /\ j \notin 1..(pos[s] - 2)
        /\ \A i \in 1..(pos[s] - 2) : i \in 1..Len(Batches[s])
    BY <1>2
  <2>2. Sofar(s) = UNION {Batches[s][i] : i \in 1..(pos[s] - 2)}
    BY <1>1 DEF Sofar
  <2>3. Sofar(s)' = UNION {Batches[s][i] : i \in 1..(pos[s] - 1)}
    BY <1>1 DEF Sofar
  <2>4. Sofar(s)' = Sofar(s) \union b
    BY <2>1, <2>2, <2>3 DEF b
  <2>5. Sofar(s) \intersect b = {}
    BY <1>5, <2>1, <2>2
  <2>6. IsFiniteSet(Sofar(s)) /\ ingested = Cardinality(Sofar(s))
    BY <1>2 DEF DataOf, Tallied
  <2> QED
    BY <1>1, <1>3, <2>4, <2>5, <2>6, CountApart DEF Tallied
<1>8. Summed(s)'
  <2>1. Dispatched(s) = b /\ Dispatched(s)' = {}
    BY <1>1, <1>4 DEF Dispatched
  <2>2. Sum([w \in Worker |-> Size(sent[w])]) = ingested + Cardinality(b)
    BY <1>2, <2>1 DEF DataOf, Summed
  <2>3. ingested' = ingested' + Cardinality({})
    BY <1>0, <1>1, <1>3, FS_EmptySet
  <2> QED
    BY <1>1, <2>1, <2>2, <2>3 DEF Summed
<1> QED
  BY <1>1, <1>2, <1>6, <1>7, <1>8 DEF DataInv, Begun, DataOf

\* The other steps of a handler put nothing and count nothing.
LEMMA DataRest ==
  ASSUME IInv, Owns, Stages, Unheard, DataInv, NEW s \in Session,
         Open(s) \/ Cancel(s) \/ Handler(s),
         ~ResetLink(s), ~ReadHeader(s), ~ReadBatch(s), ~Put(s), ~Count(s)
  PROVE  DataInv'
<1> USE DEF Goto
<1>0. /\ pc \in [Session -> Pcs] /\ todo \in [Session -> SUBSET Worker]
      /\ owner \in Session \union {Free}
  BY DEF IInv, TypeOK, CoordOK, SessionOK
<1>1. ASSUME UNCHANGED <<sent, ingested, owner, alive>>,
             owner # Free => pc'[owner] = pc[owner] /\ pos'[owner] = pos[owner]
                             /\ todo'[owner] = todo[owner]
      PROVE  DataInv'
  <2>1. ASSUME owner # Free PROVE DataInv'
    <3>1. \A w \in Worker : Out(owner, w)' = Out(owner, w)
      BY <1>1, <2>1 DEF Out
    <3>2. Sofar(owner)' = Sofar(owner) /\ Dispatched(owner)' = Dispatched(owner)
      BY <1>1, <2>1 DEF Sofar, Dispatched, Current
    <3>3. DataOf(owner) => DataOf(owner)'
      BY <1>1, <3>1, <3>2 DEF DataOf, Carried, Apart, Tallied, Summed
    <3>4. (Started(owner)' <=> Started(owner)) /\ (Begun(owner) => Begun(owner)')
      BY <1>1, <2>1 DEF Started, Begun
    <3> QED
      BY <1>1, <3>3, <3>4 DEF DataInv
  <2> QED
    BY <1>1, <2>1 DEF DataInv
<1>2. CASE Open(s) \/ Refuse(s)
  <2>1. owner # s
    BY <1>2 DEF Open, Refuse, Unheard
  <2> QED
    BY <1>0, <1>1, <1>2, <2>1 DEF Open, Refuse, coordVars, linkVars, workerVars
<1>3. CASE Cancel(s)
  BY <1>1, <1>3 DEF Cancel, coordVars, linkVars, workerVars
<1>4. CASE Begin(s)
  <2>1. pc'[s] = "resetting" /\ owner' = s /\ ingested' = 0 /\ todo'[s] = Worker
    BY <1>0, <1>4 DEF Begin
  <2> QED
    BY <2>1 DEF DataInv, Begun, Started
<1>5. CASE ResetFails(s)
  <2>1. pc[s] = "resetting" /\ ~alive[NextLink(s)] /\ UNCHANGED <<owner, alive, todo, pos>>
        /\ pc'[s] = "failed"
    BY <1>0, <1>5 DEF ResetFails, workerVars
  <2>2. owner = s /\ pos[s] = 0 /\ todo[s] # {}
    BY <2>1, OnTheWay DEF Running, Stages, IInv, Pending
  <2>3. NextLink(s) \in Worker
    BY <1>0, <2>2, MinWorker DEF NextLink, IInv, TypeOK, SessionOK
  <2>4. ~Started(s)'
    BY <2>1, <2>2 DEF Started
  <2> QED
    BY <2>1, <2>2, <2>3, <2>4 DEF DataInv, Begun
<1>6. CASE ReadFails(s) \/ ReadEnd(s) \/ PutSentinel(s) \/ Await(s) \/ AwaitFails(s) \/ Finish(s)
  <2>1. /\ pc[s] \in {"reading", "closing", "awaiting", "finishing"}
        /\ pc'[s] \in {"failed", "closing", "awaiting", "finishing", "done"}
        /\ pos' = pos /\ (pc'[s] = "failed" /\ pos[s] = 0 => todo[s] = {} /\ todo'[s] = todo[s])
        /\ UNCHANGED <<sent, ingested, owner, alive>>
    <3>1. CASE ReadFails(s) \/ ReadEnd(s) \/ PutSentinel(s) \/ Finish(s)
      BY <1>0, <3>1 DEF ReadFails, ReadEnd, PutSentinel, Finish, coordVars, linkVars, workerVars,
                        Stages
    <3>2. CASE Await(s)
      BY <1>0, <3>2 DEF Await, AwaitUntil, coordVars, linkVars, workerVars
    <3>3. CASE AwaitFails(s)
      BY <1>0, <3>3, OnTheWay DEF AwaitFails, coordVars, linkVars, workerVars, Stages, Running
    <3> QED
      BY <1>6, <3>1, <3>2, <3>3
  <2>2. owner = s /\ owner # Free /\ Started(s) /\ DataOf(s)
    BY <2>1, OnTheWay DEF Running, Started, DataInv
  <2>3. Started(s)'
    BY <2>1 DEF Started
  <2>4. DataOf(s)'
    BY <2>1, <2>2, Elsewhere, SameData
  <2> QED
    BY <2>1, <2>2, <2>3, <2>4 DEF DataInv, Begun
<1> QED
  BY <1>2, <1>3, <1>4, <1>5, <1>6 DEF Handler

LEMMA DataStep ==
  ASSUME IInv, Owns, Stages, Unheard, DataInv, [Next]_vars
  PROVE  DataInv'
<1>1. ASSUME UNCHANGED <<sent, coordVars, sessionVars, owner>>,
             \A w \in Worker : ~alive[w] => ~alive'[w]
      PROVE  DataInv'
  <2>1. \A s \in Session, w \in Worker : Out(s, w)' = Out(s, w)
    BY <1>1 DEF Out, sessionVars
  <2>2. \A s \in Session : Sofar(s)' = Sofar(s) /\ Dispatched(s)' = Dispatched(s)
                           /\ (Started(s)' <=> Started(s))
    BY <1>1 DEF Sofar, Dispatched, Current, Started, sessionVars
  <2>3. owner \in Session \union {Free} /\ owner' = owner /\ ingested' = ingested
    BY <1>1 DEF IInv, TypeOK, CoordOK, coordVars
  <2>4. \A s \in Session : DataOf(s) => DataOf(s)'
    BY <1>1, <2>1, <2>2, <2>3, SameData
  <2>5. \A s \in Session : Begun(s) => Begun(s)'
    BY <1>1, <2>2, <2>3 DEF Begun, sessionVars
  <2> QED
    BY <2>2, <2>3, <2>4, <2>5 DEF DataInv
<1>2. ASSUME NEW s \in Session, Open(s) \/ Cancel(s) \/ Handler(s) PROVE DataInv'
  BY <1>2, DataReset, DataRead, DataPut, DataCount, DataRest
<1>3. ASSUME NEW w \in Worker, Link(w) \/ SendLost(w) \/ Fold(w) \/ Crash(w) PROVE DataInv'
  <2>1. UNCHANGED <<sent, coordVars, sessionVars, owner>>
    BY <1>3, LinkFrame
  <2>2. \A v \in Worker : ~alive[v] => ~alive'[v]
    BY <1>3 DEF Link, Send, HalfClose, SendLost, Fold, FoldTables, FoldCount, Ack, Crash, workerVars,
                IInv, TypeOK, LinkOK
  <2> QED
    BY <1>1, <2>1, <2>2
<1>4. ASSUME NEW x \in Query, Ask(x) \/ Serve(x) PROVE DataInv'
  BY <1>1, <1>4, QueryFrame DEF linkVars, workerVars
<1>5. CASE UNCHANGED vars
  BY <1>1, <1>5 DEF vars, linkVars, workerVars
<1> QED
  BY <1>2, <1>3, <1>4, <1>5 DEF Next, Quiet

-----------------------------------------------------------------------------
(***************************************************************************)
(* How often a record occurs.                                              *)
(***************************************************************************)
Places(r, f) ==
  {p \in Worker \X (1..Max({Len(f[w]) : w \in Worker} \union {0})) :
     p[2] <= Len(f[p[1]]) /\ r \in f[p[1]][p[2]]}

LEMMA PlacesAre ==
  ASSUME NEW r, NEW f \in [Worker -> Seq(Portion)]
  PROVE  /\ Occurrences(r, f) = Cardinality(Places(r, f))
         /\ Places(r, f) = {p \in Worker \X Nat : p[2] \in 1..Len(f[p[1]]) /\ r \in f[p[1]][p[2]]}
<1> DEFINE g == [w \in Worker |-> Len(f[w])]
           m == Max({g[w] : w \in Worker} \union {0})
<1>1. g \in [Worker -> Nat]
  OBVIOUS
<1>2. m \in Nat /\ \A w \in Worker : g[w] <= m
  <2> HIDE DEF g
  <2> QED
    BY <1>1, Workers, Largest
<1>3. {g[w] : w \in Worker} = {Len(f[w]) : w \in Worker}
  OBVIOUS
<1>4. Places(r, f) = {p \in Worker \X (1..m) : p[2] <= Len(f[p[1]]) /\ r \in f[p[1]][p[2]]}
  BY <1>3 DEF Places
<1>5. \A w \in Worker : Len(f[w]) <= m /\ Len(f[w]) \in Nat
  BY <1>1, <1>2
<1> HIDE DEF m
<1>6. \A p \in Worker \X Nat : p[2] \in 1..Len(f[p[1]]) <=> p[2] \in 1..m /\ p[2] <= Len(f[p[1]])
  BY <1>2, <1>5
<1>7. Worker \X (1..m) \subseteq Worker \X Nat
  OBVIOUS
<1> QED
  BY <1>4, <1>6, <1>7 DEF Occurrences, Places

\* A record that is nowhere twice occurs once or not at all.
LEMMA OccursOnce ==
  ASSUME NEW r, NEW f \in [Worker -> Seq(Portion)],
         \A v, w \in Worker : \A i \in 1..Len(f[v]), k \in 1..Len(f[w]) :
           r \in f[v][i] /\ r \in f[w][k] => v = w /\ i = k
  PROVE  Occurrences(r, f) =
           IF \E w \in Worker : \E i \in 1..Len(f[w]) : r \in f[w][i] THEN 1 ELSE 0
<1>1. Occurrences(r, f) = Cardinality(Places(r, f))
      /\ Places(r, f) = {p \in Worker \X Nat : p[2] \in 1..Len(f[p[1]]) /\ r \in f[p[1]][p[2]]}
  BY PlacesAre
<1>2. CASE \E w \in Worker : \E i \in 1..Len(f[w]) : r \in f[w][i]
  <2>w. PICK w \in Worker : \E i \in 1..Len(f[w]) : r \in f[w][i]
    BY <1>2
  <2>1. PICK i \in 1..Len(f[w]) : r \in f[w][i]
    BY <2>w
  <2>2. i \in Nat /\ <<w, i>> \in Worker \X Nat
    OBVIOUS
  <2>3. <<w, i>> \in Places(r, f)
    BY <1>1, <2>1, <2>2
  <2>4. \A p \in Places(r, f) : p = <<w, i>>
    <3> SUFFICES ASSUME NEW p \in Places(r, f) PROVE p = <<w, i>>
      OBVIOUS
    <3>1. p \in Worker \X Nat /\ p[2] \in 1..Len(f[p[1]]) /\ r \in f[p[1]][p[2]]
      BY <1>1
    <3>2. p[1] = w /\ p[2] = i
      BY <2>1, <3>1
    <3> QED
      BY <3>1, <3>2
  <2>5. Places(r, f) = {<<w, i>>}
    BY <2>3, <2>4
  <2> QED
    BY <1>1, <1>2, <2>5, FS_Singleton
<1>3. CASE ~\E w \in Worker : \E i \in 1..Len(f[w]) : r \in f[w][i]
  <2>1. Places(r, f) = {}
    BY <1>1, <1>3
  <2> QED
    BY <1>1, <1>3, <2>1, FS_EmptySet
<1> QED
  BY <1>2, <1>3

\* No record is on the links of a session twice, nor one that is not the
\* session's; and in the end all of them have been.
LEMMA SentOnce ==
  ASSUME NEW s \in Session, DataOf(s), NEW r \in Record
  PROVE  /\ \A v, w \in Worker : \A i \in 1..Len(sent[v]), k \in 1..Len(sent[w]) :
              r \in sent[v][i] /\ r \in sent[w][k] => v = w /\ i = k
         /\ \A w \in Worker : \A i \in 1..Len(sent[w]) : r \in sent[w][i] => r \in Dataset(s)
<1>1. \A w \in Worker : \A i \in 1..Len(sent[w]) : r \in sent[w][i] =>
        \E j \in 1..Len(Batches[s]) : r \in Batches[s][j] /\ Home(j - 1, r) = w
  BY DEF DataOf, Carried, Out
<1>2. \A i, j \in 1..Len(Batches[s]) : r \in Batches[s][i] /\ r \in Batches[s][j] => i = j
  BY DataAssumption
<1>3. ASSUME NEW v \in Worker, NEW w \in Worker, NEW i \in 1..Len(sent[v]),
             NEW k \in 1..Len(sent[w]), r \in sent[v][i], r \in sent[w][k]
      PROVE  v = w /\ i = k
  <2>1. v = w
    BY <1>1, <1>2, <1>3
  <2> QED
    BY <1>3, <2>1 DEF DataOf, Apart
<1> QED
  BY <1>1, <1>3 DEF Dataset

LEMMA SentAll ==
  ASSUME NEW s \in Session, DataOf(s), pc[s] # "dispatch", pos[s] = Len(Batches[s]) + 1
  PROVE  /\ \A r \in Dataset(s) : r \in Record /\ \E w \in Worker : \E i \in 1..Len(sent[w]) : r \in sent[w][i]
         /\ ingested = Cardinality(Dataset(s)) /\ ingested \in Nat
         /\ Sum([w \in Worker |-> Size(sent[w])]) = ingested
<1>0. Len(Batches[s]) \in Nat
  BY DataAssumption
<1>1. Sofar(s) = Dataset(s) /\ Dispatched(s) = {}
  <2>1. pos[s] - 1 = Len(Batches[s])
    BY <1>0
  <2> QED
    BY <2>1 DEF Sofar, Dispatched, Dataset
<1>2. ingested = Cardinality(Dataset(s)) /\ ingested \in Nat
  BY <1>1, FS_CardinalityType DEF DataOf, Tallied
<1>3. Sum([w \in Worker |-> Size(sent[w])]) = ingested
  BY <1>1, <1>2, FS_EmptySet DEF DataOf, Summed
<1>4. ASSUME NEW r \in Dataset(s)
      PROVE  r \in Record /\ \E w \in Worker : \E i \in 1..Len(sent[w]) : r \in sent[w][i]
  <2>1. PICK j \in 1..Len(Batches[s]) : r \in Batches[s][j]
    BY DEF Dataset
  <2>2. r \in Record /\ Home(j - 1, r) \in Worker
    BY <2>1, HomeIs
  <2>3. j < pos[s]
    BY <1>0
  <2>4. r \in Out(s, Home(j - 1, r))
    BY <2>1, <2>2, <2>3 DEF Out
  <2> QED
    BY <2>2, <2>4 DEF DataOf, Carried
<1> QED
  BY <1>2, <1>3, <1>4

\* Workers that hold what was put on their links hold the session's records, each
\* once, when it has sent them all.
LEMMA ExactOf ==
  ASSUME NEW s \in Session, DataOf(s), pc[s] # "dispatch", pos[s] = Len(Batches[s]) + 1,
         NEW f \in [Worker -> Seq(Portion)], \A w \in Worker : f[w] = sent[w]
  PROVE  ExactlyOnce(Dataset(s), f)
<1> SUFFICES ASSUME NEW r \in Record
             PROVE  Occurrences(r, f) = IF r \in Dataset(s) THEN 1 ELSE 0
  BY DEF ExactlyOnce
<1>1. \A v, w \in Worker : \A i \in 1..Len(f[v]), k \in 1..Len(f[w]) :
        r \in f[v][i] /\ r \in f[w][k] => v = w /\ i = k
  <2>1. \A v, w \in Worker : \A i \in 1..Len(sent[v]), k \in 1..Len(sent[w]) :
          r \in sent[v][i] /\ r \in sent[w][k] => v = w /\ i = k
    BY SentOnce
  <2> QED
    BY <2>1
<1>2. (\E w \in Worker : \E i \in 1..Len(f[w]) : r \in f[w][i]) <=> r \in Dataset(s)
  BY SentOnce, SentAll
<1>3. Occurrences(r, f) = IF \E w \in Worker : \E i \in 1..Len(f[w]) : r \in f[w][i] THEN 1 ELSE 0
  BY <1>1, OccursOnce
<1> QED
  BY <1>2, <1>3

\* When the session is complete, a live worker has folded all it was sent.
LEMMA Arrived ==
  ASSUME WInv, complete, NEW w \in Worker, alive[w]
  PROVE  tables[w] = sent[w] /\ ~folding[w]
<1>1. wire[w] = <<>> /\ queue[w] = <<>> /\ ~folding[w]
  BY DEF WInv, Links, Closed, Streamed
<1>2. tables[w] \o <<>> \o <<>> = sent[w]
  BY <1>1, NothingQueued DEF WInv, Conduit
<1>3. tables[w] \in Seq(Portion)
  BY DEF WInv, IInv, TypeOK, LinkOK
<1>4. tables[w] \o <<>> = tables[w]
  BY <1>3
<1> QED
  BY <1>1, <1>2, <1>4

\* Where the coordinator stands when it is complete.
LEMMA AtEnd ==
  ASSUME WInv, DataInv, complete
  PROVE  /\ owner \in Session /\ DataOf(owner) /\ pc[owner] = "done"
         /\ pos[owner] = Len(Batches[owner]) + 1 /\ outcome[owner] = ingested
<1>1. owner \in Session /\ pc[owner] = "done" /\ outcome[owner] = ingested /\ owner # Free
  BY DEF WInv, Owns, IInv, TypeOK, CoordOK
<1>2. DataOf(owner)
  BY <1>1 DEF DataInv, Started
<1> QED
  BY <1>1, <1>2 DEF WInv, Stages

LEMMA CompleteExact ==
  ASSUME WInv, Counted, DataInv
  PROVE  CompleteIsExact
<1> SUFFICES ASSUME complete, \A w \in Worker : alive[w]
             PROVE  /\ ExactlyOnce(Dataset(owner), tables)
                    /\ ingested = Cardinality(Dataset(owner))
                    /\ Sum(count) = ingested
                    /\ outcome[owner] = ingested
  BY DEF CompleteIsExact
<1>0. count \in [Worker -> Nat] /\ tables \in [Worker -> Seq(Portion)]
  BY DEF WInv, IInv, TypeOK, LinkOK
<1>1. \A w \in Worker : tables[w] = sent[w] /\ ~folding[w]
  BY Arrived
<1>2. /\ owner \in Session /\ DataOf(owner) /\ pc[owner] # "dispatch"
      /\ pos[owner] = Len(Batches[owner]) + 1 /\ outcome[owner] = ingested
  BY AtEnd
<1>3. ExactlyOnce(Dataset(owner), tables)
  BY <1>0, <1>1, <1>2, ExactOf
<1>4. ingested = Cardinality(Dataset(owner)) /\ Sum([w \in Worker |-> Size(sent[w])]) = ingested
  BY <1>2, SentAll
<1>5. \A w \in Worker : count[w] = Size(sent[w])
  BY <1>0, <1>1 DEF Counted, Uncounted
<1>6. count = [w \in Worker |-> Size(sent[w])]
  BY <1>0, <1>5
<1> QED
  BY <1>2, <1>3, <1>4, <1>6

-----------------------------------------------------------------------------
(***************************************************************************)
(* Queries.                                                                *)
(***************************************************************************)

\* A merged report counts what its partials do.
Merged ==
  \A x \in Query : Reported(x) =>
    report[x].processed = Sum([w \in Worker |-> partial[x][w].count])

\* A query that no session start interferes with has fetched beginnings of what
\* was put on the links, or it waits for a worker that is dead.
Fetched ==
  \A x \in Query :
    qpc[x] = "fetching" /\ owner # Free /\ asked[x].owner = owner /\ ~asked[x].resetting =>
      IF Started(owner) THEN \A w \in Worker \ pend[x] : Begins(partial[x][w].tables, sent[w])
                        ELSE \E w \in pend[x] : ~alive[w]

\* One that was asked when the session was complete fetches all of it.
Settled ==
  \A x \in Query : asked[x].complete /\ asked[x].owner = owner =>
    /\ qpc[x] = "fetching" => \A w \in Worker \ pend[x] : partial[x][w].tables = sent[w]
    /\ qpc[x] = "informing" =>
         /\ \A w \in Worker : partial[x][w].tables = sent[w]
         /\ \A w \in Worker \ pend[x] : info[x][w] = Size(sent[w])

\* What a step leaves of a query that has its report.
LEMMA ReportFrame ==
  ASSUME IInv, [Next]_vars, NEW x \in Query, Reported(x)'
  PROVE  \/ Merge(x)
         \/ /\ Reported(x) /\ partial'[x] = partial[x] /\ asked'[x] = asked[x]
            /\ report'[x].active = report[x].active /\ report'[x].complete = report[x].complete
            /\ report'[x].ingested = report[x].ingested
            /\ report'[x].processed = report[x].processed
            /\ report'[x].owner = report[x].owner
<1> USE DEF Reported, queryVars
<1>0. /\ qpc \in [Query -> {"idle", "fetching", "informing", "answering", "done", "failed"}]
      /\ report \in [Query -> Report] /\ DOMAIN partial = Query /\ DOMAIN asked = Query
  BY DEF IInv, TypeOK, QueryOK
<1>1. ASSUME NEW s \in Session, Open(s) \/ Cancel(s) \/ Handler(s) PROVE UNCHANGED queryVars
  BY <1>1, HandlerFrame
<1>2. ASSUME NEW w \in Worker, Link(w) \/ SendLost(w) \/ Fold(w) \/ Crash(w)
      PROVE  UNCHANGED queryVars
  BY <1>2, LinkFrame
<1>3. ASSUME UNCHANGED queryVars
      PROVE  Reported(x) /\ partial'[x] = partial[x] /\ asked'[x] = asked[x] /\ report'[x] = report[x]
  BY <1>3
<1>4. ASSUME NEW y \in Query, Ask(y)
      PROVE  Reported(x) /\ partial'[x] = partial[x] /\ asked'[x] = asked[x] /\ report'[x] = report[x]
  BY <1>0, <1>4 DEF Ask
<1>5. ASSUME NEW y \in Query, Fetch(y)
      PROVE  Reported(x) /\ partial'[x] = partial[x] /\ asked'[x] = asked[x] /\ report'[x] = report[x]
  <2>1. PICK w \in Worker : \E v : partial' = [partial EXCEPT ![y][w] = v]
    BY <1>5 DEF Fetch, FetchFrom
  <2>2. qpc[y] = "fetching" /\ UNCHANGED <<qpc, asked, report>>
    BY <1>5 DEF Fetch, FetchFrom
  <2>3. x # y
    BY <2>2
  <2> QED
    BY <1>0, <2>1, <2>2, <2>3
<1>6. ASSUME NEW y \in Query, Merge(y), y # x
      PROVE  Reported(x) /\ partial'[x] = partial[x] /\ asked'[x] = asked[x] /\ report'[x] = report[x]
  BY <1>0, <1>6 DEF Merge
<1>7. ASSUME NEW y \in Query, FetchInfo(y) \/ FetchFails(y) \/ Answer(y)
      PROVE  Reported(x) /\ partial'[x] = partial[x] /\ asked'[x] = asked[x] /\ report'[x] = report[x]
  BY <1>0, <1>7 DEF FetchInfo, FetchFails, Answer, AnswerOr
<1>8. ASSUME NEW y \in Query, AddInfo(y)
      PROVE  /\ Reported(x) /\ partial'[x] = partial[x] /\ asked'[x] = asked[x]
             /\ report'[x].active = report[x].active /\ report'[x].complete = report[x].complete
             /\ report'[x].ingested = report[x].ingested
             /\ report'[x].processed = report[x].processed
             /\ report'[x].owner = report[x].owner
  <2>1. report' = [report EXCEPT ![y].workers = Sum(info[y])] /\ UNCHANGED <<partial, asked>>
        /\ Reported(x)
    BY <1>0, <1>8 DEF AddInfo
  <2> QED
    BY <1>0, <2>1 DEF Report
<1>9. CASE UNCHANGED vars
  BY <1>3, <1>9 DEF vars
<1> QED
  BY <1>1, <1>2, <1>3, <1>4, <1>5, <1>6, <1>7, <1>8, <1>9 DEF Next, Quiet, Serve

\* What a merge writes.
LEMMA MergeIs ==
  ASSUME IInv, NEW x \in Query, Merge(x)
  PROVE  /\ qpc[x] = "fetching" /\ pend[x] = {} /\ lock = Free
         /\ UNCHANGED <<coordVars, linkVars, sessionVars, workerVars, partial, info, asked, owner>>
         /\ report'[x].complete = complete /\ report'[x].ingested = ingested
         /\ report'[x].processed = Sum([w \in Worker |-> partial[x][w].count])
         /\ report'[x].owner = owner
BY DEF Merge, IInv, TypeOK, QueryOK

LEMMA MergedStep ==
  ASSUME IInv, Merged, [Next]_vars
  PROVE  Merged'
<1> SUFFICES ASSUME NEW x \in Query, Reported(x)'
             PROVE  report'[x].processed = Sum([w \in Worker |-> partial'[x][w].count])
  BY DEF Merged, Sum
<1>1. CASE Merge(x)
  BY <1>1, MergeIs
<1>2. CASE ~Merge(x)
  BY <1>2, ReportFrame DEF Merged
<1> QED
  BY <1>1, <1>2

\* A query's steps leave the other queries alone.
LEMMA OtherQuery ==
  ASSUME IInv, NEW x \in Query, NEW y \in Query \ {x}, Ask(y) \/ Serve(y)
  PROVE  /\ qpc'[x] = qpc[x] /\ pend'[x] = pend[x] /\ partial'[x] = partial[x]
         /\ info'[x] = info[x] /\ report'[x] = report[x] /\ asked'[x] = asked[x]
<1>0. /\ DOMAIN qpc = Query /\ DOMAIN pend = Query /\ DOMAIN partial = Query
      /\ DOMAIN info = Query /\ DOMAIN report = Query /\ DOMAIN asked = Query
  BY DEF IInv, TypeOK, QueryOK
<1>1. CASE Ask(y)
  BY <1>0, <1>1 DEF Ask
<1>2. CASE Fetch(y)
  BY <1>0, <1>2 DEF Fetch, FetchFrom
<1>3. CASE Merge(y)
  BY <1>0, <1>3 DEF Merge
<1>4. CASE FetchInfo(y)
  BY <1>0, <1>4 DEF FetchInfo
<1>5. CASE AddInfo(y)
  BY <1>0, <1>5 DEF AddInfo
<1>6. CASE FetchFails(y) \/ Answer(y)
  BY <1>0, <1>6 DEF FetchFails, Answer, AnswerOr
<1> QED
  BY <1>1, <1>2, <1>3, <1>4, <1>5, <1>6 DEF Serve

\* What a handler's step that begins no session and resets no worker does to the
\* links and to the owner's progress.
LEMMA HandlerGrows ==
  ASSUME IInv, NEW s \in Session, Open(s) \/ Cancel(s) \/ Handler(s), ~ResetLink(s),
         NEW w \in Worker
  PROVE  Begins(sent[w], sent'[w])
<1>0. sent \in [Worker -> Seq(Portion)] /\ todo \in [Session -> SUBSET Worker]
  BY DEF IInv, TypeOK, SessionOK, LinkOK
<1>1. CASE ~Put(s)
  <2>1. UNCHANGED sent
    BY <1>1 DEF Open, Cancel, Handler, Refuse, Begin, ResetFails, ReadHeader, ReadBatch,
         ReadBatchFrom, ReadFails, ReadEnd, Count, CountTo, PutSentinel, Await, AwaitUntil,
         AwaitFails, Finish, linkVars
  <2> QED
    BY <1>0, <2>1 DEF Begins
<1>2. CASE Put(s)
  <2> DEFINE v == NextLink(s)
             p == Part(Current(s), v)
  <2>1. v \in Worker /\ p \in Portion /\ sent' = [sent EXCEPT ![v] = Append(@, p)]
    BY <1>0, <1>2, MinWorker, CurrentPortion DEF Put, NextLink
  <2>2. sent[w] \in Seq(Portion)
    BY <1>0
  <2> HIDE DEF v, p
  <2>3. CASE w = v
    <3>1. sent'[w] = Append(sent[w], p)
      BY <1>0, <2>1, <2>3
    <3>2. Len(sent[w]) \in Nat
      BY <2>2
    <3> QED
      BY <2>1, <2>2, <3>1, <3>2, AppendAt DEF Begins
  <2>4. CASE w # v
    BY <1>0, <2>1, <2>2, <2>4 DEF Begins
  <2> QED
    BY <2>3, <2>4
<1> QED
  BY <1>1, <1>2

LEMMA StartedKept ==
  ASSUME IInv, Owns, Stages, NEW s \in Session, Open(s) \/ Cancel(s) \/ Handler(s), ~Begin(s),
         owner # Free, lock = Free
  PROVE  owner' = owner /\ (Started(owner)' <=> Started(owner))
<1> USE DEF Goto
<1>0. /\ pc \in [Session -> Pcs] /\ todo \in [Session -> SUBSET Worker]
      /\ pos \in [Session -> Nat] /\ owner \in Session /\ active \in BOOLEAN /\ complete \in BOOLEAN
  BY DEF IInv, TypeOK, CoordOK, SessionOK
<1>1. ~ResetLink(s) /\ ~ResetFails(s) /\ pc[owner] # "resetting"
  BY <1>0, ActorAssumption DEF Owns, ResetLink, ResetLinkTo, ResetFails
<1>2. owner' = owner
  BY <1>1 DEF Open, Cancel, Handler, Refuse, ReadHeader, ReadBatch, ReadBatchFrom, ReadFails,
       ReadEnd, Put, Count, CountTo, PutSentinel, Await, AwaitUntil, AwaitFails, Finish
<1>3. CASE Open(s) \/ Refuse(s) \/ Cancel(s)
  <2>1. s # owner \/ (pc' = pc /\ pos' = pos /\ todo' = todo)
    BY <1>0, <1>3 DEF Open, Refuse, Cancel, Owns, Taken, Running
  <2> QED
    BY <1>0, <1>2, <1>3, <2>1 DEF Started, Open, Refuse, Cancel
<1>4. CASE Handler(s) /\ ~Refuse(s)
  <2>1. pc[s] \in {"reading", "dispatch", "closing", "awaiting", "finishing"}
    BY <1>1, <1>4 DEF Handler, ReadHeader, ReadBatch, ReadBatchFrom, ReadFails, ReadEnd, Put, Count,
         CountTo, PutSentinel, Await, AwaitUntil, AwaitFails, Finish
  <2>2. owner = s
    BY <2>1 DEF Owns, Taken, Running
  <2>3. CASE ReadFails(s)
    BY <1>0, <1>2, <2>2, <2>3 DEF ReadFails, Started, Stages
  <2>4. CASE AwaitFails(s)
    BY <1>0, <1>2, <2>2, <2>4, OnTheWay DEF AwaitFails, Started, Stages, Running
  <2>5. CASE ReadHeader(s) \/ ReadBatch(s) \/ ReadEnd(s) \/ Put(s) \/ Count(s) \/ PutSentinel(s)
             \/ Await(s) \/ Finish(s)
    <3>1. pc'[s] \in {"reading", "dispatch", "closing", "awaiting", "finishing", "done"}
      BY <1>0, <2>1, <2>5 DEF ReadHeader, ReadBatch, ReadBatchFrom, ReadEnd, Put, Count, CountTo,
                             PutSentinel, Await, AwaitUntil, Finish
    <3> QED
      BY <1>2, <2>1, <2>2, <3>1 DEF Started
  <2> QED
    BY <1>1, <1>4, <2>3, <2>4, <2>5 DEF Handler
<1> QED
  BY <1>3, <1>4

\* Nobody begins a session that a query already knows.
LEMMA BeginIsNew ==
  ASSUME IInv, Unheard, NEW s \in Session, Begin(s), NEW x \in Query
  PROVE  asked'[x].owner # owner'
BY DEF Begin, Unheard, queryVars

LEMMA FetchedStep ==
  ASSUME WInv, DataInv, Fetched, [Next]_vars
  PROVE  Fetched'
<1> SUFFICES ASSUME NEW x \in Query, qpc'[x] = "fetching", owner' # Free,
                    asked'[x].owner = owner', ~asked'[x].resetting
             PROVE  IF Started(owner)'
                      THEN \A w \in Worker \ pend'[x] : Begins(partial'[x][w].tables, sent'[w])
                      ELSE \E w \in pend'[x] : ~alive'[w]
  BY DEF Fetched
<1> DEFINE Goal == IF Started(owner)'
                     THEN \A w \in Worker \ pend'[x] : Begins(partial'[x][w].tables, sent'[w])
                     ELSE \E w \in pend'[x] : ~alive'[w]
<1>0. /\ IInv /\ Owns /\ Stages /\ Unheard /\ Noted /\ Links /\ Conduit
      /\ sent \in [Worker -> Seq(Portion)] /\ wire \in [Worker -> Seq(Portion)]
      /\ tables \in [Worker -> Seq(Portion)] /\ queue \in [Worker -> Seq(Item)]
      /\ partial \in [Query -> [Worker -> State]] /\ pend \in [Query -> SUBSET Worker]
      /\ alive \in [Worker -> BOOLEAN] /\ owner \in Session \union {Free}
      /\ qpc \in [Query -> {"idle", "fetching", "informing", "answering", "done", "failed"}]
  BY DEF WInv, IInv, TypeOK, CoordOK, LinkOK, QueryOK
\* It had fetched as much before, and nothing was reset in between.
<1>1. ASSUME qpc[x] = "fetching", owner' = owner, asked'[x] = asked[x], pend'[x] = pend[x],
             partial'[x] = partial[x], Started(owner)' <=> Started(owner),
             \A w \in Worker : Begins(sent[w], sent'[w]) /\ (~alive[w] => ~alive'[w])
      PROVE  Goal
  <2>1. IF Started(owner) THEN \A w \in Worker \ pend[x] : Begins(partial[x][w].tables, sent[w])
                          ELSE \E w \in pend[x] : ~alive[w]
    BY <1>1 DEF Fetched
  <2>2. CASE Started(owner)
    <3> SUFFICES ASSUME NEW w \in Worker \ pend[x]
                 PROVE  Begins(partial[x][w].tables, sent'[w])
      BY <1>1, <2>2
    <3>1. Begins(partial[x][w].tables, sent[w]) /\ Begins(sent[w], sent'[w])
      BY <1>1, <2>1, <2>2
    <3>2. partial[x][w].tables \in Seq(Portion) /\ sent[w] \in Seq(Portion)
      BY <1>0 DEF State
    <3>3. \A i \in 1..Len(partial[x][w].tables) : i \in 1..Len(sent[w])
      BY <3>1, <3>2 DEF Begins
    <3>4. Len(partial[x][w].tables) <= Len(sent'[w])
      <4>1. Len(partial[x][w].tables) \in Nat /\ Len(sent[w]) \in Nat
        BY <3>2
      <4>2. Len(sent'[w]) \in Nat
        BY StepWInv DEF WInv, IInv, TypeOK, LinkOK
      <4> QED
        BY <3>1, <4>1, <4>2 DEF Begins
    <3> QED
      BY <3>1, <3>3, <3>4 DEF Begins
  <2>3. CASE ~Started(owner)
    BY <1>0, <1>1, <2>1, <2>3
  <2> QED
    BY <2>2, <2>3
<1>2. \A w \in Worker : Begins(sent[w], sent[w])
  BY <1>0 DEF Begins
<1>3. ASSUME NEW s \in Session, Open(s) \/ Cancel(s) \/ Handler(s)
      PROVE  Goal
  <2>1. ~Begin(s)
    BY <1>0, BeginIsNew
  <2>2. UNCHANGED queryVars /\ UNCHANGED alive
    BY <1>3, HandlerFrame
  <2>3. owner' = owner
    BY <1>3, <2>1 DEF Open, Cancel, Handler, Refuse, ResetLink, ResetLinkTo, ResetFails, ReadHeader,
         ReadBatch, ReadBatchFrom, ReadFails, ReadEnd, Put, Count, CountTo, PutSentinel, Await,
         AwaitUntil, AwaitFails, Finish
  <2>4. lock = Free
    BY <1>0, <2>2, <2>3 DEF Noted, queryVars
  <2>5. ~ResetLink(s)
    BY <1>0, <2>4, ActorAssumption DEF Owns, ResetLink, ResetLinkTo
  <2>6. Started(owner)' <=> Started(owner)
    BY <1>0, <1>3, <2>1, <2>3, <2>4, StartedKept
  <2>7. \A w \in Worker : Begins(sent[w], sent'[w])
    BY <1>0, <1>3, <2>5, HandlerGrows
  <2> QED
    BY <1>1, <2>2, <2>3, <2>6, <2>7 DEF queryVars
<1>4. ASSUME NEW w \in Worker, Link(w) \/ SendLost(w) \/ Fold(w) \/ Crash(w)
      PROVE  Goal
  <2>1. UNCHANGED <<sessionVars, queryVars, owner, sent>>
    BY <1>4, LinkFrame
  <2>2. \A v \in Worker : ~alive[v] => ~alive'[v]
    BY <1>0, <1>4 DEF Link, Send, HalfClose, SendLost, Fold, FoldTables, FoldCount, Ack, Crash,
                      workerVars
  <2>3. Started(owner)' <=> Started(owner)
    BY <2>1 DEF Started, sessionVars
  <2> QED
    BY <1>1, <1>2, <2>1, <2>2, <2>3 DEF queryVars
<1>5. ASSUME NEW y \in Query, Ask(y) \/ Serve(y)
      PROVE  Goal
  <2>1. UNCHANGED <<lock, complete, sessionVars, owner, sent, alive, pc, pos, todo>>
    BY <1>5, QueryFrame DEF coordVars, linkVars, workerVars, sessionVars
  <2>2. Started(owner)' <=> Started(owner)
    BY <2>1 DEF Started
  <2>3. CASE y # x
    BY <1>0, <1>1, <1>2, <1>5, <2>1, <2>2, <2>3, OtherQuery
  <2>4. CASE y = x /\ Ask(x)
    <3>1. pend'[x] = Worker /\ lock = Free
      BY <1>0, <2>4 DEF Ask, IInv, TypeOK, QueryOK
    <3>2. CASE ~Started(owner)
      <4>1. pc[owner] = "failed"
        BY <1>0, <2>1, <3>1, <3>2, ActorAssumption DEF Owns, Taken, Running, Started
      <4>2. \E w \in Worker : ~alive[w]
        BY <2>1, <3>2, <4>1 DEF DataInv, Begun
      <4> QED
        BY <2>1, <2>2, <3>1, <3>2, <4>2
    <3>3. CASE Started(owner)
      BY <2>2, <3>1, <3>3
    <3> QED
      BY <3>2, <3>3
  <2>5. CASE y = x /\ Fetch(x)
    <3>1. PICK w \in pend[x] :
            /\ alive[w] /\ ~folding[w]
            /\ partial' = [partial EXCEPT ![x][w] = [count |-> count[w], tables |-> tables[w]]]
            /\ pend' = [pend EXCEPT ![x] = @ \ {w}]
      BY <2>5 DEF Fetch, FetchFrom
    <3>2. w \in Worker /\ qpc[x] = "fetching" /\ asked'[x] = asked[x] /\ pend'[x] = pend[x] \ {w}
      BY <1>0, <2>5, <3>1 DEF Fetch, FetchFrom
    <3>3. IF Started(owner) THEN \A v \in Worker \ pend[x] : Begins(partial[x][v].tables, sent[v])
                            ELSE \E v \in pend[x] : ~alive[v]
      BY <2>1, <3>2 DEF Fetched
    <3>4. /\ partial'[x][w].tables = tables[w]
          /\ \A v \in Worker \ {w} : partial'[x][v] = partial[x][v]
      BY <1>0, <3>1, <3>2
    <3>5. Begins(tables[w], sent[w])
      <4>1. /\ tables[w] \in Seq(Portion) /\ wire[w] \in Seq(Portion)
            /\ Queued(queue[w]) \in Seq(Portion)
        BY <1>0, <3>2, QueuedIs
      <4>2. tables[w] \o wire[w] \o Queued(queue[w]) = sent[w]
        BY <1>0, <3>1, <3>2 DEF Conduit
      <4>3. \A a, b, c \in Seq(Portion) : Begins(a, a \o b \o c)
        BY DEF Begins
      <4> QED
        BY <4>1, <4>2, <4>3, Zenon
    <3> QED
      BY <1>0, <2>1, <2>2, <3>1, <3>2, <3>3, <3>4, <3>5
  <2>6. CASE y = x /\ Serve(x) /\ ~Fetch(x)
    BY <1>0, <2>6 DEF Serve, Merge, FetchInfo, AddInfo, FetchFails, Answer, AnswerOr
  <2> QED
    BY <1>5, <2>3, <2>4, <2>5, <2>6
<1>6. ASSUME UNCHANGED vars
      PROVE  Goal
  <2>1. UNCHANGED <<sessionVars, queryVars, owner, sent, alive>>
    BY <1>6 DEF vars, linkVars, workerVars
  <2>2. Started(owner)' <=> Started(owner)
    BY <2>1 DEF Started, sessionVars
  <2> QED
    BY <1>1, <1>2, <2>1, <2>2 DEF queryVars
<1> QED
  BY <1>3, <1>4, <1>5, <1>6 DEF Next, Quiet

LEMMA SettledStep ==
  ASSUME WInv, Counted, Settled, [Next]_vars
  PROVE  Settled'
<1> SUFFICES ASSUME NEW x \in Query, asked'[x].complete, asked'[x].owner = owner'
             PROVE  /\ qpc'[x] = "fetching" =>
                         \A w \in Worker \ pend'[x] : partial'[x][w].tables = sent'[w]
                    /\ qpc'[x] = "informing" =>
                         /\ \A w \in Worker : partial'[x][w].tables = sent'[w]
                         /\ \A w \in Worker \ pend'[x] : info'[x][w] = Size(sent'[w])
  BY DEF Settled, Size
<1> DEFINE Goal == /\ qpc'[x] = "fetching" =>
                        \A w \in Worker \ pend'[x] : partial'[x][w].tables = sent'[w]
                   /\ qpc'[x] = "informing" =>
                        /\ \A w \in Worker : partial'[x][w].tables = sent'[w]
                        /\ \A w \in Worker \ pend'[x] : info'[x][w] = Size(sent'[w])
<1>0. /\ IInv /\ Owns /\ Unheard /\ Noted
      /\ partial \in [Query -> [Worker -> State]] /\ pend \in [Query -> SUBSET Worker]
      /\ info \in [Query -> [Worker -> Nat]] /\ count \in [Worker -> Nat]
      /\ qpc \in [Query -> {"idle", "fetching", "informing", "answering", "done", "failed"}]
  BY DEF WInv, IInv, TypeOK, LinkOK, QueryOK
<1>1. ASSUME qpc'[x] = qpc[x], owner' = owner, asked'[x] = asked[x], pend'[x] = pend[x],
             partial'[x] = partial[x], info'[x] = info[x], sent' = sent
      PROVE  Goal
  BY <1>1 DEF Settled
<1>2. ASSUME NEW s \in Session, Open(s) \/ Cancel(s) \/ Handler(s) PROVE Goal
  <2>1. ~Begin(s)
    BY <1>0, BeginIsNew
  <2>2. UNCHANGED queryVars
    BY <1>2, HandlerFrame
  <2>3. owner' = owner
    BY <1>2, <2>1 DEF Open, Cancel, Handler, Refuse, ResetLink, ResetLinkTo, ResetFails, ReadHeader,
         ReadBatch, ReadBatchFrom, ReadFails, ReadEnd, Put, Count, CountTo, PutSentinel, Await,
         AwaitUntil, AwaitFails, Finish
  <2>4. complete /\ ~active
    BY <1>0, <2>2, <2>3 DEF Noted, Owns, queryVars
  <2>5. ~ResetLink(s) /\ ~Put(s)
    BY <1>0, <2>4 DEF Owns, Taken, Running, ResetLink, ResetLinkTo, Put
  <2>6. sent' = sent
    BY <1>2, <2>5 DEF Open, Cancel, Handler, Refuse, Begin, ResetFails, ReadHeader, ReadBatch,
         ReadBatchFrom, ReadFails, ReadEnd, Count, CountTo, PutSentinel, Await, AwaitUntil,
         AwaitFails, Finish, linkVars
  <2> QED
    BY <1>1, <2>2, <2>3, <2>6 DEF queryVars
<1>3. ASSUME NEW w \in Worker, Link(w) \/ SendLost(w) \/ Fold(w) \/ Crash(w) PROVE Goal
  BY <1>1, <1>3, LinkFrame DEF queryVars
<1>4. ASSUME NEW y \in Query, Ask(y) \/ Serve(y) PROVE Goal
  <2>1. UNCHANGED <<complete, owner, sent>>
    BY <1>4, QueryFrame DEF coordVars, linkVars
  <2>2. CASE y # x
    BY <1>0, <1>1, <1>4, <2>1, <2>2, OtherQuery
  <2>3. CASE y = x /\ Ask(x)
    BY <1>0, <2>3 DEF Ask
  <2>4. CASE y = x /\ Fetch(x)
    <3>1. PICK w \in pend[x] :
            /\ alive[w] /\ ~folding[w]
            /\ partial' = [partial EXCEPT ![x][w] = [count |-> count[w], tables |-> tables[w]]]
            /\ pend' = [pend EXCEPT ![x] = @ \ {w}]
      BY <2>4 DEF Fetch, FetchFrom
    <3>2. w \in Worker /\ qpc[x] = "fetching" /\ qpc'[x] = "fetching" /\ asked'[x] = asked[x]
          /\ pend'[x] = pend[x] \ {w}
      BY <1>0, <2>4, <3>1 DEF Fetch, FetchFrom
    <3>3. complete
      BY <1>0, <2>1, <3>2 DEF Noted
    <3>4. tables[w] = sent[w]
      BY <3>1, <3>2, <3>3, Arrived
    <3>5. /\ partial'[x][w].tables = tables[w]
          /\ \A v \in Worker \ {w} : partial'[x][v] = partial[x][v]
      BY <1>0, <3>1, <3>2
    <3>6. \A v \in Worker \ pend[x] : partial[x][v].tables = sent[v]
      BY <2>1, <3>2 DEF Settled
    <3> QED
      BY <2>1, <3>2, <3>4, <3>5, <3>6
  <2>5. CASE y = x /\ Merge(x)
    <3>1. qpc[x] = "fetching" /\ pend[x] = {} /\ asked' = asked /\ partial' = partial
      BY <2>5 DEF Merge
    <3>2. \A w \in Worker : partial[x][w].tables = sent[w]
      BY <2>1, <3>1 DEF Settled
    <3>3. qpc'[x] # "fetching" /\ (qpc'[x] = "informing" => pend'[x] = Worker)
      BY <1>0, <2>5 DEF Merge
    <3> QED
      BY <2>1, <3>1, <3>2, <3>3
  <2>6. CASE y = x /\ FetchInfo(x)
    <3>1. PICK w \in pend[x] : /\ alive[w] /\ ~folding[w]
                               /\ info' = [info EXCEPT ![x][w] = count[w]]
                               /\ pend' = [pend EXCEPT ![x] = @ \ {w}]
      BY <2>6 DEF FetchInfo
    <3>2. /\ w \in Worker /\ qpc[x] = "informing" /\ qpc' = qpc /\ asked' = asked
          /\ partial' = partial /\ pend'[x] = pend[x] \ {w}
      BY <1>0, <2>6, <3>1 DEF FetchInfo
    <3>3. complete
      BY <1>0, <2>1, <3>2 DEF Noted
    <3>4. count[w] = Size(sent[w])
      BY <1>0, <3>1, <3>2, <3>3, Arrived DEF Counted, Uncounted
    <3>5. info'[x][w] = count[w] /\ \A v \in Worker \ {w} : info'[x][v] = info[x][v]
      BY <1>0, <3>1, <3>2
    <3>6. /\ \A v \in Worker : partial[x][v].tables = sent[v]
          /\ \A v \in Worker \ pend[x] : info[x][v] = Size(sent[v])
      BY <2>1, <3>2 DEF Settled
    <3> QED
      BY <2>1, <3>2, <3>4, <3>5, <3>6
  <2>7. CASE y = x /\ (AddInfo(x) \/ FetchFails(x) \/ Answer(x))
    BY <1>0, <2>7 DEF AddInfo, FetchFails, Answer, AnswerOr
  <2> QED
    BY <1>4, <2>2, <2>3, <2>4, <2>5, <2>6, <2>7 DEF Serve
<1>5. CASE UNCHANGED vars
  BY <1>1, <1>5 DEF vars, linkVars, queryVars
<1> QED
  BY <1>2, <1>3, <1>4, <1>5 DEF Next, Quiet

\* The second half of ReportCoherent.
Informed ==
  \A x \in Query :
    qpc[x] \in {"answering", "done"} /\ x \in Detailed /\ asked[x].complete
      /\ asked[x].owner = owner => report[x].workers = report[x].processed

LEMMA InformedStep ==
  ASSUME WInv, NoHalfBatch, Merged, Settled, Informed, [Next]_vars
  PROVE  Informed'
<1> SUFFICES ASSUME NEW x \in Query, qpc'[x] \in {"answering", "done"}, x \in Detailed,
                    asked'[x].complete, asked'[x].owner = owner'
             PROVE  report'[x].workers = report'[x].processed
  BY DEF Informed
<1>0. /\ IInv /\ Unheard
      /\ partial \in [Query -> [Worker -> State]] /\ report \in [Query -> Report]
      /\ info \in [Query -> [Worker -> Nat]]
      /\ qpc \in [Query -> {"idle", "fetching", "informing", "answering", "done", "failed"}]
  BY DEF WInv, IInv, TypeOK, QueryOK
<1>1. ASSUME qpc[x] \in {"answering", "done"}, owner' = owner, asked'[x] = asked[x],
             report'[x] = report[x]
      PROVE  report'[x].workers = report'[x].processed
  BY <1>1 DEF Informed
<1>2. ASSUME NEW s \in Session, Open(s) \/ Cancel(s) \/ Handler(s)
      PROVE  report'[x].workers = report'[x].processed
  <2>1. ~Begin(s)
    BY <1>0, BeginIsNew
  <2>2. owner' = owner
    BY <1>2, <2>1 DEF Open, Cancel, Handler, Refuse, ResetLink, ResetLinkTo, ResetFails, ReadHeader,
         ReadBatch, ReadBatchFrom, ReadFails, ReadEnd, Put, Count, CountTo, PutSentinel, Await,
         AwaitUntil, AwaitFails, Finish
  <2> QED
    BY <1>1, <1>2, <2>2, HandlerFrame DEF queryVars
<1>3. ASSUME NEW w \in Worker, Link(w) \/ SendLost(w) \/ Fold(w) \/ Crash(w)
      PROVE  report'[x].workers = report'[x].processed
  BY <1>1, <1>3, LinkFrame DEF queryVars
<1>4. ASSUME NEW y \in Query, Ask(y) \/ Serve(y)
      PROVE  report'[x].workers = report'[x].processed
  <2>1. owner' = owner
    BY <1>4, QueryFrame
  <2>2. CASE y # x
    BY <1>0, <1>1, <1>4, <2>1, <2>2, OtherQuery
  <2>3. CASE y = x /\ AddInfo(x)
    <3>1. /\ qpc[x] = "informing" /\ pend[x] = {} /\ asked' = asked
          /\ report' = [report EXCEPT ![x].workers = Sum(info[x])]
      BY <2>3 DEF AddInfo
    <3>2. report'[x].workers = Sum(info[x]) /\ report'[x].processed = report[x].processed
      BY <1>0, <3>1 DEF Report
    <3>3. \A w \in Worker : partial[x][w].tables = sent[w] /\ info[x][w] = Size(sent[w])
      BY <2>1, <3>1 DEF Settled
    <3>4. \A w \in Worker : partial[x][w].count = info[x][w]
      BY <3>3 DEF NoHalfBatch
    <3>5. [w \in Worker |-> partial[x][w].count] = info[x]
      BY <1>0, <3>4
    <3>6. report[x].processed = Sum([w \in Worker |-> partial[x][w].count])
      BY <3>1 DEF Merged, Reported
    <3> QED
      BY <3>2, <3>5, <3>6
  <2>4. CASE y = x /\ Answer(x)
    BY <1>1, <2>1, <2>4 DEF Answer, AnswerOr
  <2>5. CASE y = x /\ (Ask(x) \/ Fetch(x) \/ Merge(x) \/ FetchInfo(x) \/ FetchFails(x))
    BY <1>0, <2>5 DEF Ask, Fetch, FetchFrom, Merge, FetchInfo, FetchFails
  <2> QED
    BY <1>4, <2>2, <2>3, <2>4, <2>5 DEF Serve
<1>5. CASE UNCHANGED vars
  BY <1>1, <1>5 DEF vars, queryVars
<1> QED
  BY <1>2, <1>3, <1>4, <1>5 DEF Next, Quiet

-----------------------------------------------------------------------------
(***************************************************************************)
(* What a report says.                                                     *)
(***************************************************************************)
Held(x)    == [w \in Worker |-> partial[x][w].tables]
Biggest(s) == Max({Cardinality(Batches[s][i]) : i \in 1..Len(Batches[s])} \union {0})

\* No batch is bigger than the biggest, and no more is being dispatched.
LEMMA BiggestIs ==
  ASSUME NEW s \in Session
  PROVE  /\ Biggest(s) \in Nat
         /\ \A i \in 1..Len(Batches[s]) : Cardinality(Batches[s][i]) <= Biggest(s)
<1> DEFINE D == 1..Len(Batches[s])
           f == [i \in D |-> Cardinality(Batches[s][i])]
<1>1. f \in [D -> Nat]
  BY BatchPortion, FS_CardinalityType DEF Portion
<1>2. IsFiniteSet(D) /\ D \in SUBSET D
  <2>1. 1 \in Int /\ Len(Batches[s]) \in Int
    BY DataAssumption
  <2> QED
    BY <2>1, FS_Interval
<1>3. {f[i] : i \in D} = {Cardinality(Batches[s][i]) : i \in D}
  OBVIOUS
<1>4. \A i \in D : f[i] = Cardinality(Batches[s][i])
  OBVIOUS
<1>5. Biggest(s) = Max({f[i] : i \in D} \union {0})
  BY <1>3 DEF Biggest
<1> HIDE DEF D, f
<1>6. Biggest(s) \in Nat /\ \A i \in D : f[i] <= Biggest(s)
  BY <1>1, <1>2, <1>5, Largest
<1> QED
  BY <1>4, <1>6 DEF D

LEMMA DispatchedFew ==
  ASSUME IInv, Owns, Stages, NEW s \in Session
  PROVE  Cardinality(Dispatched(s)) \in Nat /\ Cardinality(Dispatched(s)) <= Biggest(s)
<1>1. CASE pc[s] # "dispatch"
  BY <1>1, BiggestIs, FS_EmptySet DEF Dispatched
<1>2. CASE pc[s] = "dispatch"
  <2>1. pos[s] - 1 \in 1..Len(Batches[s])
    BY <1>2, OnTheWay DEF Running
  <2>2. Dispatched(s) \in SUBSET Current(s) /\ Current(s) = Batches[s][pos[s] - 1]
    BY <1>2 DEF Dispatched, Current
  <2>3. IsFiniteSet(Current(s)) /\ Cardinality(Current(s)) \in Nat
        /\ Cardinality(Current(s)) <= Biggest(s)
    BY <2>1, <2>2, BiggestIs, BatchPortion, FS_CardinalityType DEF Portion
  <2>4. IsFiniteSet(Dispatched(s)) /\ Cardinality(Dispatched(s)) <= Cardinality(Current(s))
    BY <2>2, <2>3, FS_Subset
  <2>5. Cardinality(Dispatched(s)) \in Nat
    BY <2>4, FS_CardinalityType
  <2> QED
    BY <2>3, <2>4, <2>5, BiggestIs
<1> QED
  BY <1>1, <1>2

LEMMA MergeAhead ==
  ASSUME WInv, DataInv, NoHalfBatch, Fetched, NEW x \in Query, Merge(x),
         owner # Free, asked[x].owner = owner, ~asked[x].resetting
  PROVE  /\ Sum([w \in Worker |-> partial[x][w].count]) <= ingested + Biggest(owner)
         /\ \A r \in Record : Occurrences(r, Held(x)) <= IF r \in Dataset(owner) THEN 1 ELSE 0
<1>0. /\ IInv /\ Owns /\ Stages /\ owner \in Session /\ ingested \in Nat
      /\ partial \in [Query -> [Worker -> State]] /\ sent \in [Worker -> Seq(Portion)]
  BY DEF WInv, IInv, TypeOK, CoordOK, LinkOK, QueryOK
<1>1. qpc[x] = "fetching" /\ pend[x] = {}
  BY DEF Merge
<1>2. Started(owner) /\ \A w \in Worker : Begins(partial[x][w].tables, sent[w])
  BY <1>1 DEF Fetched
<1>3. DataOf(owner)
  BY <1>2 DEF DataInv
<1>4. \A w \in Worker : partial[x][w].tables \in Seq(Portion) /\ partial[x][w].count \in Nat
  BY <1>0 DEF State
<1>5. Sum([w \in Worker |-> partial[x][w].count]) <= Sum([w \in Worker |-> Size(sent[w])])
  <2> DEFINE f == [w \in Worker |-> partial[x][w].count]
             g == [w \in Worker |-> Size(sent[w])]
  <2>1. \A w \in Worker : partial[x][w].count <= Size(sent[w]) /\ Size(sent[w]) \in Nat
    <3> SUFFICES ASSUME NEW w \in Worker
                 PROVE  partial[x][w].count <= Size(sent[w]) /\ Size(sent[w]) \in Nat
      OBVIOUS
    <3>1. partial[x][w].tables \in Seq(Portion) /\ sent[w] \in Seq(Portion)
          /\ Begins(partial[x][w].tables, sent[w])
      BY <1>0, <1>2, <1>4
    <3>2. Size(partial[x][w].tables) <= Size(sent[w]) /\ Size(sent[w]) \in Nat
      BY <3>1, SizeBegins, SizeNat
    <3> QED
      BY <3>2 DEF NoHalfBatch
  <2>2. f \in [Worker -> Nat] /\ g \in [Worker -> Nat] /\ \A w \in Worker : f[w] <= g[w]
    BY <1>4, <2>1
  <2> HIDE DEF f, g
  <2>3. Sum(f) <= Sum(g)
    BY <2>2, Workers, SumMore DEF Sum
  <2> QED
    BY <2>3 DEF f, g
<1>6. Sum([w \in Worker |-> Size(sent[w])]) = ingested + Cardinality(Dispatched(owner))
  BY <1>3 DEF DataOf, Summed
<1>7. Cardinality(Dispatched(owner)) \in Nat /\ Cardinality(Dispatched(owner)) <= Biggest(owner)
      /\ Biggest(owner) \in Nat
  BY <1>0, DispatchedFew, BiggestIs
<1>8. Sum([w \in Worker |-> partial[x][w].count]) \in Nat
  <2> DEFINE f == [w \in Worker |-> partial[x][w].count]
  <2>1. f \in [Worker -> Nat]
    BY <1>4
  <2> HIDE DEF f
  <2>2. Sum(f) \in Nat
    BY <2>1, WorkerSum
  <2> QED
    BY <2>2 DEF f
<1>9. Sum([w \in Worker |-> partial[x][w].count]) <= ingested + Biggest(owner)
  <2> DEFINE a == Sum([w \in Worker |-> partial[x][w].count])
             b == Sum([w \in Worker |-> Size(sent[w])])
             c == Cardinality(Dispatched(owner))
  <2>1. a \in Nat /\ a <= b /\ b = ingested + c /\ c \in Nat /\ c <= Biggest(owner)
    BY <1>5, <1>6, <1>7, <1>8
  <2> HIDE DEF a, b, c
  <2>2. a <= ingested + Biggest(owner)
    BY <1>0, <1>7, <2>1
  <2> QED
    BY <2>2 DEF a
<1>10. ASSUME NEW r \in Record
       PROVE  Occurrences(r, Held(x)) <= IF r \in Dataset(owner) THEN 1 ELSE 0
  <2> DEFINE f == Held(x)
  <2>1. f \in [Worker -> Seq(Portion)] /\ \A w \in Worker : f[w] = partial[x][w].tables
    BY <1>4 DEF Held
  <2>2. \A w \in Worker : \A i \in 1..Len(f[w]) : i \in 1..Len(sent[w]) /\ f[w][i] = sent[w][i]
    <3> SUFFICES ASSUME NEW w \in Worker, NEW i \in 1..Len(f[w])
                 PROVE  i \in 1..Len(sent[w]) /\ f[w][i] = sent[w][i]
      OBVIOUS
    <3>1. f[w] \in Seq(Portion) /\ sent[w] \in Seq(Portion) /\ Begins(f[w], sent[w])
      BY <1>0, <1>2, <2>1
    <3> QED
      BY <3>1 DEF Begins
  <2> HIDE DEF f
  <2>3. \A v, w \in Worker : \A i \in 1..Len(f[v]), k \in 1..Len(f[w]) :
          r \in f[v][i] /\ r \in f[w][k] => v = w /\ i = k
    <3>1. \A v, w \in Worker : \A i \in 1..Len(sent[v]), k \in 1..Len(sent[w]) :
            r \in sent[v][i] /\ r \in sent[w][k] => v = w /\ i = k
      BY <1>0, <1>3, SentOnce
    <3> QED
      BY <2>2, <3>1
  <2>4. (\E w \in Worker : \E i \in 1..Len(f[w]) : r \in f[w][i]) => r \in Dataset(owner)
    BY <1>0, <1>3, <2>2, SentOnce
  <2>5. Occurrences(r, f) =
          IF \E w \in Worker : \E i \in 1..Len(f[w]) : r \in f[w][i] THEN 1 ELSE 0
    BY <2>1, <2>3, OccursOnce
  <2>6. Occurrences(r, f) <= IF r \in Dataset(owner) THEN 1 ELSE 0
    BY <2>4, <2>5
  <2> QED
    BY <2>6 DEF f
<1> QED
  BY <1>9, <1>10

LEMMA AheadStep ==
  ASSUME WInv, DataInv, NoHalfBatch, Fetched, AheadByOneBatch, [Next]_vars
  PROVE  AheadByOneBatch'
<1> SUFFICES ASSUME NEW x \in Query, Reported(x)', report'[x].owner # Free,
                    asked'[x].owner = report'[x].owner, ~asked'[x].resetting
             PROVE  /\ report'[x].processed <= report'[x].ingested + Biggest(report'[x].owner)
                    /\ \A r \in Record : Occurrences(r, Held(x)') <=
                         IF r \in Dataset(report'[x].owner) THEN 1 ELSE 0
  BY DEF AheadByOneBatch, Biggest, Held, Occurrences, Dataset
<1>1. IInv
  BY DEF WInv
<1>2. CASE Merge(x)
  <2>1. /\ asked' = asked /\ partial' = partial /\ report'[x].owner = owner
        /\ report'[x].ingested = ingested
        /\ report'[x].processed = Sum([w \in Worker |-> partial[x][w].count])
    BY <1>1, <1>2, MergeIs
  <2>2. Held(x)' = Held(x)
    BY <2>1 DEF Held
  <2> QED
    BY <1>2, <2>1, <2>2, MergeAhead
<1>3. CASE ~Merge(x)
  <2>1. /\ Reported(x) /\ partial'[x] = partial[x] /\ asked'[x] = asked[x]
        /\ report'[x].ingested = report[x].ingested
        /\ report'[x].processed = report[x].processed
        /\ report'[x].owner = report[x].owner
    BY <1>1, <1>3, ReportFrame
  <2>2. Held(x)' = Held(x)
    BY <2>1 DEF Held
  <2>3. /\ report[x].processed <= report[x].ingested + Biggest(report[x].owner)
        /\ \A r \in Record : Occurrences(r, Held(x)) <=
             IF r \in Dataset(report[x].owner) THEN 1 ELSE 0
    BY <2>1 DEF AheadByOneBatch, Biggest, Held
  <2> QED
    BY <2>1, <2>2, <2>3
<1> QED
  BY <1>2, <1>3

\* What SettledExact says of a report of session s.
Exact(s, f, processed, counted) ==
  ExactlyOnce(Dataset(s), f) /\ processed = counted /\ counted = Cardinality(Dataset(s))

LEMMA MergeSettled ==
  ASSUME WInv, DataInv, NoHalfBatch, Settled, NEW x \in Query, Merge(x),
         complete, asked[x].complete, asked[x].owner = owner
  PROVE  Exact(owner, Held(x), Sum([w \in Worker |-> partial[x][w].count]), ingested)
<1>0. partial \in [Query -> [Worker -> State]]
  BY DEF WInv, IInv, TypeOK, QueryOK
<1>1. qpc[x] = "fetching" /\ pend[x] = {}
  BY DEF Merge
<1>2. /\ owner \in Session /\ DataOf(owner) /\ pc[owner] # "dispatch"
      /\ pos[owner] = Len(Batches[owner]) + 1
  BY AtEnd
<1>3. \A w \in Worker : partial[x][w].tables = sent[w]
  BY <1>1 DEF Settled
<1>4. ExactlyOnce(Dataset(owner), Held(x))
  <2> DEFINE f == Held(x)
  <2>1. f \in [Worker -> Seq(Portion)] /\ \A w \in Worker : f[w] = sent[w]
    BY <1>0, <1>3 DEF Held, State
  <2> HIDE DEF f
  <2>2. ExactlyOnce(Dataset(owner), f)
    BY <1>2, <2>1, ExactOf
  <2> QED
    BY <2>2 DEF f
<1>5. \A w \in Worker : partial[x][w].count = Size(sent[w])
  BY <1>3 DEF NoHalfBatch
<1>6. [w \in Worker |-> partial[x][w].count] = [w \in Worker |-> Size(sent[w])]
  BY <1>5
<1>7. ingested = Cardinality(Dataset(owner)) /\ Sum([w \in Worker |-> Size(sent[w])]) = ingested
  BY <1>2, SentAll
<1> QED
  BY <1>4, <1>6, <1>7 DEF Exact

LEMMA SettledExactStep ==
  ASSUME WInv, DataInv, NoHalfBatch, Settled, SettledExact, [Next]_vars
  PROVE  SettledExact'
<1> SUFFICES ASSUME NEW x \in Query, Reported(x)', report'[x].complete, asked'[x].complete,
                    asked'[x].owner = report'[x].owner
             PROVE  Exact(report'[x].owner, Held(x)', report'[x].processed, report'[x].ingested)
  BY DEF SettledExact, Exact, Held, ExactlyOnce, Occurrences, Dataset
<1>1. IInv
  BY DEF WInv
<1>2. CASE Merge(x)
  <2>1. /\ asked' = asked /\ partial' = partial /\ report'[x].owner = owner
        /\ report'[x].ingested = ingested /\ report'[x].complete = complete
        /\ report'[x].processed = Sum([w \in Worker |-> partial[x][w].count])
    BY <1>1, <1>2, MergeIs
  <2>2. Held(x)' = Held(x)
    BY <2>1 DEF Held
  <2> QED
    BY <1>2, <2>1, <2>2, MergeSettled
<1>3. CASE ~Merge(x)
  <2>1. /\ Reported(x) /\ partial'[x] = partial[x] /\ asked'[x] = asked[x]
        /\ report'[x].complete = report[x].complete
        /\ report'[x].ingested = report[x].ingested
        /\ report'[x].processed = report[x].processed
        /\ report'[x].owner = report[x].owner
    BY <1>1, <1>3, ReportFrame
  <2>2. Held(x)' = Held(x)
    BY <2>1 DEF Held
  <2>3. Exact(report[x].owner, Held(x), report[x].processed, report[x].ingested)
    BY <2>1 DEF SettledExact, Exact, Held
  <2> QED
    BY <2>1, <2>2, <2>3
<1> QED
  BY <1>2, <1>3

-----------------------------------------------------------------------------
(***************************************************************************)
(* All of it is an invariant.                                              *)
(***************************************************************************)
DInv ==
  /\ WInv /\ Counted /\ NoHalfBatch /\ DataInv
  /\ Merged /\ Fetched /\ Settled /\ Informed
  /\ AheadByOneBatch /\ SettledExact

LEMMA InitDInv == Init => DInv
<1> SUFFICES ASSUME Init PROVE DInv
  OBVIOUS
<1>1. Size(<<>>) = 0
  <2>1. <<>> \in Seq(Portion)
    OBVIOUS
  <2> QED
    BY <2>1, SizeNat
<1>2. Counted /\ NoHalfBatch
  BY <1>1 DEF Init, Counted, Uncounted, NoHalfBatch, NoState
<1>3. DataInv
  BY DEF Init, DataInv
<1>4. Merged /\ Fetched /\ Settled /\ Informed /\ AheadByOneBatch /\ SettledExact
  BY DEF Init, Merged, Fetched, Settled, Informed, AheadByOneBatch, SettledExact, Reported
<1> QED
  BY <1>2, <1>3, <1>4, InitWInv DEF DInv

LEMMA StepDInv == DInv /\ [Next]_vars => DInv'
<1> SUFFICES ASSUME DInv, [Next]_vars PROVE DInv'
  OBVIOUS
<1>1. IInv /\ Owns /\ Stages /\ Unheard
  BY DEF DInv, WInv
<1>2. WInv' /\ Counted' /\ NoHalfBatch'
  BY <1>1, StepWInv, CountedStep, HalfBatchStep DEF DInv
<1>3. DataInv' /\ Merged' /\ Fetched' /\ Settled' /\ Informed'
  BY <1>1, DataStep, MergedStep, FetchedStep, SettledStep, InformedStep DEF DInv
<1>4. AheadByOneBatch' /\ SettledExact'
  BY AheadStep, SettledExactStep DEF DInv
<1> QED
  BY <1>2, <1>3, <1>4 DEF DInv

LEMMA DInvariance == Spec => []DInv
BY InitDInv, StepDInv, PTL DEF Spec

\* A worker answers under its lock: the count of a partial result is the number
\* of the records in its tables, whichever batch is being folded.
THEOREM NoHalfBatchHolds == Spec => []NoHalfBatch
<1>1. DInv => NoHalfBatch
  BY DEF DInv
<1> QED
  BY <1>1, DInvariance, PTL

\* When the session is complete and no worker has crashed, the workers together
\* hold each of its records exactly once and nothing else, and the coordinator's
\* counter, the workers' counts and the summary all say how many there are.
THEOREM CompleteIsExactHolds == Spec => []CompleteIsExact
<1>1. DInv => CompleteIsExact
  BY CompleteExact DEF DInv
<1> QED
  BY <1>1, DInvariance, PTL

\* A report asked for in the running session, and not while its workers were being
\* reset, is ahead of the coordinator's counter by at most one batch, and merges
\* only records of the session, none twice.
THEOREM AheadByOneBatchHolds == Spec => []AheadByOneBatch
<1>1. DInv => AheadByOneBatch
  BY DEF DInv
<1> QED
  BY <1>1, DInvariance, PTL

\* A report asked for when its session was complete has each of its records once.
THEOREM SettledExactHolds == Spec => []SettledExact
<1>1. DInv => SettledExact
  BY DEF DInv
<1> QED
  BY <1>1, DInvariance, PTL

\* What a report says of its session belongs together.
THEOREM ReportCoherentHolds == Spec => []ReportCoherent
<1>1. DInv => ReportCoherent
  BY DEF DInv, WInv, Headed, Informed, ReportCoherent
<1> QED
  BY <1>1, DInvariance, PTL
=============================================================================
