--------------------------- MODULE WeatherIngest ---------------------------
(***************************************************************************)
(* Streaming weather analytics, section2/q2_grpc: the streamer, the        *)
(* coordinator with a bounded queue and a Process stream per worker, the   *)
(* workers, and the queries that merge the workers' states while records   *)
(* are still arriving.                                                     *)
(*                                                                         *)
(* A session is one StreamRecords call, a query one GetAnalytics call      *)
(* (asked again and again by "dashboard --final --wait").  A record is an  *)
(* element of Record, a batch a set of records.  What a worker holds is    *)
(* its count and its tables, kept as the sequence of the sets of records   *)
(* folded into them; sums and extrema are functions of that.  Clocks are   *)
(* kept as the session that read them.                                     *)
(***************************************************************************)
EXTENDS Naturals, Sequences, FiniteSets, FiniteSetsExt

CONSTANTS
  W,          \* number of workers
  QSize,      \* --queue: capacity of a link's queue, in batches
  Window,     \* messages gRPC flow control lets be under way to a worker
  Dist,       \* --dist: "rr" or "station"
  Record,
  Station,    \* station_id of each record
  Session,    \* StreamRecords calls
  Batches,    \* Batches[s]: what the streamer of session s sends
  Query,      \* GetAnalytics callers
  Waiting,    \* queries of "dashboard --final --wait"
  Detailed,   \* queries with include_workers
  Fickle,     \* sessions whose streamer may go away
  Mortal,     \* workers that may crash
  Free        \* no session holds the coordinator's lock

Worker == 0..(W - 1)

ASSUME SizeAssumption ==
  /\ W \in Nat \ {0} /\ QSize \in Nat \ {0} /\ Window \in Nat \ {0}
  /\ Dist \in {"rr", "station"}

ASSUME DataAssumption ==
  /\ Station \in [Record -> Nat]
  /\ Batches \in [Session -> Seq(SUBSET Record)]
  /\ \A s \in Session :
       /\ \A i \in 1..Len(Batches[s]) :
            IsFiniteSet(Batches[s][i]) /\ Batches[s][i] # {}
       /\ \A i, j \in 1..Len(Batches[s]) :
            i # j => Batches[s][i] \intersect Batches[s][j] = {}

ASSUME ActorAssumption ==
  /\ Free \notin Session
  /\ Waiting \subseteq Query /\ Detailed \subseteq Query
  /\ Fickle \subseteq Session /\ Mortal \subseteq Worker

VARIABLES
  lock,       \* the coordinator's lock, when held across RPCs
  active, complete, ingested,  \* Coordinator.active, .complete, .records_ingested
  header,     \* session whose header is stored, or Free
  tFirst,     \* session that set t_first, or Free
  queue,      \* WorkerLink.q
  stream,     \* state of the link's Process call
  pc, pos, todo, cancelled,    \* per session: handler, messages read, links left
  outcome,    \* IngestSummary.records_received, once there is one
  wire,       \* batches that gRPC is carrying to a worker
  alive,
  tables, count,  \* Worker.state: the tables, and Partial.count
  folding,    \* the worker is inside "with self.lock", its count still to come
  qpc, pend,  \* per query: where its handler is, and the workers yet to answer
  partial, info, report,  \* per query: PartialStates, WorkerInfos, AnalyticsReport
  sent,       \* history: what was put on a link since its last Reset
  owner,      \* history: the session that last set active, or Free
  asked       \* history: the coordinator's state when the query was asked

coordVars   == <<lock, active, complete, ingested, header, tFirst>>
linkVars    == <<queue, stream, sent>>
sessionVars == <<pc, pos, todo, cancelled, outcome>>
workerVars  == <<wire, alive, tables, count, folding>>
queryVars   == <<qpc, pend, partial, info, report, asked>>
vars == <<coordVars, linkVars, sessionVars, workerVars, queryVars, owner>>

-----------------------------------------------------------------------------
Running == {"resetting", "reading", "dispatch", "closing", "awaiting", "finishing"}
Pcs     == Running \union {"idle", "opening", "done", "refused", "failed"}
Streams == {"none", "open", "halfclosed", "acked", "broken", "stopped"}

\* What a link's queue holds: parts of batches and the end of the stream.
Portion  == {b \in SUBSET Record : IsFiniteSet(b)}
Item     == [end : BOOLEAN, part : Portion]
Sentinel == [end |-> TRUE, part |-> {}]
Data(b)  == [end |-> FALSE, part |-> b]

NoState  == [count |-> 0, tables |-> <<>>]
NoReport == [active |-> FALSE, complete |-> FALSE, ingested |-> 0, processed |-> 0,
             header |-> Free, since |-> Free, owner |-> Free, workers |-> 0]

Sum(f) == SumFunctionOnSet(f, Worker)

\* The records of a whole session.
Dataset(s) == UNION {Batches[s][i] : i \in 1..Len(Batches[s])}

\* Mutant: every worker that gets something gets the whole batch.
PartWhole(b, w) == b

\* The part of batch b, the i-th of its session, that is for worker w.
Part(b, w) ==
  IF Dist = "rr" \/ W = 1 THEN b ELSE {r \in b : Station[r] % W = w}

\* The workers that get a part of it.
Targets(b, i) ==
  IF Dist = "rr" \/ W = 1 THEN {i % W} ELSE {w \in Worker : Part(b, w) # {}}

\* The batch that session s has just read.
Current(s) == Batches[s][pos[s] - 1]

Goto(s, l) == pc' = [pc EXCEPT ![s] = l]
NextLink(s)   == Min(todo[s])

Init ==
  /\ lock = Free /\ active = FALSE /\ complete = FALSE /\ ingested = 0
  /\ header = Free /\ tFirst = Free /\ owner = Free
  /\ queue = [w \in Worker |-> <<>>]
  /\ stream = [w \in Worker |-> "none"]
  /\ sent = [w \in Worker |-> <<>>]
  /\ pc = [s \in Session |-> "idle"]
  /\ pos = [s \in Session |-> 0]
  /\ todo = [s \in Session |-> {}]
  /\ cancelled = [s \in Session |-> FALSE]
  /\ outcome = [s \in Session |-> 0]
  /\ wire = [w \in Worker |-> <<>>]
  /\ alive = [w \in Worker |-> TRUE]
  /\ tables = [w \in Worker |-> <<>>]
  /\ count = [w \in Worker |-> 0]
  /\ folding = [w \in Worker |-> FALSE]
  /\ qpc = [x \in Query |-> "idle"]
  /\ pend = [x \in Query |-> {}]
  /\ partial = [x \in Query |-> [w \in Worker |-> NoState]]
  /\ info = [x \in Query |-> [w \in Worker |-> 0]]
  /\ report = [x \in Query |-> NoReport]
  /\ asked = [x \in Query |-> [owner |-> Free, complete |-> FALSE, resetting |-> FALSE]]

-----------------------------------------------------------------------------
(***************************************************************************)
(* StreamRecords.                                                          *)
(***************************************************************************)

\* The streamer opens the RPC.
Open(s) ==
  /\ pc[s] = "idle"
  /\ Goto(s, "opening")
  /\ UNCHANGED <<coordVars, linkVars, pos, todo, cancelled, outcome, workerVars,
                 queryVars, owner>>

\* The streamer goes away in the middle of its stream.
Cancel(s) ==
  /\ s \in Fickle /\ pc[s] \in Running \union {"opening"} /\ ~cancelled[s]
  /\ cancelled' = [cancelled EXCEPT ![s] = TRUE]
  /\ UNCHANGED <<coordVars, linkVars, pc, pos, todo, outcome, workerVars,
                 queryVars, owner>>

\* An ingest session is already running: FAILED_PRECONDITION.
Refuse(s) ==
  /\ pc[s] = "opening" /\ lock = Free /\ active
  /\ Goto(s, "refused")
  /\ UNCHANGED <<coordVars, linkVars, pos, todo, cancelled, outcome, workerVars,
                 queryVars, owner>>

\* Takes the lock and keeps it while the workers are reset one by one.
Begin(s) ==
  /\ pc[s] = "opening" /\ lock = Free /\ ~active
  /\ lock' = s /\ active' = TRUE /\ complete' = FALSE /\ ingested' = 0
  /\ owner' = s
  /\ todo' = [todo EXCEPT ![s] = Worker]
  /\ Goto(s, "resetting")
  /\ UNCHANGED <<header, tFirst, linkVars, pos, cancelled, outcome, workerVars,
                 queryVars>>

ResetLinkTo(s, t, n) ==
  LET w == NextLink(s) IN
  /\ pc[s] = "resetting" /\ alive[w] /\ ~folding[w]
  /\ tables' = [tables EXCEPT ![w] = t] /\ count' = [count EXCEPT ![w] = n]
  /\ stream' = [stream EXCEPT ![w] = "open"]
  /\ sent' = [sent EXCEPT ![w] = <<>>]
  /\ todo' = [todo EXCEPT ![s] = @ \ {w}]
  /\ IF todo[s] = {w} THEN lock' = Free /\ Goto(s, "reading") ELSE UNCHANGED <<lock, pc>>
  /\ UNCHANGED <<active, complete, ingested, header, tFirst, queue, pos, cancelled,
                 outcome, wire, alive, folding, queryVars, owner>>

\* Mutant: the worker keeps what it had.
ResetLinkKeeping(s) == ResetLinkTo(s, tables[NextLink(s)], count[NextLink(s)])

\* Reset, answered by the worker under its own lock, then a new Process call.
ResetLink(s) == ResetLinkTo(s, <<>>, 0)

\* Reset of a dead worker raises: the handler ends, active stays set.
ResetFails(s) ==
  /\ pc[s] = "resetting" /\ ~alive[NextLink(s)]
  /\ lock' = Free
  /\ Goto(s, "failed")
  /\ UNCHANGED <<active, complete, ingested, header, tFirst, linkVars, pos, todo,
                 cancelled, outcome, workerVars, queryVars, owner>>

ReadHeader(s) ==
  /\ pc[s] = "reading" /\ pos[s] = 0 /\ ~cancelled[s] /\ lock = Free
  /\ header' = s
  /\ pos' = [pos EXCEPT ![s] = 1]
  /\ UNCHANGED <<lock, active, complete, ingested, tFirst, linkVars, pc, todo,
                 cancelled, outcome, workerVars, queryVars, owner>>

ReadBatchFrom(s, t) ==
  /\ pc[s] = "reading" /\ ~cancelled[s]
  /\ pos[s] \in 1..Len(Batches[s])
  /\ pos[s] = 1 => lock = Free
  /\ tFirst' = t
  /\ pos' = [pos EXCEPT ![s] = @ + 1]
  /\ todo' = [todo EXCEPT ![s] = Targets(Batches[s][pos[s]], pos[s] - 1)]
  /\ Goto(s, "dispatch")
  /\ UNCHANGED <<lock, active, complete, ingested, header, linkVars, cancelled,
                 outcome, workerVars, queryVars, owner>>

\* Mutant: self.t_first is tested instead of the local t_first.
ReadBatchFirstEver(s) == ReadBatchFrom(s, IF tFirst = Free THEN s ELSE tFirst)

\* The next batch; the first one of the session sets t_first, under the lock.
ReadBatch(s) == ReadBatchFrom(s, IF pos[s] = 1 THEN s ELSE tFirst)

\* The cancelled stream raises in the handler's loop: active stays set.
ReadFails(s) ==
  /\ pc[s] = "reading" /\ cancelled[s]
  /\ Goto(s, "failed")
  /\ UNCHANGED <<coordVars, linkVars, pos, todo, cancelled, outcome, workerVars,
                 queryVars, owner>>

\* End of the stream: every link is to be closed.
ReadEnd(s) ==
  /\ pc[s] = "reading" /\ ~cancelled[s] /\ pos[s] = Len(Batches[s]) + 1
  /\ todo' = [todo EXCEPT ![s] = Worker]
  /\ Goto(s, "closing")
  /\ UNCHANGED <<coordVars, linkVars, pos, cancelled, outcome, workerVars,
                 queryVars, owner>>

\* One send of the dispatch; q.put blocks while the queue is full.
Put(s) ==
  LET w == NextLink(s) IN
  /\ pc[s] = "dispatch" /\ todo[s] # {} /\ Len(queue[w]) < QSize
  /\ queue' = [queue EXCEPT ![w] = Append(@, Data(Part(Current(s), w)))]
  /\ sent' = [sent EXCEPT ![w] = Append(@, Part(Current(s), w))]
  /\ todo' = [todo EXCEPT ![s] = @ \ {w}]
  /\ UNCHANGED <<coordVars, stream, pc, pos, cancelled, outcome, workerVars,
                 queryVars, owner>>

CountTo(s, n) ==
  /\ pc[s] = "dispatch" /\ todo[s] = {} /\ lock = Free
  /\ ingested' = n
  /\ Goto(s, "reading")
  /\ UNCHANGED <<lock, active, complete, header, tFirst, linkVars, pos, todo,
                 cancelled, outcome, workerVars, queryVars, owner>>

\* Mutant: only the last batch updates the counter.
CountLast(s) ==
  CountTo(s, IF pos[s] = Len(Batches[s]) + 1 THEN Cardinality(Dataset(s)) ELSE ingested)

\* Only then is the batch counted, under the lock.
Count(s) == CountTo(s, ingested + Cardinality(Current(s)))

\* close() of the next link: the sentinel goes through the same queue ...
PutSentinel(s) ==
  LET w == NextLink(s) IN
  /\ pc[s] = "closing" /\ Len(queue[w]) < QSize
  /\ queue' = [queue EXCEPT ![w] = Append(@, Sentinel)]
  /\ Goto(s, "awaiting")
  /\ UNCHANGED <<coordVars, stream, sent, pos, todo, cancelled, outcome, workerVars,
                 queryVars, owner>>

AwaitUntil(s, states) ==
  LET w == NextLink(s) IN
  /\ pc[s] = "awaiting" /\ stream[w] \in states
  /\ todo' = [todo EXCEPT ![s] = @ \ {w}]
  /\ Goto(s, IF todo[s] = {w} THEN "finishing" ELSE "closing")
  /\ UNCHANGED <<coordVars, linkVars, pos, cancelled, outcome, workerVars,
                 queryVars, owner>>

\* Mutant: the sentinel is put and nobody waits for the ack.
AwaitNothing(s) == AwaitUntil(s, Streams)

\* Mutant: a failed Process call is taken for an ack.
AwaitAny(s) == AwaitUntil(s, {"acked", "broken", "stopped"})

\* ... and the worker's ack is waited for before the next link is closed.
Await(s) == AwaitUntil(s, {"acked"})

\* The Process call failed: result() raises and the other links stay open.
AwaitFails(s) ==
  /\ pc[s] = "awaiting" /\ stream[NextLink(s)] \in {"broken", "stopped"}
  /\ Goto(s, "failed")
  /\ UNCHANGED <<coordVars, linkVars, pos, todo, cancelled, outcome, workerVars,
                 queryVars, owner>>

Finish(s) ==
  /\ pc[s] = "finishing" /\ lock = Free
  /\ active' = FALSE /\ complete' = TRUE
  /\ outcome' = [outcome EXCEPT ![s] = ingested]
  /\ Goto(s, "done")
  /\ UNCHANGED <<lock, ingested, header, tFirst, linkVars, pos, todo, cancelled,
                 workerVars, queryVars, owner>>

-----------------------------------------------------------------------------
(***************************************************************************)
(* The sender thread of a link, and the worker's Process handler.          *)
(***************************************************************************)

\* Mutant: the Process call is made by close(), and not when the link is reset.
SendAtClose(w) ==
  /\ \E s \in Session : pc[s] \in {"closing", "awaiting"}
  /\ stream[w] = "open" /\ queue[w] # <<>> /\ ~Head(queue[w]).end
  /\ Len(wire[w]) < Window
  /\ wire' = [wire EXCEPT ![w] = Append(@, Head(queue[w]).part)]
  /\ queue' = [queue EXCEPT ![w] = Tail(@)]
  /\ UNCHANGED <<coordVars, stream, sent, sessionVars, alive, tables, count, folding,
                 queryVars, owner>>

\* _gen takes a batch and gRPC sends it, within the flow-control window.
Send(w) ==
  /\ stream[w] = "open" /\ queue[w] # <<>> /\ ~Head(queue[w]).end
  /\ Len(wire[w]) < Window
  /\ wire' = [wire EXCEPT ![w] = Append(@, Head(queue[w]).part)]
  /\ queue' = [queue EXCEPT ![w] = Tail(@)]
  /\ UNCHANGED <<coordVars, stream, sent, sessionVars, alive, tables, count, folding,
                 queryVars, owner>>

\* _gen returns and gRPC half-closes the stream.
HalfClose(w) ==
  /\ stream[w] = "open" /\ queue[w] # <<>> /\ Head(queue[w]).end
  /\ queue' = [queue EXCEPT ![w] = Tail(@)]
  /\ stream' = [stream EXCEPT ![w] = "halfclosed"]
  /\ UNCHANGED <<coordVars, sent, sessionVars, workerVars, queryVars, owner>>

\* The call has failed while gRPC was inside next(): one more item is taken,
\* and dropped, before gRPC notices and stops.
SendLost(w) ==
  /\ stream[w] = "broken" /\ queue[w] # <<>>
  /\ queue' = [queue EXCEPT ![w] = Tail(@)]
  /\ stream' = [stream EXCEPT ![w] = "stopped"]
  /\ UNCHANGED <<coordVars, sent, sessionVars, workerVars, queryVars, owner>>

\* The worker takes its lock and folds the next batch into the tables ...
FoldTables(w) ==
  /\ alive[w] /\ wire[w] # <<>> /\ ~folding[w]
  /\ folding' = [folding EXCEPT ![w] = TRUE]
  /\ tables' = [tables EXCEPT ![w] = Append(@, Head(wire[w]))]
  /\ wire' = [wire EXCEPT ![w] = Tail(@)]
  /\ UNCHANGED <<coordVars, linkVars, sessionVars, alive, count, queryVars, owner>>

\* ... then adds its size to the count and releases the lock.
FoldCount(w) ==
  /\ alive[w] /\ folding[w]
  /\ folding' = [folding EXCEPT ![w] = FALSE]
  /\ count' = [count EXCEPT ![w] = @ + Cardinality(tables[w][Len(tables[w])])]
  /\ UNCHANGED <<coordVars, linkVars, sessionVars, wire, alive, tables, queryVars, owner>>

\* The stream is at its end: the worker returns its WorkerAck.
Ack(w) ==
  /\ alive[w] /\ stream[w] = "halfclosed" /\ wire[w] = <<>> /\ ~folding[w]
  /\ stream' = [stream EXCEPT ![w] = "acked"]
  /\ UNCHANGED <<coordVars, queue, sent, sessionVars, workerVars, queryVars, owner>>

\* The worker's process dies, with all that it held.
Crash(w) ==
  /\ w \in Mortal /\ alive[w]
  /\ alive' = [alive EXCEPT ![w] = FALSE]
  /\ wire' = [wire EXCEPT ![w] = <<>>]
  /\ tables' = [tables EXCEPT ![w] = <<>>]
  /\ count' = [count EXCEPT ![w] = 0]
  /\ folding' = [folding EXCEPT ![w] = FALSE]
  /\ stream' = [stream EXCEPT ![w] = IF @ = "open" THEN "broken"
                                       ELSE IF @ = "halfclosed" THEN "stopped" ELSE @]
  /\ UNCHANGED <<coordVars, queue, sent, sessionVars, queryVars, owner>>

-----------------------------------------------------------------------------
(***************************************************************************)
(* GetAnalytics, and the dashboard that waits for the stream to complete.  *)
(***************************************************************************)
Ask(x) ==
  /\ qpc[x] = "idle"
  /\ qpc' = [qpc EXCEPT ![x] = "fetching"]
  /\ pend' = [pend EXCEPT ![x] = Worker]
  /\ report' = [report EXCEPT ![x] = NoReport]
  /\ asked' = [asked EXCEPT ![x] =
       [owner |-> owner, complete |-> complete, resetting |-> lock # Free]]
  /\ UNCHANGED <<coordVars, linkVars, sessionVars, workerVars, partial, info, owner>>

FetchFrom(x, ready) ==
  /\ qpc[x] = "fetching"
  /\ \E w \in pend[x] \intersect ready :
       /\ partial' = [partial EXCEPT ![x][w] = [count |-> count[w], tables |-> tables[w]]]
       /\ pend' = [pend EXCEPT ![x] = @ \ {w}]
  /\ UNCHANGED <<coordVars, linkVars, sessionVars, workerVars, qpc, info, report,
                 asked, owner>>

\* Mutant: to_pb does not take the worker's lock.
FetchUnlocked(x) == FetchFrom(x, {w \in Worker : alive[w]})

\* GetPartial of the workers, in any order; each answers under its own lock.
Fetch(x) == FetchFrom(x, {w \in Worker : alive[w] /\ ~folding[w]})

\* All partials are merged; then the session's state is read under the lock.
Merge(x) ==
  /\ qpc[x] = "fetching" /\ pend[x] = {} /\ lock = Free
  /\ report' = [report EXCEPT ![x] =
       [active |-> active, complete |-> complete, ingested |-> ingested,
        processed |-> Sum([w \in Worker |-> partial[x][w].count]),
        header |-> header, since |-> tFirst, owner |-> owner, workers |-> 0]]
  /\ \/ /\ x \in Detailed
        /\ qpc' = [qpc EXCEPT ![x] = "informing"]
        /\ pend' = [pend EXCEPT ![x] = Worker]
     \/ /\ x \notin Detailed
        /\ qpc' = [qpc EXCEPT ![x] = "answering"]
        /\ UNCHANGED pend
  /\ UNCHANGED <<coordVars, linkVars, sessionVars, workerVars, partial, info, asked,
                 owner>>

\* GetInfo of the workers, for the per-worker lines.
FetchInfo(x) ==
  /\ qpc[x] = "informing"
  /\ \E w \in pend[x] :
       /\ alive[w] /\ ~folding[w]
       /\ info' = [info EXCEPT ![x][w] = count[w]]
       /\ pend' = [pend EXCEPT ![x] = @ \ {w}]
  /\ UNCHANGED <<coordVars, linkVars, sessionVars, workerVars, qpc, partial, report,
                 asked, owner>>

AddInfo(x) ==
  /\ qpc[x] = "informing" /\ pend[x] = {}
  /\ report' = [report EXCEPT ![x].workers = Sum(info[x])]
  /\ qpc' = [qpc EXCEPT ![x] = "answering"]
  /\ UNCHANGED <<coordVars, linkVars, sessionVars, workerVars, pend, partial, info,
                 asked, owner>>

\* A dead worker's answer is an error, and so is the query's.
FetchFails(x) ==
  /\ qpc[x] \in {"fetching", "informing"}
  /\ \E w \in pend[x] : ~alive[w]
  /\ qpc' = [qpc EXCEPT ![x] = "failed"]
  /\ UNCHANGED <<coordVars, linkVars, sessionVars, workerVars, pend, partial, info,
                 report, asked, owner>>

AnswerOr(x, done) ==
  /\ qpc[x] = "answering"
  /\ qpc' = [qpc EXCEPT ![x] = IF done THEN "done" ELSE "idle"]
  /\ UNCHANGED <<coordVars, linkVars, sessionVars, workerVars, pend, partial, info,
                 report, asked, owner>>

\* Mutant: "and" instead of "or" in the dashboard's loop.
AnswerNever(x) == AnswerOr(x, report[x].complete /\ x \notin Waiting)

\* The dashboard prints the report, or waits and asks again.
Answer(x) == AnswerOr(x, report[x].complete \/ x \notin Waiting)

-----------------------------------------------------------------------------
Handler(s) ==
  \/ Refuse(s) \/ Begin(s) \/ ResetLink(s) \/ ResetFails(s)
  \/ ReadHeader(s) \/ ReadBatch(s) \/ ReadFails(s) \/ ReadEnd(s)
  \/ Put(s) \/ Count(s) \/ PutSentinel(s) \/ Await(s) \/ AwaitFails(s) \/ Finish(s)

Link(w)  == Send(w) \/ HalfClose(w)
Fold(w)  == FoldTables(w) \/ FoldCount(w) \/ Ack(w)
Serve(x) == Fetch(x) \/ Merge(x) \/ FetchInfo(x) \/ AddInfo(x) \/ FetchFails(x) \/ Answer(x)

\* Nothing is left to do: no session can go on and every query has its answer.
Quiet ==
  /\ \A s \in Session : pc[s] \in {"done", "refused", "failed"}
  /\ \A x \in Query : qpc[x] \in {"done", "failed"}
  /\ UNCHANGED vars

Next ==
  \/ \E s \in Session : Open(s) \/ Cancel(s) \/ Handler(s)
  \/ \E w \in Worker : Link(w) \/ SendLost(w) \/ Fold(w) \/ Crash(w)
  \/ \E x \in Query : Ask(x) \/ Serve(x)
  \/ Quiet

Spec == Init /\ [][Next]_vars

\* Threads of the coordinator and of the workers are scheduled, gRPC delivers,
\* and the streamer goes on until it has sent everything or gone away.  Nobody
\* need open a session, cancel one, crash, or ask unless it is waiting.
Fairness ==
  /\ \A s \in Session : WF_vars(Handler(s))
  /\ \A w \in Worker : WF_vars(Link(w)) /\ WF_vars(Fold(w))
  /\ \A x \in Query : WF_vars(Serve(x)) /\ WF_vars(x \in Waiting /\ Ask(x))

FairSpec == Spec /\ Fairness

-----------------------------------------------------------------------------
(***************************************************************************)
(* Invariants.                                                             *)
(***************************************************************************)
State   == [count : Nat, tables : Seq(Portion)]

Report  == [active : BOOLEAN, complete : BOOLEAN, ingested : Nat, processed : Nat,
            header : Session \union {Free}, since : Session \union {Free},
            owner : Session \union {Free}, workers : Nat]

CoordOK ==
  /\ lock \in Session \union {Free}
  /\ active \in BOOLEAN /\ complete \in BOOLEAN /\ ingested \in Nat
  /\ header \in Session \union {Free} /\ tFirst \in Session \union {Free}
  /\ owner \in Session \union {Free}

SessionOK ==
  /\ pc \in [Session -> Pcs] /\ pos \in [Session -> Nat]
  /\ todo \in [Session -> SUBSET Worker]
  /\ cancelled \in [Session -> BOOLEAN] /\ outcome \in [Session -> Nat]

LinkOK ==
  /\ queue \in [Worker -> Seq(Item)]
  /\ wire \in [Worker -> Seq(Portion)]
  /\ stream \in [Worker -> Streams]
  /\ sent \in [Worker -> Seq(Portion)]
  /\ alive \in [Worker -> BOOLEAN] /\ folding \in [Worker -> BOOLEAN]
  /\ tables \in [Worker -> Seq(Portion)] /\ count \in [Worker -> Nat]

\* Back-pressure works: no queue and no stream ever holds more than its
\* capacity.
Bounded == \A w \in Worker : Len(queue[w]) <= QSize /\ Len(wire[w]) <= Window

QueryOK ==
  /\ qpc \in [Query -> {"idle", "fetching", "informing", "answering", "done", "failed"}]
  /\ pend \in [Query -> SUBSET Worker]
  /\ partial \in [Query -> [Worker -> State]]
  /\ info \in [Query -> [Worker -> Nat]]
  /\ report \in [Query -> Report]
  /\ asked \in [Query ->
       [owner : Session \union {Free}, complete : BOOLEAN, resetting : BOOLEAN]]

\* Every variable has its type, and no queue and no stream of a link holds more
\* than it may.
TypeOK == CoordOK /\ SessionOK /\ LinkOK /\ Bounded /\ QueryOK

\* The parts that wait in a queue, whose last item may be the end of the stream.
Queued(q) ==
  LET n == IF q # <<>> /\ q[Len(q)].end THEN Len(q) - 1 ELSE Len(q)
  IN [i \in 1..n |-> q[i].part]

\* Between the coordinator and a worker nothing is lost, repeated, reordered
\* or left over from an earlier session: what the worker holds, what gRPC
\* carries and what waits in the queue is what was put since the last Reset.
Conduit ==
  \A w \in Worker : alive[w] => tables[w] \o wire[w] \o Queued(queue[w]) = sent[w]

\* How often record r occurs in what f lists for each worker.
Occurrences(r, f) ==
  Cardinality({p \in Worker \X (1..Max({Len(f[w]) : w \in Worker} \union {0})) :
                 p[2] <= Len(f[p[1]]) /\ r \in f[p[1]][p[2]]})

ExactlyOnce(R, f) ==
  \A r \in Record : Occurrences(r, f) = IF r \in R THEN 1 ELSE 0

\* Once the session is marked complete, the workers together hold exactly the
\* records of that session, each once, and the counters say so.
CompleteIsExact ==
  complete /\ (\A w \in Worker : alive[w]) =>
    /\ ExactlyOnce(Dataset(owner), tables)
    /\ ingested = Cardinality(Dataset(owner))
    /\ Sum(count) = ingested
    /\ outcome[owner] = ingested

\* A session that lost a worker before its ack is never marked complete, however
\* far the coordinator had got and whatever it had read.
CompleteIsAcked ==
  complete => \A w \in Worker : stream[w] = "acked" /\ queue[w] = <<>>

Size(t) == SumFunctionOnSet([i \in 1..Len(t) |-> Cardinality(t[i])], 1..Len(t))

\* A query never sees a half-applied batch.
NoHalfBatch ==
  \A x \in Query, w \in Worker :
    partial[x][w].count = Size(partial[x][w].tables)

Reported(x) == qpc[x] \in {"informing", "answering", "done"}

\* A report that says complete is exact if it was asked for when the session
\* was already complete, even if workers crash meanwhile.
SettledExact ==
  \A x \in Query :
    Reported(x) /\ report[x].complete /\ asked[x].complete
      /\ asked[x].owner = report[x].owner =>
        /\ ExactlyOnce(Dataset(report[x].owner), [w \in Worker |-> partial[x][w].tables])
        /\ report[x].processed = report[x].ingested
        /\ report[x].ingested = Cardinality(Dataset(report[x].owner))

\* In a query that no session start interferes with, the workers are ahead of
\* the coordinator's counter by the batch being dispatched at most, and all
\* that is merged are records of the session, none twice.
AheadByOneBatch ==
  \A x \in Query :
    LET s == report[x].owner
        held == [w \in Worker |-> partial[x][w].tables]
    IN
    Reported(x) /\ s # Free /\ asked[x].owner = s /\ ~asked[x].resetting =>
      /\ report[x].processed <=
           report[x].ingested + Max({Cardinality(Batches[s][i]) : i \in 1..Len(Batches[s])}
                                      \union {0})
      /\ \A r \in Record : Occurrences(r, held) <= IF r \in Dataset(s) THEN 1 ELSE 0

\* What a report says of its session belongs together: the header and the time
\* that the rates count from are that session's as soon as anything is counted,
\* and if it was complete when asked and none has begun since, the per-worker
\* counts add up to the merged one.
ReportCoherent ==
  \A x \in Query :
    /\ Reported(x) /\ report[x].ingested > 0 =>
         report[x].header = report[x].owner /\ report[x].since = report[x].owner
    /\ qpc[x] \in {"answering", "done"} /\ x \in Detailed
         /\ asked[x].complete /\ asked[x].owner = owner =>
           report[x].workers = report[x].processed

-----------------------------------------------------------------------------
(***************************************************************************)
(* Liveness.                                                               *)
(***************************************************************************)

\* Back-pressure never becomes a deadlock: a session that is opened ends.
SessionEnds ==
  \A s \in Session : pc[s] = "opening" ~> pc[s] \in {"done", "refused", "failed"}

\* A waiting dashboard prints its report once the session is complete.
FinalPrinted ==
  \A x \in Waiting : complete ~> (qpc[x] = "done" \/ ~complete)

-----------------------------------------------------------------------------
(***************************************************************************)
(* What the documentation says and the code does not do.                   *)
(***************************************************************************)

\* README, Back-pressure and completion: the report that "--final --wait"
\* prints, keyed on the complete flag, is exact.
FinalIsExact ==
  \A x \in Waiting :
    qpc[x] = "done" => report[x].processed = report[x].ingested

\* The refusal's text: an ingest session is already running.
RefusedWhileRunning ==
  [][\A s \in Session : pc[s] = "opening" /\ pc'[s] = "refused" =>
       \E t \in Session : pc[t] \in Running]_vars
=============================================================================
