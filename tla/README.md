# Verification of DistCompute

TLA+ models of the concurrent and distributed programs of this repository, checked with TLC and
proved about with TLAPS. Paths below are relative to the repository.

## 1. Inventory

| Component | State | Operations | Talks to | Hard behaviour | Modules |
|---|---|---|---|---|---|
| Document server, `section3/problem1/server.py` | registry of documents; per document content, version, lock, list of subscriber queues | `CreateDocument`, `GetDocument`, `EditDocument`, `SubscribeToUpdates`, gRPC's cancel callback | clients by gRPC; one pool of 64 threads | interleaved handlers, two kinds of lock, a generator suspended while gRPC sends, two unsubscribes for one subscription, a thread per open stream | `DocServer`, `DocAbstract`, `DocRefines`, `MCDocServer`, `DocServerProofs` |
| Document client, `client.py` | table of subscriptions, one pump thread each | menu commands, pump, `close` | server | the table is shared without a lock; a pump that ends before it is entered; input that ends in a prompt; a server that goes down | `DocClient`, `MCDocClient`, `DocClientProofs` |
| Document demo, `concurrent_demo.py` | a barrier, events, what the observer got | create, observe, N edits, checks | server | checks of a running stream by the clock, other clients on the same document | `DocDemo`, `MCDocDemo`, `DocServerProofs` |
| Weather coordinator, `section2/q2_grpc/coordinator.py` | session flags and counters under one lock; per worker a bounded queue and a client stream | `StreamRecords`, `GetAnalytics` | streamer, workers, dashboards | back-pressure, reads of state before and after RPCs, exceptions in the middle of a session | `WeatherIngest`, `MCWeather`, `WeatherIngestProofs`, `FiniteSums` |
| Weather worker, `worker.py` | the accumulated tables under a lock | `Process`, `GetPartial`, `GetInfo`, `Reset` | coordinator | long critical section, crash loses everything | `WeatherIngest` |
| Streamer and dashboard, `streamer.py`, `dashboard.py` | none that lasts | send header and batches; query, wait for complete | coordinator | going away in the middle; a flag read too late | `WeatherIngest`, `WeatherReport` |
| Tables and reports, `common.py` | a `Partial`: scalars, stations, intervals | `iter_batches`, `add_batch`, `to_pb`, `merge`, `fill_report` | streamer, workers, coordinator | ties in any order, empty workers, malformed lines | `WxTables`, `WxFile`, `WeatherReport`, `MCWeatherReport`, `WeatherReportProofs`, `FiniteSums` |
| Weather benchmarks, `bench/bench.py`, `bench/query_load.py` | the list of started processes; samples and two events | one loop over configurations; query threads | all programs of the package | teardown after any failure, timeouts, stale logs, a load that never sees what it waits for | `WeatherBench`, `MCWeatherBench`, `WeatherBenchProofs` |
| SSSP by MapReduce, `section1/q2_sssp` | vertex records between jobs; a counter for each job | prep, map, combine, reduce, final; the driver's loop | Hadoop | frontier pushes exactly once, optional combiner, re-executed maps, termination by a counter | `Sssp`, `MCSssp`, `SsspProofs` |
| SSSP tools, `gen_graph.py`, `oracle.py`, `verify.sh` | the oracle's heap and distances | generate, Dijkstra, compare | the pipeline | stale heap entries | `GenGraph`, `Dijkstra`, `SsspVerify`, `SsspProofs` |
| Weather MPI, `q8_from hw2` | accumulator per rank | byte-range read, reductions, report | MPI | ownership at range and chunk boundaries, collectives that not all ranks reach | `MpiSplit`, `WeatherMpi`, `MCWeatherMpi`, `WeatherMpiProofs`, `FiniteSums` |
| Weather batch MapReduce, `section2/q1_mapreduce` | partials per key | mapper, reducer which is its own combiner, final | Hadoop | merges in any order, ties, splits without the header | `WxFile`, `WxMapReduce`, `WxVerify`, `MCWeatherReport`, `WeatherReportProofs` |
| Private Hadoop cluster, `hadoop/` | daemons on each node | start, poll, run, stop | Slurm | poll that gives up, daemon death | not modelled |
| Data generator, plots, generated stubs, results | - | - | - | - | not modelled |

What makes each correct: every edit is applied exactly once to the text it was aimed at and every
subscriber sees exactly the versions since it joined (document server); what subscriptions print never goes back,
and a document can be subscribed to again (client); a session that is marked complete is held by
the workers exactly, once each, whatever the back-pressure, and a query never sees half a batch (weather);
a report is that of the records it was made from, and the last one that of the file (tables, MPI); nothing
is left running unless Ctrl-C cuts the harness short, and no figure is taken for another's (benchmarks); the result is the shortest distances
whatever the order of tasks, combiners and re-executions (SSSP). The hazards, each at its line and with the
properties aimed at it, are listed in `PROJECT.json`.

## 2. Document server

`DocServer` has one element of `Call` per RPC. `pc[c]` is where the thread of the call is;
`lock[d]` and `registryLock` name the holder; `queue[c]` is the `queue.Queue` of a subscription,
`sending[c]` the message the suspended generator has yielded, `received[c]` what the client has.
A step is what no other thread can look into: creating is the test and the insertion
(`CreateCheck`, `CreateInsert`), an edit is reading the content under the lock (`EditBegin`),
assigning it (`EditWrite`), raising the version and copying the list of subscribers (`EditBump`),
one `put` per subscriber (`EditPut`) and the answer (`EditReturn`). `Cancel`, `Arrive` and
`Deliver` are gRPC's, modelled from how the server uses it; `Callback` may run at any time after the
cancellation, and is never run if the call was cancelled before `add_callback`. `hist` and `joined`
are history variables.

`DocAbstract` is the atomic service that `document.proto` and the design notes promise: each RPC is
one step, and an edit reaches its whole audience in that step. `DocRefines` maps the server to it:
an edit takes effect when it raises the version, and what the broadcast has still to put counts as
announced.

Runs:

* `DocService` (`MCDocServer`): a creator, an editor at any position, a call that is a second editor or a
  second creator of the same stripped name, and a subscriber or reader, cancelled at any step. Blank names are
  refused and names with blanks are not found. Safety, and `ImplementsAbstract`.
* `DocDemo` (section 3): the server under its own demo, with liveness.
* `DocPoolFull` (`MCDocServer`): as many subscriptions as pool threads. The edit is never answered, which the
  docstring of the server denies (a finding).

Two editors are enough for every interleaving of one read-modify-write with another, since each holds the
lock to the end; two subscribers are enough for one to be put to before and one after any other step. The
proofs remove both bounds. The pool has three threads for four calls, so that one call may have to wait,
and two in `DocPoolFull`. Deadlock is checked in all three; the specification stutters
explicitly once all calls (or the demo) are done.

Fairness: every handler's next step, gRPC's callback thread, and delivery to subscribers in
`Reading`. Threads of one process are scheduled by the operating system, locks are held for a
finite number of steps and each is asked for again while it stays free. No client is assumed to
issue, cancel or read.

Proved (`DocServerProofs`), for every set of calls, requests, names and pool size: `NoLostEdit`,
`CreatedOnce`, `StreamExact` and `NoGhostSubscriber`, which the runs check; and `TypeOK`, `LockOrder`,
`AnswersAreVersions` and the action property `NeverRewritten`, which are left to the proofs. None is inductive
alone; `IInv` adds

* `Staged`: each handler runs only for its own kind of request, on a document that exists;
* `Current`: the content is the latest version's, except between the two assignments of an edit;
* `Drafted`: what an editor holds in its local variables is the insertion into the latest version,
  which nobody else can change while it holds the lock (`LockOrder`);
* `Authored`: the author of a version has passed the point where it made it, so it makes no other;
* `Broadcasting`, `Listed`: a running broadcast is over listed queues that have their snapshot.

Proved in the same module and under the same assumptions: `ServerImplementsService`, which is `Spec => ImplementsAbstract`. Beside
`IInv` it needs `Entering`: a name about to enter the registry is not blank, and a subscription about to get its snapshot is
still listed. One lemma for each action says which step of the service it is: the insertion creates
(`CreateSeen`), the snapshot joins (`JoinSeen`), raising the version edits (`EditSeen`), the generator's end leaves
(`PartSeen`); all others are stutters (`QuietHandler`, `QuietStream`, `QuietPut`, `QuietReturn`). The puts are the hard ones: a message moves from
"still to be put by the broadcast" to "in the queue", and what the subscriber has been sent, the two together, stays the
same because at most one editor of a document has a broadcast under way (`OneUnderWay`) and it names a queue once.

## 3. Document client and demo

`DocClient` has the main thread (`main`: the prompt, or a point inside a command or `close`) and one pump
thread per stream. `subscribe` is four steps, because other threads run between them: the table is looked up
(`Subscribe`), `GetDocument` is asked (`Validate`), the stream is opened and the pump started (`Start`), the entry is made
(`Store`). `open` and `edit` are two: the server answers (`Open`, `Edit`), and the answer is printed (`PrintAnswer`) or lost with
the server (`Lost`); `create` prints neither version nor text. `Pump` is the loop of the pump thread: take a message, print it
unless cancelled, and at the end pop the entry. `unsubscribe` only cancels; `close` cancels what is in the table. The server is
external here: a version per document, which other users and this one raise, streams that start with a snapshot; it can go down
at any moment and lose its documents (`epoch`). An ended input answers every prompt with `exit`, which in the middle of
a command is taken as a document name (`EofName`), hence the second document of the run.

`last` is what pumps have printed last of each document, `newest` the newest version that pumps or the main thread have
printed; `floor` and `asked` are what `newest` was when a stream was opened, and when `open` or `edit` was typed.

Run `DocClient`: two streams (the fewest for an old and a new subscription of one document), one restart of the
server, a document that others write to, two versions of each, four commands (`Feed`, `MaxCrash`, `MaxVersion`,
`MaxCommand` are the bounds). `OneFeed`, `CleanExit` ("`exit` cancels all open streams so the server
sees a clean unsubscribe", `section3/problem1/README.md:105-107`), `PrintsInOrder`, `EntryGoes`, `ClientEnds`.
Deadlock is not checked: the user may stop typing. Fairness: the main thread inside a command, the pumps, and
the server's answer to an open stream. The user need not type; an ended input is read.

`PrintsInOrder` is as much as the code gives. What the pumps print of a document never goes back, whatever is unsubscribed and
subscribed again; a stream brings nothing older than what was on the screen, from whichever thread, when it was opened; and `open`
and `edit` print nothing older than what was there when they were typed. The screen as a whole does go back: the lines of an
`[Update]` on its way can follow those of an `open` that already showed a newer version (`client.py:56-63`, `80-83`),
and a pump may print while an older answer is still to be printed. No document says otherwise.

`EntryGoes` is about pumps at work. A stream that ends at once (the server is gone between the check and the
opening) can have its pump pop the entry before `subscribe` stores it; then the entry stays for ever: the client says
"already subscribed" to every `subscribe`, and `unsubscribe` cancels a stream that is over and leaves the entry to a pump that
is gone. The model has that behaviour; no document denies it.

Proved (`DocClientProofs`), for any names, streams and bounds: `OneFeed`, `CleanExit`, `PrintsInOrder`, and `TypeOK`
and `LateByOne`, which only the proofs state. The invariant: a pump leaves only when its stream is over (`Pumped`);
a running pump has its entry or is about to get it (`Entered`), so that `subscribe` finds the table free only
when the old pump has popped its entry; what waits in a stream is in order, after what the pumps have printed,
and not newer than the server (`Sent`, `Screen`), so that a new stream's snapshot cannot be older; and neither it nor
an answer of the server is before what was on the screen when it was asked for, because that was a version by then (`Floors`).

`DocDemo` runs `concurrent_demo.py` against `DocServer` itself: create, observe, wait for the snapshot, release
the editors by the barrier, get the result, sleep, check, cancel. `DemoServerPasses` says that its checks of the
server always pass; `DemoStreamPasses` that those of the stream pass except that half a second may have been
too short for the rest of it: then the program prints a failure that is none of the server's. The run has two editors
and a foreign client that subscribes to the same document, may never read and may cancel, and a
pool of three threads for six calls. Liveness of the server is checked here (`SubscriberCatchesUp`,
`CancelledLeaves`, `EditsAnswered`), under the fairness of section 2 and that of the demo's threads.

Proved (`DocServerProofs`, last part), for any number of editors, any texts, any position within the initial text and any other
clients that keep away from the demo's document (`DemoAssumption`; its name has the time in it): `DemoServerPasses` and
`DemoStreamPasses`. `DemoInv` adds to the server's invariant who has been called by when (`Script`), that the document is the
demo's and each version an insertion of one of its editors (`Founded`, `Succeeded`), that the observer joined before the first
edit (`JoinedFirst`) and that the last read came after all of them (`ReadLast`). A history of insertions at one position is a stack of the
editors' texts, each in one piece (`AlwaysUntorn`), as long as their lengths add up to, and the editors are one to one with the versions
(`AuthorsAre`, `VersionsAre`).

## 4. Streaming weather analytics

`WeatherIngest` models a session as one `StreamRecords` handler with its read position, each link as
a bounded `queue`, a `wire` within gRPC's flow-control window and the state of the `Process` call, each
worker as a count and the list of record sets folded into its tables, and each query with the partials
it has fetched. The coordinator's lock is a variable only where it is held across RPCs (the resets);
elsewhere a critical section is one step. `add_batch` is two steps, because the count is added last.

| Run | What it shows |
|---|---|
| `WeatherSession` | two sessions under `--dist station` with queues of one batch, a worker that may die, and a query with per-worker lines at any moment: a conduit that loses and repeats nothing and carries nothing over, complete sessions exact and acknowledged by every worker; a query sees whole batches, is exact when asked of a complete session, is ahead of the counter by one batch at most, and its worker lines agree with its totals as far as the code makes them (`ReportCoherent`) |
| `WeatherLive` | sessions end and the waiting dashboard prints, though the ingest loop has to wait for a full queue and its sender for a full window; with an empty session and a streamer that may go away before it |
| `WeatherFinal` | what `--final --wait` prints can lack records of the session it calls complete: the flag is read after the partials (a finding) |
| `WeatherRefused` | after a streamer has gone away every later session is refused as already running (a finding) |

Bounds: two workers, queues and window of one message. The first session has two batches, one of them with
two records so that it is split between the workers; the worker that gets parts of both has its queue full
until its sender runs, and the ingest loop blocks. The second session has one batch, so that a reset has something to clear
and a leftover would be seen. `WeatherLive` has three batches for one worker: while that folds nothing, one is in its stream, which
fills the window, one is in the queue, which fills it, and the dispatch of the third waits for both
(`coordinator.py:64`), as later the end marker may. Its sessions end all the same (`SessionEnds`); a link that sends only when it is
closed stops there. One query, since queries only read. `WeatherSession` and `WeatherLive` do not
check for deadlock: in the first a session really hangs when its worker has died with a full queue (hazard
at `coordinator.py:69`), in the second liveness says more.

Fairness: weak, for each session's handler, each sender thread, each worker's handler and each query
(threads of running processes), and for a dashboard in `Waiting` that asks again. Sessions need not be
opened or cancelled and nobody need crash; liveness is checked with no crash.

Proved, for any number of workers, sessions and queries, any batches and either `--dist`, with cancellations and deaths at any
moment: all seven invariants of `WeatherSession`.

* `WeatherIngestProofs`: `TypeOK` (with it that no link's queue holds more than `QSize` batches and that at most `Window` are under
  way to a worker), `Conduit` and `CompleteIsAcked`. The invariant `WInv` says who owns the coordinator (`Owns`: one session between its
  start and its end, the lock only while it resets), how far each handler is (`Stages`), what is true of sessions
  nobody has heard of (`Unheard`), what a query noted and a report shows (`Marked`, `Noted`, `Headed`), and of
  each link that its end marker comes last and once, that it is empty when gRPC has half-closed it and between
  sessions, and that a handler which has yet to close it has not (`Links`: `EndLast`, `Streamed`, `Drained`, `Closed`,
  `EndToCome`). `Conduit` is then inductive: a message moves from handler to queue to wire to tables and the
  concatenation of the three stays what was put.
* In the same module: `NoHalfBatch`, `CompleteIsExact`, `AheadByOneBatch`, `SettledExact`, `ReportCoherent`. `DInv` adds what the data is: what was put
  on each link is the owner's records routed there, in disjoint portions, and together as many as the counter says
  plus what is being dispatched (`DataInv`); a worker's count is what its tables hold but for the batch it folds (`Counted`); a query has
  fetched beginnings of what was put (`Fetched`), and all of it once the session is complete (`Settled`).
* Sums over workers are the community modules' `SumFunctionOnSet`. Its laws (`FiniteSums`: `SumNat`, `SumSame`, `SumRemove`, `SumPoint`) are proved by a
  least counterexample, the same way the other inductions on numbers here are.

In three more places the code does not do what its documents say. The model follows the code, and no run is
spent on them: the counter of records is raised after a batch is routed, so processed can exceed ingested
(`coordinator.py:143-147`; `section2/q2_grpc/README.md:175-177`); worker lines come from `GetInfo`, asked after
the partials, so they need not add up to the totals (`coordinator.py:198`); elapsed time is taken from a
`t_first` that a new session replaces only at its first batch (`coordinator.py:192`; `section2/q2_grpc/proto/weather.proto:160`).

## 5. Weather tables and reports

`WxTables` is the data: a `Partial` with its scalars, station rows and intervals, `Add` as `add_batch` does it,
`Merge`, the report with its orders and ties, and `Oracle`, the reference that `scripts/oracle.py` computes on the
whole file. A collection of records is a function from the lines they are on. Sums are integers, an average is the pair of sum
and count, so Neumaier's compensation and rounding are left out. `WxFile` is the file that the programs
read, and the lines of it that `oracle.py` reads. `WeatherReport` is the path of a file through it: `iter_batches` with `--limit`, the two ways to deal
records out, folding one record at a time, `to_pb` with the zeros that protobuf puts for the infinities of an empty
worker, and a query that fetches worker by worker while others fold. The sessions of section 4 are left out here.

Run `WeatherReport`: two workers; every file of up to three of four records, repeated or not, and all orders of four
different ones, with ties between records, workers and stations, values below zero and at the limits `HOT` and `COLD`; and
files with malformed lines, alone in a batch or not. `ReportExact`: whatever a query met, its report is the
reference's on the records that its answers held. `FinalExact`: asked at the end, it is `oracle.py`'s on the file.
`OnlyBadBatchStops`: records are lost only by a batch made of malformed lines, which ends the stream. The two
programs differ on a line with more than seven fields, which `oracle.py` reads and the streamer drops; no document speaks
of such a line, and `FinalExact` leaves it out. Deadlock is checked; a run that has ended stutters explicitly.

Proved (`WeatherReportProofs`), for any number of workers, any files, batch sizes, limits and K, and any order of the intervals in
a dict: `ReportExact`, `FinalExact` and `OnlyBadBatchStops`. The proof has two parts.

* Tables. `TableOf` says what the tables of a set of records are without saying how they came about: cardinalities, sums, least and
  greatest values, the records that lead. Empty tables are those of no record (`EmptyTable`); folding a record in gives those
  of one record more (`AddTables`, where the test that saves comparisons, `HotEnough`, is seen to save only idle ones);
  merging gives those of both collections if they share no line (`MergeTables`); the wire changes nothing (`WireTables`); and the
  report filled from them is `Oracle`'s (`FillIs`), whatever the order of the intervals (`BusiestLeads`, an induction over the
  loop's steps that `BusyExists` gives as a sequence). So the induction over data that the prover cannot do is one over the steps of the
  workers and of the query.
* Steps. The invariant `ReportInv`: each good line that was read is in one place, folded, being folded or waiting, at one worker
  (`Dealt`); the records are counted and the limit never passed (`Counted`); a worker's tables are `TableOf` what it has folded (`Tabled`); an
  answer is `TableOf` what the worker had then folded, and the total that of the answers merged so far (`Answered`). `FinalExact` needs, besides,
  that the good lines up to the limit are those that `oracle.py` reads (`FinalLines`); what a turn of `iter_batches` reads is `UntilIs`.

`InputAssumption` says what a file is: lines with a number of fields and a record, whose values lie between minus and plus `Infinity`,
without which an empty minimum would not be neutral.

`WxMapReduce` is the batch pipeline of `section2/q1_mapreduce`, which shares the data of `WxTables`: the driver with one stage
or two (`Submit`, `Stage2`), `wx_mapper` on a split (`Map`), `wx_reducer` and `wx_final` one line at a time (`Reduce`, `Final`),
the lines of a key in any order. Hadoop is external: it may cut the file after any line. A combiner gets one line for each key of
a split and re-emits it, the partition only says which reducer has a key, and tasks read nothing but their split, so that
running one again changes nothing: these three are left out, and so is `WX_K`. `WxVerify` runs it in the same run
`WeatherReport`, on the same files, once the streaming programs have ended, as `verify.sh` compares it with `oracle.py`. At most
`MaxCut` cuts, that is three splits: the header alone in one, records of a station or an interval in two others, a split
without records. `BatchExact`: however the file is split and merged, the report is `oracle.py`'s.

Station ids and times are taken from the integers, but the runs have none below zero: the programs keep no row of a negative
station id and round the minute of a negative time towards zero (`wx::Accum` in `weather_common.hpp:159-168`), where `oracle.py`
keeps the row and rounds down.

A mapper whose split lacks the header takes the first line with three numbers that is no record for one (`wx_mapper.cpp:26-31`),
where the comment on `parse_line` says that the caller skips such a line (`src/weather_common.hpp:176-177`). K is then that of
whichever header comes first, and `BatchExact` allows for it in files that have such lines; no run is spent on it.

Proved (`WeatherReportProofs`, last part), for any file, any number of splits, one stage or two, any order of a key's lines and of the
keys, and any order of the intervals: `BatchExact`. `StreamingKept` says that the theorems on the streaming programs hold in this composition too.
A line of the file is counted under three keys, all, its station and its interval. A pair of key and line (`Pairs`) says that it has been,
and `Assembled` what the tables are in which just the pairs of a set have been counted. A mapper's tables are folded to `TableOf` its records
(`FoldedIs`, from `AddTables`) and cut into what is assembled from the pairs under each key (`PiecesAre`); merging assembles from both
sets if they share no pair (`AssembleUnion`); all pairs of a collection give its `TableOf` (`AssembleAll`). The invariant `BatchInv`:
each line that waits for a reducer is assembled from the pairs of its split under its key, in the second job those of the whole
file (`Carried`); no two of them share a pair, because the splits share no line (`SplitsAre`, `BearApart`); the pairs that do not wait, once
all splits are mapped, are those that have been merged, by key in the first reducers and all together in the last (`Merging`); and
a header is still unread, on its way or found, so that K is that of a line which has one (`HeaderKept`). When nothing waits all pairs have been
merged, and the rest is `FillIs`. That each mapper sorts or combines its lines is not needed, which is why the combiner could be left out.

## 6. Weather benchmarks

`WeatherBench` is `bench.py` with `query_load.py`. The harness is one thread (`pc`); `proc` has the state of each
process it may start, `child` the one it is starting, `listed` is `Launcher.procs`; the session inside the coordinator is reduced
to idle, active or complete. Every wait has its success and its failure, and `Fail` and `Crash` (a process dies) may come at any
time. Starting a process (`Popen`) and listing it (`ListChild`) are two steps (`bench.py:52`, `54`). The `finally` is `Terminate`, one
process at a time, then `Reap`, then the second of sleep.

Ctrl-C may come at every step. `InterruptBody` is one in the `try`: the `except` does not catch it, the `finally` tears down what is
listed, and the program ends. `InterruptTeardown` is one in the `finally`, be it the first or the second: the rest of `killall` is not
done, and the program ends at once.

`Launcher.run` does not look at a return code (`bench.py:57-58`). A dashboard that fails, for want of a server or by itself, has
printed nothing: the final report is asked for three times (`FinalFails`), and then the row says NO; without the resource figures
the row has zeros (`WriteRow`). Only a dashboard that takes more than an hour raises, and there is no row (`Fail`).

`broken`, `cut`, `orphan`, `crashed` and `how` are history variables: the configurations whose dashboard failed with all servers up, the half
of the teardown that a Ctrl-C ended, the process that one kept from the list, the deaths, and how each load ended. Assumed:
processes obey SIGTERM and SIGKILL; SIGKILL, which is not waited for, has done its work within the second of sleep. The load's
report is one step, and its `join(timeout=5)` of threads that are about to end is left out.

Run `WeatherBench`: two configurations, two workers with two query clients and one with one, one death. Two configurations
are the fewest for one to meet what another left. `NoLeftOver`: no process of one configuration runs beside those of
the next; at the end none runs but, after a Ctrl-C, the one that was started and not yet listed, or, after a Ctrl-C in the teardown,
any in its first half and in its second only those that have got their signal. `MismatchIsFailure`: the report in a row is that of all
batches or none, never a torn one; a row without it, or without resource figures, is of a configuration in which something died or the
dashboard failed by itself. `LoadFigures`: the query figures of a row are of its own load. `BenchEnds`: the
harness ends, whatever dies or hangs. Fairness: the harness goes on, by a timeout if nothing else, and signals are
obeyed; nothing else need happen, not even that a process comes up.

Proved (`WeatherBenchProofs`), for any configurations and number of deaths: `NoLeftOver`, `MismatchIsFailure`, `LoadFigures`, and `TypeOK`.
`NoLeftOver` is not inductive. `Owned` adds that what runs is of the configuration at hand, and listed, or about to be, or has been sent
SIGKILL in the teardown, or was kept from the list by Ctrl-C, and that nothing of a later configuration has been started; `TornDown`
how far the teardown has come and what a Ctrl-C in it has left. Together they are `IInv`. For the
figures, `RowInv` adds what the harness has waited for: a server that came up is up or something of its configuration has
died, a complete session has folded all batches, and so has the final report, or there is none for a reason (`Served`); what the
load knows and how it ended (`Loaded`); and that a row is written once its load is over (`Rowed`).

## 7. Single-source shortest paths

`Sssp` has one map and one reduce task per element of `Task` in each job, in any order; `Home` is the
partitioner, and a reducer's file is the next job's split: Hadoop may split the files differently, but of the vertices' lines only the
minimum of what is emitted for a vertex matters, which is the same for any splits. `MapTask` emits the candidates of the vertices that push and has the combiner run on any
set of keys; `MapLost` loses a finished map's output, which must then be run again; `ReduceTask` takes the
minimum, sets the flag and adds to the counter; `Driver` makes the job's output the next one's input
and stops on a zero counter. `walks` is a history variable: the lengths of all walks of at most `round`
edges from vertex 0.

`SsspVerify` is `verify.sh`: the pipeline on a graph, then the oracle on the same one (`Dijkstra`, step by step, with
the outdated heap entries it passes over and edges scanned in any order), then the comparison. `GenGraph` gives what
`gen_graph.py` can write: the base edges of each shape and any random ones after them.

Run: `SsspRounds` has 243 graphs on three vertices (at most one edge for each of five ordered pairs, weights
0 and 2: ties, zero cycles, unreachable vertices, longer paths that are shorter), the shapes of `tests/` on
four vertices (multi-edges, a self-loop, a cycle back to the source, a source without edges) and graphs of the
generator on four, in both modes, with one lost map output. `VerifyAgrees`: pipeline and oracle print the same;
`VerifyEnds`: the comparison is reached. Three vertices are the fewest on which a vertex is reached, improved in a
later round and pushes again; two tasks are enough for any order of tasks to matter. `MaxLost` bounds re-executions
because Hadoop fails a job that needs too many. The specification ends when the program does, so deadlock is
not checked. Fairness: Hadoop runs the tasks it has scheduled, the driver its jobs, and the oracle goes on.

Three statements of the repository about it do not hold and are not relied on. `section1/q2_sssp/README.md:84` gives
the number of jobs as the hop diameter plus one: the loop runs until no distance changes, so what counts are the edges of
the longest of the shortest paths, which can be more. `gen_graph.py:10` says of a star that it "converges in 2
iterations", which its random extra edges can prolong. `gen_graph.py:9` says ceil(sqrt V) layers, the code (line 37)
takes the integer square root of the reachable vertices, and fails when there is only one of them.

Proved (`SsspProofs`), for every graph with weights in `Nat`, either mode, every number of tasks and
partition, every use of the combiner and any number of re-executions: `RoundExact`, `EdgesRelaxed` and
`ResultShortest`, and `TypeOK` and `DistancesFall`, which only the proofs state. The argument: `MapsDone` says that a finished map has
written a least element of what it had to emit; so (`CandidatesComplete`) the reducers' minimum does not
depend on the combiner, and `ReducesDone` says what each written record is worth. With `EdgesRelaxed`, an
edge is either pushed in this round or already relaxed, which gives both `EdgesRelaxed` and `RoundExact` for
the next round (`JobDone`). A zero counter means that no flag is set, and then `EdgesRelaxed` is about every
edge.

`VerifyAgrees` (in the same module) joins two arguments. The oracle never gets below the pipeline's result (`NoneBelow`), because no edge
shortens that. And when the heap is empty no edge shortens the oracle's own distances (`Pending`: an edge of a
reached vertex is relaxed, or being scanned, or its vertex is in the heap with its present distance), so that no walk is shorter
than they are (`WalksAbove`), in particular the walk that a distance of the pipeline is the length of. That vertices leave the heap
in order of distance is not needed. Only model-checked: that the comparison is reached.

## 8. Weather MPI program

`MpiSplit` is how the ranks read: byte ranges, the rule that a record belongs to the rank in whose range it begins, chunks
of up to `Chunk` bytes with the part of a record carried over, the tail read past the end of the range, and a read error,
which ends the loop as the end of the file does. A byte is its own offset, or a newline, so that what is folded tells
where it came from. `WeatherMpi` adds the collective calls, matched by the order in which each rank makes them, with
the branches on the span of station ids and of intervals (dense or sparse reduction), a header that cannot be parsed, an
output that cannot be opened (`MPI_Abort`), and the report. Whether a collective that MPI does not oblige to synchronise does so is chosen freely
(`eager`). The count and the hottest record stand for all scalars, which are reduced beside them.

Run `WeatherMpi`: three ranks on every file of up to three bytes after the header, read in chunks of two bytes or less,
with ranks that have no file (none, the root, another, all). Empty ranges, ranges that begin inside a record, at its
first byte and at a newline, blank and malformed lines, and records over three ranges all occur; `Data`, `P` and `Chunk` are
the bounds. `SplitExact`: the ranks have the file's records, each once, whole and in order, and after a read error nothing
that is not theirs. `MpiReportExact`: a report is the file's, unless a read failed. `MpiEnds`: if all ranks have the file,
or none, the program ends. Deadlock is not checked, because a rank that has no file leaves the others in `MPI_Bcast`
(hazard at `weather_mpi.cpp:88`) and nothing in the program ends that. Fairness: each rank, and the abort.

Left out: the reduction under `--time`, usage errors, the order and number of top stations printed, rounding, and a failure of the
one-byte read that looks back behind the range (`weather_mpi.cpp:161`), which would leave `drop_first` false and have the rank fold the
end of a record that begins before its range.

Proved (`WeatherMpiProofs`), for any file, number of ranks, chunk size and short reads: `SplitExact`. The invariant `SplitInv` (in `MpiSplit`) has,
for each rank, that its buffers are the file's bytes from its cursor to what it reads next (`Buffered`), that its cursor
is at the beginning of a line or in the line to be dropped (`OnLine`), and that it has folded the records that begin in
its range before the cursor, once, whole and in order (`Kept`). Two sequences of a set's records in order are equal (`OneSequence`),
which makes the ranks' sequences, joined, the file's: the ranges are adjacent (`Ranges`) and `Cuts` says so of any
integer division. `Order` names the records' order by what it is, an increasing function, where a sort of the community modules
would stop the provers.

Proved in the same module, for any file and readings, any ranks with or without the file, any `DenseLimit`, and a library that
synchronises or not: `MpiReportExact`. The invariant `MpiInv` has two halves.

* Control. A rank without the file calls nothing but `MPI_Finalize`, so no rank returns from the reduction of the span, and a
  header that cannot be parsed ends every rank behind the broadcast (`Stopped`, `Over`). When all have both, the records alone say which
  calls the program makes (`Wide`, `Lowest`, `Highest`, `Route`), a rank's place in the program is given by how many it has
  made (`Placed`), each call carries the rank's own contribution (`Called`), and nobody is past a call that tells all ranks something,
  nor the root past any reduction, before everybody has made it (`Waited`). So the ranks agree on dense or sparse tables, though
  each finds it out for itself, and no rank still reads when another is past the span.
* Arithmetic. By `SplitExact` the byte ranges share out the file's records. Sums over the ranks of counts over disjoint ranges are the
  file's (`SumDisjoint`, `RangesAdd`); the first of the ranks' hottest records is the first of the file's, whichever rank holds
  it; and the dense table, the sparse lists and no table at all give the same busiest interval (`FiniteSums.Extremes` has the
  least and the greatest of a finite set).

`Reading` and `MpiAssumption` say what the arithmetic needs of a record: temperatures are integers (only their order is used), stations
and intervals are natural numbers. What is not proved is that the program ends when all ranks have the file (`MpiEnds`).

## 9. What is left to TLC

Liveness everywhere (`SubscriberCatchesUp`, `CancelledLeaves`, `EditsAnswered`, `EntryGoes`, `ClientEnds`, `SessionEnds`,
`FinalPrinted`, `BenchEnds`, `MpiEnds`, `VerifyEnds`), which TLAPS does not reach. Every
invariant and every action property that a passing run checks is stated by a theorem.

The proofs rest on the named assumptions of the modules (`NameAssumption`, `CallAssumption`, `MenuAssumption`, `PoolAssumption`, `ClientAssumption`,
`BoundAssumption`, `DemoAssumption`, `BenchAssumption`, `SizeAssumption`, `ActorAssumption`, `DataAssumption`, `GraphAssumption`, `TaskAssumption`, `SplitAssumption`, `MpiAssumption`, `InfinityAssumption`, `InputAssumption`, `WorkerAssumption`), which the
passing runs evaluate on their constants.

Properties in the runs and those only in the proofs are told apart on purpose: a property that a theorem states for
all constants and that another property of the runs would betray anyway (lock order, answers, a type) is not run again.

## 10. Not modelled

* `hadoop/`: shell around Hadoop's daemons. Its steps are commands whose effects the repository does not define; its one
  hazard, a readiness poll that gives up, is listed without a property.
* `test_functional.py`: a sequence of calls and checks that run one after the other.
* `gen_weather.cpp`, `weather_seq.cpp`, benchmark shell scripts, plots: input, one loop over a file, timing and figures.
* `*_pb2.py`, `*_pb2_grpc.py`: generated.

## 11. Plan

* Every safety property of the runs is proved; what is open are the components that section 10 leaves out, and of them only the
  combiner of `section2/q1_mapreduce` has a place in the proofs: `AssembleUnion` is what it would need.
* Lemmas about the same things in two modules (`Extremes` and sums of `FiniteSums`; counts over disjoint sets in `WeatherMpiProofs` and
  `WeatherReportProofs`) can be brought together in `FiniteSums`.
