---------------------------- MODULE WeatherBench ----------------------------
(***************************************************************************)
(* The benchmark harness of section2/q2_grpc, bench/bench.py, with its     *)
(* query load, bench/query_load.py.  For each configuration the harness    *)
(* starts workers, coordinator and query clients, runs the streamer to its *)
(* end, then the dashboard for the final report, writes a row of figures   *)
(* and tears everything down, whatever has gone wrong, unless a Ctrl-C     *)
(* comes in the middle of that.                                            *)
(*                                                                         *)
(* The session inside the coordinator is WeatherIngest's matter: here it   *)
(* is idle, active or complete, complete only when all batches are folded. *)
(* Timeouts may strike at any time that their condition is not met.        *)
(***************************************************************************)
EXTENDS Integers, SequencesExt

CONSTANTS
  Configs,   \* sequence of [workers, queries]
  Batches,   \* batches in the dataset
  MaxCrash   \* bound: processes that die by themselves

ASSUME BenchAssumption ==
  /\ Batches \in Nat \ {0} /\ MaxCrash \in Nat
  /\ Configs \in Seq([workers : Nat \ {0}, queries : Nat]) /\ Configs # <<>>

Config  == DOMAIN Configs
Coord   == -1
Load    == -2
Role    == {Coord, Load} \union UNION {0..(Configs[c].workers - 1) : c \in Config}
Process == Config \X Role
Client  == UNION {1..Configs[c].queries : c \in Config}

VARIABLES
  conf, pc,    \* the harness: its configuration and where it is in the loop
  n,           \* the worker it waits for, the attempt at the final report, or
               \* the processes that have been sent SIGTERM
  child,       \* the process that it starts
  listed,      \* Launcher.procs
  proc,        \* state of each process it may start
  session, folded,           \* the coordinator's session, and batches in the workers
  client, answer,            \* query_load: its threads, and the answer each one holds
  samples, seen_active, stop, \* lat, and its two events
  log,         \* bench_query.log: which of the statistics it offers
  fin,         \* the final report: records in it, or <<>>
  rows, interrupted,         \* the CSV file, Ctrl-C
  broken,      \* history: configurations whose last dashboard for the report, or that
               \* for the resource figures, failed although all servers were up
  cut, orphan, \* history: the half of the teardown that a Ctrl-C ended, and the
               \* processes that one kept from the list
  crashed, how \* history: configurations with a death, and how each load ended

thread  == <<conf, pc, n, child, listed>>
memory  == <<client, answer, samples, seen_active, stop>>
load    == <<client, answer, samples, seen_active, stop, log>>
results == <<rows, interrupted, broken, cut, orphan>>
vars == <<thread, proc, session, folded, load, fin, results, crashed, how>>

Init ==
  /\ conf = 1 /\ pc = "spawn" /\ n = 0 /\ child = <<1, 0>>
  /\ listed = <<>> /\ proc = [p \in Process |-> "none"]
  /\ session = "idle" /\ folded = 0
  /\ client = [i \in Client |-> "off"] /\ answer = [i \in Client |-> "idle"]
  /\ samples = {} /\ seen_active = FALSE /\ stop = FALSE
  /\ log = "" /\ fin = <<>>
  /\ rows = <<>> /\ interrupted = FALSE
  /\ broken = {} /\ cut = "no" /\ orphan = {}
  /\ crashed = <<>> /\ how = [c \in Config |-> "none"]

This(role) == <<conf, role>>
Workers    == [i \in 1..Configs[conf].workers |-> This(i - 1)]
Queries    == Configs[conf].queries

-----------------------------------------------------------------------------
(***************************************************************************)
(* The processes.                                                          *)
(***************************************************************************)
Alive(p) == proc[p] \in {"starting", "up", "term", "killed"}

\* It listens on its port.
ComeUp(p) ==
  /\ proc[p] = "starting" /\ proc' = [proc EXCEPT ![p] = "up"]
  /\ client' = IF p = This(Load) THEN [i \in Client |-> IF i <= Queries THEN "ask" ELSE "off"]
               ELSE client
  /\ UNCHANGED <<thread, session, folded, answer, samples, seen_active, stop, log,
                 fin, results, crashed, how>>

\* p is at work no more, for its death or a signal; what the load knew is gone.
Stops(p, state) ==
  /\ proc' = [proc EXCEPT ![p] = state]
  /\ IF p = This(Load)
     THEN /\ client' = [i \in Client |-> "off"] /\ answer' = [i \in Client |-> "idle"]
          /\ samples' = {} /\ seen_active' = FALSE /\ stop' = FALSE
     ELSE UNCHANGED memory

\* It dies by itself.
Crash(p) ==
  /\ proc[p] \in {"starting", "up"} /\ Len(crashed) < MaxCrash
  /\ Stops(p, "dead") /\ crashed' = Append(crashed, conf)
  /\ how' = IF p = This(Load) THEN [how EXCEPT ![conf] = "crash"] ELSE how
  /\ UNCHANGED <<thread, session, folded, log, fin, results>>

\* It dies of the signal it was sent.
Die(p) ==
  /\ proc[p] \in {"term", "killed"} /\ proc' = [proc EXCEPT ![p] = "dead"]
  /\ UNCHANGED <<thread, session, folded, load, fin, results, crashed, how>>

\* Every process that a query or a session needs is there.
Serving == \A p \in Range(Workers) \union {This(Coord)} : proc[p] = "up"

\* The streamer's session at the coordinator.
Begin ==
  /\ pc = "stream" /\ session = "idle" /\ Serving
  /\ session' = "active" /\ folded' = 0
  /\ UNCHANGED <<thread, proc, load, fin, results, crashed, how>>

Ingest ==
  /\ session = "active" /\ Serving
  /\ IF folded < Batches THEN folded' = folded + 1 /\ UNCHANGED session
     ELSE session' = "complete" /\ UNCHANGED folded
  /\ UNCHANGED <<thread, proc, load, fin, results, crashed, how>>

-----------------------------------------------------------------------------
(***************************************************************************)
(* query_load.py --until-complete.                                         *)
(***************************************************************************)
LoadUp == proc[This(Load)] = "up"

\* GetAnalytics answers; if it raises, the thread is gone.
Query(i) ==
  /\ LoadUp /\ client[i] = "ask" /\ ~stop
  /\ IF Serving
     THEN client' = [client EXCEPT ![i] = "got"] /\ answer' = [answer EXCEPT ![i] = session]
     ELSE client' = [client EXCEPT ![i] = "dead"] /\ UNCHANGED answer
  /\ UNCHANGED <<thread, proc, session, folded, samples, seen_active, stop, log, fin,
                 results, crashed, how>>

\* The stream is complete, and some client has seen it flow.
Enough(a, seen) == a = "complete" /\ seen

Sample(a) == IF a = "active" THEN "active" ELSE "other"

Record(i) ==
  /\ LoadUp /\ client[i] = "got"
  /\ samples' = samples \union {Sample(answer[i])}
  /\ seen_active' = (seen_active \/ answer[i] = "active")
  /\ stop' = (stop \/ Enough(answer[i], seen_active'))
  /\ client' = [client EXCEPT ![i] = "ask"] /\ answer' = [answer EXCEPT ![i] = "idle"]
  /\ UNCHANGED <<thread, proc, session, folded, log, fin, results, crashed, how>>

\* Which line of statistics the harness picks, "active" before "all".
Picked(s) == IF "active" \in s THEN "active" ELSE IF s # {} THEN "all" ELSE ""

\* The main thread of the load reports, after the stop or after an hour.
Report(reason) ==
  /\ LoadUp /\ (reason = "stop" => stop)
  /\ log' = Picked(samples)
  /\ Stops(This(Load), "dead")
  /\ how' = [how EXCEPT ![conf] = reason]
  /\ UNCHANGED <<thread, session, folded, fin, results, crashed>>

-----------------------------------------------------------------------------
(***************************************************************************)
(* The harness: the body of its loop is one try.                           *)
(***************************************************************************)
Goto(from, to) == pc = from /\ pc' = to

\* Launcher.spawn: the process is started, and only then put on the list.
Popen ==
  /\ Goto("spawn", "append") /\ proc' = [proc EXCEPT ![child] = "starting"]
  /\ UNCHANGED <<conf, n, child, listed, session, folded, load, fin, results, crashed, how>>

\* The workers are started one after the other.
ListChild ==
  /\ pc = "append" /\ listed' = Append(listed, child)
  /\ CASE child[2] = Coord -> pc' = "coord" /\ UNCHANGED child
       [] child[2] = Load  -> pc' = "stream" /\ UNCHANGED child
       [] OTHER -> IF child[2] + 1 < Configs[conf].workers
                   THEN pc' = "spawn" /\ child' = This(child[2] + 1)
                   ELSE pc' = "workers" /\ UNCHANGED child
  /\ UNCHANGED <<conf, n, proc, session, folded, load, fin, results, crashed, how>>

\* They are waited for in turn, then the coordinator is started.
AwaitWorker ==
  /\ pc = "workers" /\ proc[This(n)] = "up"
  /\ IF n + 1 < Configs[conf].workers
     THEN n' = n + 1 /\ UNCHANGED <<pc, child>>
     ELSE n' = 0 /\ pc' = "spawn" /\ child' = This(Coord)
  /\ UNCHANGED <<conf, listed, proc, session, folded, load, fin, results, crashed, how>>

\* Mutant: the log of the load before is not removed.
FreshLogKept == log

FreshLog == ""

\* The coordinator is waited for, and the query clients are started.
AwaitCoordinator ==
  /\ pc = "coord" /\ proc[This(Coord)] = "up"
  /\ IF Queries > 0 THEN pc' = "spawn" /\ child' = This(Load) /\ log' = FreshLog
     ELSE pc' = "stream" /\ UNCHANGED <<child, log>>
  /\ UNCHANGED <<conf, n, listed, proc, session, folded, memory, fin, results, crashed, how>>

\* Mutant: the streamer is started and not waited for.
StreamedAtOnce == session # "idle"

\* The streamer has printed its line.
Streamed == session = "complete"

AwaitStreamer ==
  /\ Goto("stream", "final") /\ Streamed /\ n' = 1
  /\ UNCHANGED <<conf, child, listed, proc, session, folded, load, fin, results, crashed, how>>

\* dashboard --final --wait: the workers' tables are fetched, and then the
\* session's flag is read; without "complete" it asks again.
FinalFetch ==
  /\ Goto("final", "answer") /\ Serving /\ fin' = <<folded>>
  /\ UNCHANGED <<conf, n, child, listed, proc, session, folded, load, results, crashed, how>>

FinalAnswer ==
  /\ pc = "answer" /\ proc[This(Coord)] = "up"
  /\ IF session = "complete" THEN pc' = "load" /\ UNCHANGED fin
     ELSE pc' = "final" /\ fin' = <<>>
  /\ UNCHANGED <<conf, n, child, listed, proc, session, folded, load, results, crashed, how>>

\* It fails, for want of a server or by itself, which is not looked at: it has
\* printed nothing, and is tried three times.
FinalFails ==
  /\ pc \in {"final", "answer"} /\ fin' = <<>>
  /\ broken' = IF n = 3 /\ Serving THEN broken \union {conf} ELSE broken
  /\ IF n < 3 THEN pc' = "final" /\ n' = n + 1 ELSE pc' = "load" /\ UNCHANGED n
  /\ UNCHANGED <<conf, child, listed, proc, session, folded, load, rows, interrupted, cut,
                 orphan, crashed, how>>

\* Mutant: the load is waited for without a limit.
LoadTimeoutNever == FALSE

LoadTimeout == LoadUp \/ proc[This(Load)] = "starting"

\* The load is waited for; after two minutes it is terminated.
AwaitLoad ==
  /\ Goto("load", "row")
  /\ \/ /\ Queries = 0 \/ proc[This(Load)] = "dead"
        /\ UNCHANGED <<proc, memory, how>>
     \/ /\ Queries > 0 /\ LoadTimeout
        /\ Stops(This(Load), "term")
        /\ how' = [how EXCEPT ![conf] = "term"]
  /\ UNCHANGED <<conf, n, child, listed, session, folded, log, fin, results, crashed>>

\* The finally, whatever the try has come to.
Teardown == pc' = "kill" /\ n' = 0 /\ fin' = <<>>

\* The row.  final_match is whether the report is the expected one, that of all
\* batches.
Row(usage) ==
  [conf |-> conf, report |-> fin, load |-> IF Queries > 0 THEN log ELSE "", usage |-> usage]

\* dashboard --raw for the resource figures, zeros if it fails, for want of a
\* server or by itself; and the row.
WriteRow ==
  /\ pc = "row" /\ Teardown
  /\ \E usage \in {FALSE, Serving} :
       /\ rows' = Append(rows, Row(usage))
       /\ broken' = IF Serving /\ ~usage THEN broken \union {conf} ELSE broken
  /\ UNCHANGED <<conf, child, listed, proc, session, folded, load, interrupted, cut, orphan,
                 crashed, how>>

\* A process could not be started, a port did not come up in four minutes, the
\* streamer printed no line, or it or a dashboard took more than an hour.
Fail ==
  /\ \/ pc \in {"spawn", "stream", "final", "answer", "row"}
     \/ pc = "workers" /\ proc[This(n)] # "up"
     \/ pc = "coord" /\ proc[This(Coord)] # "up"
  /\ Teardown
  /\ UNCHANGED <<conf, child, listed, proc, session, folded, load, rows, interrupted, broken, cut,
                 orphan, crashed, how>>

\* Ctrl-C in the try, up to its end: the finally tears down what is listed.
InterruptBody ==
  /\ pc \notin {"wait", "exit"} /\ (pc = "kill" => n = 0) /\ ~interrupted
  /\ Teardown /\ interrupted' = TRUE
  /\ orphan' = IF pc = "append" THEN {child} ELSE orphan
  /\ UNCHANGED <<conf, child, listed, proc, session, folded, load, rows, broken, cut,
                 crashed, how>>

\* Ctrl-C, the first or the second, in the finally: it is cut short.
InterruptTeardown ==
  /\ pc \in {"kill", "wait"}
  /\ pc' = "exit" /\ n' = 0 /\ interrupted' = TRUE /\ cut' = pc
  /\ UNCHANGED <<conf, child, listed, proc, session, folded, load, fin, rows, broken, orphan,
                 crashed, how>>

\* Mutant: a process that was waited for already is an error.
TerminateUncaught ==
  /\ pc = "kill"
  /\ IF n = Len(listed) THEN pc' = "wait" /\ n' = 0 /\ UNCHANGED <<proc, memory>>
     ELSE IF listed[n + 1] = This(Load) /\ proc[This(Load)] = "dead"
     THEN pc' = "exit" /\ n' = 0 /\ UNCHANGED <<proc, memory>>
     ELSE /\ n' = n + 1 /\ UNCHANGED pc
          /\ IF Alive(listed[n + 1]) THEN Stops(listed[n + 1], "term")
             ELSE UNCHANGED <<proc, memory>>
  /\ UNCHANGED <<conf, child, listed, session, folded, log, fin, results, crashed, how>>

\* killall, in the finally: SIGTERM to each that is listed, dead or not.
Terminate ==
  /\ pc = "kill"
  /\ IF n = Len(listed) THEN pc' = "wait" /\ n' = 0 /\ UNCHANGED <<proc, memory>>
     ELSE /\ n' = n + 1 /\ UNCHANGED pc
          /\ IF Alive(listed[n + 1]) THEN Stops(listed[n + 1], "term")
             ELSE UNCHANGED <<proc, memory>>
  /\ UNCHANGED <<conf, child, listed, session, folded, log, fin, results, crashed, how>>

\* Each is waited for in turn; SIGKILL if that takes more than ten seconds.  (The
\* list is cleared at the end of the loop; nothing reads it until then.)
Reap ==
  /\ pc = "wait" /\ listed # <<>>
  /\ proc' = IF proc[Head(listed)] = "dead" THEN proc
             ELSE [proc EXCEPT ![Head(listed)] = "killed"]
  /\ listed' = Tail(listed)
  /\ UNCHANGED <<conf, pc, n, child, session, folded, load, fin, results, crashed, how>>

\* The second of sleep: SIGKILL, which is not waited for, has done its work.
Slept == \A p \in Process : proc[p] # "killed"

\* (What the dead coordinator knew is gone.)
NextConfig ==
  /\ pc = "wait" /\ listed = <<>> /\ Slept
  /\ IF interrupted \/ conf = Len(Configs)
     THEN pc' = "exit" /\ UNCHANGED <<conf, child>>
     ELSE pc' = "spawn" /\ conf' = conf + 1 /\ child' = <<conf + 1, 0>>
  /\ n' = 0 /\ session' = "idle" /\ folded' = 0
  /\ UNCHANGED <<listed, proc, load, fin, results, crashed, how>>

-----------------------------------------------------------------------------
Harness ==
  \/ Popen \/ ListChild \/ AwaitWorker \/ AwaitCoordinator \/ AwaitStreamer
  \/ FinalFetch \/ FinalAnswer \/ FinalFails \/ AwaitLoad \/ WriteRow \/ Fail
  \/ Terminate \/ Reap \/ NextConfig

Ended == pc = "exit" /\ UNCHANGED vars

\* What goes on beside the harness, looked at until the harness has ended.
Others ==
  \/ Begin \/ Ingest
  \/ (\E p \in Process : ComeUp(p) \/ Crash(p) \/ Die(p))
  \/ (\E i \in Client : Query(i) \/ Record(i)) \/ Report("stop") \/ Report("hour")

Next ==
  \/ Harness \/ InterruptBody \/ InterruptTeardown \/ Ended
  \/ pc # "exit" /\ Others

Spec == Init /\ [][Next]_vars

\* The harness is one thread that always goes on, by a timeout if nothing else,
\* and processes obey signals.  Nothing else need happen.
FairSpec ==
  /\ Spec
  /\ WF_vars(Harness)
  /\ \A p \in Process : WF_vars(pc # "exit" /\ Die(p))

-----------------------------------------------------------------------------
(***************************************************************************)
(* Properties.                                                             *)
(***************************************************************************)

\* Every variable has its type.
HarnessOK ==
  /\ conf \in Config /\ n \in Nat /\ listed \in Seq(Process) /\ child \in Process
  /\ pc \in {"spawn", "append", "workers", "coord", "stream", "final", "answer", "load", "row",
             "kill", "wait", "exit"}
  /\ proc \in [Process -> {"none", "starting", "up", "term", "killed", "dead"}]

Printed == {<<>>} \union {<<k>> : k \in 0..Batches}

SessionOK ==
  session \in {"idle", "active", "complete"} /\ folded \in 0..Batches /\ fin \in Printed

LoadOK ==
  /\ client \in [Client -> {"off", "ask", "got", "dead"}]
  /\ answer \in [Client -> {"idle", "active", "complete"}]
  /\ samples \subseteq {"active", "other"} /\ seen_active \in BOOLEAN /\ stop \in BOOLEAN
  /\ log \in {"", "active", "all"}
  /\ how \in [Config -> {"none", "stop", "hour", "term", "crash"}]

RowsOK ==
  /\ rows \in Seq([conf : Config, report : Printed, load : {"", "active", "all"},
                   usage : BOOLEAN])
  /\ interrupted \in BOOLEAN /\ crashed \in Seq(Config)
  /\ broken \subseteq Config /\ cut \in {"no", "kill", "wait"} /\ orphan \subseteq Process

TypeOK == HarnessOK /\ SessionOK /\ LoadOK /\ RowsOK

Signalled(p) == proc[p] \in {"term", "killed", "dead"}

\* No process of an earlier configuration runs beside those of a later one, to
\* answer on its ports or to load its coordinator.  When the program has ended none
\* is left, whatever failed, except by Ctrl-C: one that comes between the start of
\* a process and its place on the list leaves that one; in the teardown, one may
\* leave any, but from the first wait on only those that have got their signal.
NoLeftOver ==
  \A p \in Process : Alive(p) =>
    /\ p[1] = conf
    /\ pc = "exit" => \/ p \in orphan
                      \/ cut = "kill"
                      \/ cut = "wait" /\ Signalled(p)

\* The final report in a row is that of all batches or none at all, never a torn
\* one, for the streamer has ended before it is asked for.  A row is without it, or
\* without resource figures, only if a process of that configuration died or the
\* dashboard failed by itself.
MismatchIsFailure ==
  \A i \in DOMAIN rows :
    /\ rows[i].report \in {<<Batches>>, <<>>}
    /\ rows[i].report = <<>> \/ ~rows[i].usage => rows[i].conf \in Range(crashed) \union broken

\* The query figures of a row are those of its own load, and of queries during
\* ingest if the load stopped by itself; a load that was cut short has none.
LoadFigures ==
  \A i \in DOMAIN rows :
    /\ how[rows[i].conf] = "stop" => rows[i].load = "active"
    /\ how[rows[i].conf] \in {"none", "term", "crash"} => rows[i].load = ""

\* Whatever dies or hangs, the harness comes to its end.
BenchEnds == <>(pc = "exit")

-----------------------------------------------------------------------------
(***************************************************************************)
(* The inductive invariant, for the proofs.                                *)
(***************************************************************************)

\* What has been started is of this configuration; it is listed, or about to be, or
\* has been sent SIGKILL, or Ctrl-C has kept it from the list.
Owned ==
  /\ child[1] = conf /\ (pc = "append" => proc[child] # "none")
  /\ \A p \in Range(listed) : p[1] = conf /\ proc[p] # "none"
  /\ \A p \in Process : Alive(p) =>
       /\ p[1] = conf
       /\ \/ p \in Range(listed) \/ p \in orphan
          \/ pc = "append" /\ p = child
          \/ pc \in {"wait", "exit"} /\ proc[p] = "killed"
  /\ \A p \in Process : p[1] > conf => proc[p] = "none"

\* In the teardown the first n of the list, and then all of it, have been sent SIGTERM.
TornDown ==
  /\ pc = "kill" => n <= Len(listed) /\ \A i \in 1..n : Signalled(listed[i])
  /\ pc = "wait" \/ cut = "wait" => \A p \in Range(listed) : Signalled(p)
  /\ cut # "no" => pc = "exit"
  /\ pc = "exit" /\ cut = "no" => listed = <<>> /\ \A p \in Process : proc[p] # "killed"
  /\ orphan # {} => interrupted /\ pc \in {"kill", "wait", "exit"}

\* Together: inductive, and NoLeftOver follows.
IInv == TypeOK /\ Owned /\ TornDown

\* Whether the load is still to be started, or has been.
LoadToCome ==
  \/ pc \in {"spawn", "workers", "coord"} \/ Queries = 0
  \/ pc = "append" /\ child # This(Load)
LoadThere ==
  \/ pc \in {"stream", "final", "answer", "load", "row"} /\ Queries > 0
  \/ pc = "append" /\ child = This(Load)

\* The load stops only when it has seen the session active; its log says how it
\* ended; and before it is started nothing is known of it.
Loaded ==
  /\ proc[This(Load)] \notin {"starting", "up"} => ~stop /\ ~seen_active
  /\ stop => seen_active
  /\ seen_active => "active" \in samples
  /\ \A c \in Config : c > conf => how[c] = "none"
  /\ LoadToCome => proc[This(Load)] = "none"
  /\ LoadThere => proc[This(Load)] # "none"
  /\ pc \in {"spawn", "append"} /\ child = This(Load) => Queries > 0
  /\ pc = "spawn" /\ child = This(Load) => log = ""
  /\ proc[This(Load)] \in {"none", "starting", "up"} => how[conf] = "none"
  /\ proc[This(Load)] # "none" =>
       /\ how[conf] = "stop" => log = "active"
       /\ how[conf] \in {"none", "term", "crash"} => log = ""

\* The process is up, or one of its configuration has died.
Up(p) == proc[p] = "up" \/ conf \in Range(crashed)

\* Whether the workers, or the coordinator too, have been waited for.
WorkersDone ==
  \/ pc \in {"coord", "stream", "final", "answer", "load", "row"}
  \/ pc \in {"spawn", "append"} /\ child \in {This(Coord), This(Load)}
CoordDone ==
  \/ pc \in {"stream", "final", "answer", "load", "row"}
  \/ pc \in {"spawn", "append"} /\ child = This(Load)

\* A server that was waited for stays up, and a session that is complete has
\* all batches, so that the final report has them or there is none, for a reason.
Served ==
  /\ pc \in {"spawn", "append", "coord"} => n = 0
  /\ pc \in {"spawn", "append"} =>
       child[2] \in {Coord, Load} \union 0..(Configs[conf].workers - 1)
  /\ pc = "workers" =>
       n < Configs[conf].workers /\ \A i \in 0..(n - 1) : Up(This(i))
  /\ WorkersDone => \A i \in 0..(Configs[conf].workers - 1) : Up(This(i))
  /\ CoordDone => Up(This(Coord))
  /\ session = "complete" => folded = Batches
  /\ pc \in {"final", "answer", "load", "row"} => session = "complete"
  /\ pc \in {"final", "answer"} => n \in 1..3
  /\ pc = "answer" => fin = <<Batches>>
  /\ pc \in {"load", "row"} =>
       fin = <<Batches>> \/ (fin = <<>> /\ conf \in Range(crashed) \union broken)

\* The rows are of this configuration and of those before it, and the load of
\* a row has ended or is being ended.
Rowed ==
  /\ \A i \in DOMAIN rows :
       rows[i].conf < conf \/ (rows[i].conf = conf /\ pc \in {"kill", "wait", "exit"})
  /\ pc = "row" \/ (\E i \in DOMAIN rows : rows[i].conf = conf) =>
       proc[This(Load)] \notin {"starting", "up"}

\* Together: inductive, and what the rows say follows.
RowInv == IInv /\ Loaded /\ Served /\ Rowed /\ MismatchIsFailure /\ LoadFigures
=============================================================================
