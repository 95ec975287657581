------------------------- MODULE WeatherBenchProofs -------------------------
(***************************************************************************)
(* Proofs about WeatherBench: every variable has its type, no process      *)
(* outlives its configuration or the program, and the figures of a row are *)
(* its own; for any configurations and any number of deaths.               *)
(***************************************************************************)
EXTENDS WeatherBench, SequenceTheorems, TLAPS

\* The processes of a configuration are processes.
LEMMA ThisProcess ==
  ASSUME conf \in Config
  PROVE  /\ This(Coord) \in Process /\ This(Load) \in Process
         /\ Configs[conf].workers \in Nat \ {0} /\ Configs[conf].queries \in Nat
         /\ \A i \in 0..(Configs[conf].workers - 1) : This(i) \in Process
         /\ Workers \in Seq(Process) /\ Len(Workers) = Configs[conf].workers
<1>1. Configs[conf].workers \in Nat \ {0} /\ Configs[conf].queries \in Nat
  <2>1. Configs[conf] \in [workers : Nat \ {0}, queries : Nat]
    BY BenchAssumption, ElementOfSeq, conf \in 1..Len(Configs) DEF Config
  <2> QED
    BY <2>1
<1>2. \A i \in 0..(Configs[conf].workers - 1) : i \in Role
  BY DEF Role
<1>3. This(Coord) \in Process /\ This(Load) \in Process
  BY DEF This, Process, Role
<1>4. \A i \in 0..(Configs[conf].workers - 1) : This(i) \in Process
  BY <1>2 DEF This, Process
<1> QED
  BY <1>1, <1>3, <1>4 DEF Workers

\* What a sequence holds, when its head is removed.
LEMMA TailRange ==
  ASSUME NEW S, NEW s \in Seq(S), s # <<>>
  PROVE  Range(s) = {Head(s)} \union Range(Tail(s)) /\ Head(s) \in S /\ Tail(s) \in Seq(S)
<1>1. \A i \in 1..Len(Tail(s)) : Tail(s)[i] = s[i + 1]
  OBVIOUS
<1>2. \A i \in 1..Len(s) : i = 1 \/ i - 1 \in 1..Len(Tail(s))
  OBVIOUS
<1>3. ASSUME NEW i \in 1..Len(s) PROVE s[i] \in {Head(s)} \union Range(Tail(s))
  <2>1. CASE i = 1
    BY <2>1
  <2>2. CASE i - 1 \in 1..Len(Tail(s))
    <3>1. Tail(s)[i - 1] = s[(i - 1) + 1]
      BY <1>1, <2>2
    <3>2. DOMAIN Tail(s) = 1..Len(Tail(s))
      OBVIOUS
    <3>3. Tail(s)[i - 1] \in Range(Tail(s))
      BY <2>2, <3>2 DEF Range
    <3> QED
      BY <3>1, <3>3
  <2> QED
    BY <1>2, <2>1, <2>2
<1>4. Head(s) \in Range(s) /\ Range(Tail(s)) \subseteq Range(s)
  BY <1>1 DEF Range
<1> QED
  BY <1>3, <1>4 DEF Range

\* What a sequence holds, when something is put behind it.
LEMMA AppendRange ==
  ASSUME NEW S, NEW s \in Seq(S), NEW e \in S
  PROVE  Append(s, e) \in Seq(S) /\ Range(Append(s, e)) = Range(s) \union {e}
<1>1. /\ Append(s, e) \in Seq(S) /\ DOMAIN Append(s, e) = 1..(Len(s) + 1)
      /\ DOMAIN s = 1..Len(s) /\ Len(s) \in Nat
      /\ \A i \in 1..Len(s) : Append(s, e)[i] = s[i]
      /\ Append(s, e)[Len(s) + 1] = e
  BY AppendProperties, LenProperties
<1>2. 1..(Len(s) + 1) = 1..Len(s) \union {Len(s) + 1}
  BY <1>1
<1> QED
  BY <1>1, <1>2 DEF Range

\* What goes on beside the harness leaves its variables and its results alone; a
\* process comes up, or dies, and what was up stays so unless it dies by itself or
\* is a load that has ended.
LEMMA OthersFrame ==
  ASSUME IInv, Others
  PROVE  /\ UNCHANGED <<thread, fin, results>>
         /\ proc' \in [Process -> {"none", "starting", "up", "term", "killed", "dead"}]
         /\ \A p \in Process : \/ proc'[p] = proc[p]
                               \/ proc[p] = "starting" /\ proc'[p] = "up"
                               \/ Alive(p) /\ proc'[p] = "dead"
         /\ crashed' \in {crashed, Append(crashed, conf)}
         /\ \A p \in Process : proc[p] = "up" /\ p # This(Load) =>
              proc'[p] = "up" \/ crashed' = Append(crashed, conf)
<1> DEFINE Goal ==
      /\ UNCHANGED <<thread, fin, results>>
      /\ proc' \in [Process -> {"none", "starting", "up", "term", "killed", "dead"}]
      /\ \A p \in Process : \/ proc'[p] = proc[p]
                            \/ proc[p] = "starting" /\ proc'[p] = "up"
                            \/ Alive(p) /\ proc'[p] = "dead"
      /\ crashed' \in {crashed, Append(crashed, conf)}
      /\ \A p \in Process : proc[p] = "up" /\ p # This(Load) =>
           proc'[p] = "up" \/ crashed' = Append(crashed, conf)
<1> SUFFICES Goal
  OBVIOUS
<1>a. proc \in [Process -> {"none", "starting", "up", "term", "killed", "dead"}]
      /\ conf \in Config /\ This(Load) \in Process
  BY ThisProcess DEF IInv, TypeOK, HarnessOK
<1>1. ASSUME Begin PROVE Goal
  BY <1>a, <1>1 DEF Begin, thread, results, load, memory
<1>2. ASSUME Ingest PROVE Goal
  BY <1>a, <1>2 DEF Ingest, thread, results, load, memory
<1>3. ASSUME NEW p \in Process, ComeUp(p) PROVE Goal
  BY <1>a, <1>3 DEF ComeUp, thread, results
<1>4. ASSUME NEW p \in Process, Crash(p) PROVE Goal
  BY <1>a, <1>4 DEF Crash, Stops, Alive, thread, results
<1>5. ASSUME NEW p \in Process, Die(p) PROVE Goal
  BY <1>a, <1>5 DEF Die, Alive, thread, results
<1>6. ASSUME NEW i \in Client, Query(i) PROVE Goal
  BY <1>a, <1>6 DEF Query, thread, results, load, memory
<1>7. ASSUME NEW i \in Client, Record(i) PROVE Goal
  BY <1>a, <1>7 DEF Record, thread, results, load, memory
<1>8. ASSUME NEW r \in {"stop", "hour"}, Report(r) PROVE Goal
  BY <1>a, <1>8 DEF Report, Stops, LoadUp, Alive, thread, results
<1> QED
  BY <1>1, <1>2, <1>3, <1>4, <1>5, <1>6, <1>7, <1>8 DEF Others

\* Each step keeps the types of the harness's variables and the processes.
LEMMA HarnessStep ==
  ASSUME IInv, [Next]_vars
  PROVE  HarnessOK'
<1> USE BenchAssumption DEF IInv, TypeOK
<1>1. ASSUME Popen PROVE HarnessOK'
  BY <1>1 DEF Popen, Goto, thread, results, load, memory, HarnessOK
<1>2. ASSUME ListChild PROVE HarnessOK'
  <2>1. listed' \in Seq(Process)
    BY <1>2, AppendProperties DEF ListChild, HarnessOK
  <2>2. child' \in Process /\ pc' \in {"coord", "stream", "spawn", "workers"}
    <3>1. CASE child[2] \in {Coord, Load}
      BY <1>2, <3>1 DEF ListChild, HarnessOK, Coord, Load
    <3>2. CASE child[2] \notin {Coord, Load}
      <4>1. child[2] \in Role /\ child[2] \in Nat
        BY <3>2 DEF HarnessOK, Process, Role
      <4>2. child[2] + 1 < Configs[conf].workers => This(child[2] + 1) \in Process
        <5>1. conf \in Config
          BY DEF HarnessOK
        <5>2. \A i \in 0..(Configs[conf].workers - 1) : This(i) \in Process
          BY <5>1, ThisProcess
        <5> DEFINE w == Configs[conf].workers
                   k == child[2]
        <5>3. w \in Nat /\ k \in Nat
          BY <4>1, <5>1, ThisProcess
        <5> HIDE DEF w, k
        <5>4. k + 1 < w => k + 1 \in 0..(w - 1)
          BY <5>3
        <5> QED
          BY <5>2, <5>4 DEF w, k
      <4> QED
        BY <1>2, <3>2, <4>2 DEF ListChild, HarnessOK
    <3> QED
      BY <3>1, <3>2
  <2> QED
    BY <1>2, <2>1, <2>2 DEF ListChild, HarnessOK
<1>3. ASSUME AwaitWorker PROVE HarnessOK'
  BY <1>3, ThisProcess DEF AwaitWorker, HarnessOK
<1>4. ASSUME AwaitCoordinator PROVE HarnessOK'
  BY <1>4, ThisProcess DEF AwaitCoordinator, HarnessOK
<1>5. ASSUME AwaitStreamer PROVE HarnessOK'
  BY <1>5 DEF AwaitStreamer, Goto, thread, results, load, memory, HarnessOK
<1>6. ASSUME FinalFetch PROVE HarnessOK'
  BY <1>6 DEF FinalFetch, Goto, thread, results, load, memory, HarnessOK
<1>7. ASSUME FinalAnswer PROVE HarnessOK'
  BY <1>7 DEF FinalAnswer, thread, results, load, memory, HarnessOK
<1>8. ASSUME FinalFails PROVE HarnessOK'
  BY <1>8 DEF FinalFails, thread, results, load, memory, HarnessOK
<1>9. ASSUME AwaitLoad PROVE HarnessOK'
  BY <1>9 DEF AwaitLoad, Goto, Stops, thread, results, load, memory, HarnessOK
<1>10. ASSUME WriteRow PROVE HarnessOK'
  BY <1>10 DEF WriteRow, Teardown, thread, results, load, memory, HarnessOK
<1>11. ASSUME Fail PROVE HarnessOK'
  BY <1>11 DEF Fail, Teardown, thread, results, load, memory, HarnessOK
<1>12. ASSUME Terminate PROVE HarnessOK'
  <2>1. n' \in Nat /\ pc' \in {"kill", "wait"}
    BY <1>12 DEF Terminate, HarnessOK
  <2>2. proc' \in [Process -> {"none", "starting", "up", "term", "killed", "dead"}]
    BY <1>12 DEF Terminate, Stops, HarnessOK
  <2>3. UNCHANGED <<conf, child, listed>>
    BY <1>12 DEF Terminate
  <2> QED
    BY <2>1, <2>2, <2>3 DEF HarnessOK
<1>13. ASSUME Reap PROVE HarnessOK'
  BY <1>13 DEF Reap, thread, results, load, memory, HarnessOK
<1>14. ASSUME NextConfig PROVE HarnessOK'
  <2>1. Config = 1..Len(Configs) /\ Len(Configs) \in Nat
    BY DEF Config
  <2>2. conf' \in Config
    BY <1>14, <2>1 DEF NextConfig, HarnessOK
  <2>3. 0 \in Role
    <3>1. Configs[conf].workers \in Nat \ {0}
      BY ThisProcess DEF HarnessOK
    <3> QED
      BY <3>1 DEF Role, HarnessOK
  <2>4. child' \in Process
    BY <1>14, <2>2, <2>3 DEF NextConfig, HarnessOK, Process
  <2> QED
    BY <1>14, <2>2, <2>4 DEF NextConfig, HarnessOK
<1>15. ASSUME InterruptBody PROVE HarnessOK'
  BY <1>15 DEF InterruptBody, Teardown, thread, results, load, memory, HarnessOK
<1>16. ASSUME InterruptTeardown PROVE HarnessOK'
  BY <1>16 DEF InterruptTeardown, thread, results, load, memory, HarnessOK
<1>17. ASSUME pc # "exit", Others PROVE HarnessOK'
  BY <1>17, OthersFrame DEF HarnessOK, thread, results
<1>18. CASE UNCHANGED vars
  BY <1>18 DEF vars, thread, results, load, memory, HarnessOK
<1> QED
  BY <1>1, <1>2, <1>3, <1>4, <1>5, <1>6, <1>7, <1>8, <1>9, <1>10, <1>11, <1>12, <1>13, <1>14,
    <1>15, <1>16, <1>17, <1>18 DEF Next, Harness, Ended

\* Each step keeps the types of the session and the final report.
LEMMA SessionStep ==
  ASSUME IInv, [Next]_vars
  PROVE  SessionOK'
<1> USE BenchAssumption DEF IInv, TypeOK
<1>1. ASSUME Popen PROVE SessionOK'
  BY <1>1 DEF Popen, Goto, SessionOK, Printed, thread, load
<1>2. ASSUME ListChild PROVE SessionOK'
  BY <1>2 DEF ListChild, SessionOK, Printed, thread, load
<1>3. ASSUME AwaitWorker PROVE SessionOK'
  BY <1>3 DEF AwaitWorker, SessionOK, Printed, thread, load
<1>4. ASSUME AwaitCoordinator PROVE SessionOK'
  BY <1>4 DEF AwaitCoordinator, SessionOK, Printed, thread, load
<1>5. ASSUME AwaitStreamer PROVE SessionOK'
  BY <1>5 DEF AwaitStreamer, Goto, SessionOK, Printed, thread, load
<1>6. ASSUME FinalFetch PROVE SessionOK'
  BY <1>6 DEF FinalFetch, Goto, SessionOK, Printed, thread, load
<1>7. ASSUME FinalAnswer PROVE SessionOK'
  BY <1>7 DEF FinalAnswer, SessionOK, Printed, thread, load
<1>8. ASSUME FinalFails PROVE SessionOK'
  BY <1>8 DEF FinalFails, SessionOK, Printed, thread, load
<1>9. ASSUME AwaitLoad PROVE SessionOK'
  BY <1>9 DEF AwaitLoad, Goto, Stops, SessionOK, Printed, thread, load
<1>10. ASSUME WriteRow PROVE SessionOK'
  BY <1>10 DEF WriteRow, Teardown, SessionOK, Printed, thread, load
<1>11. ASSUME Fail PROVE SessionOK'
  BY <1>11 DEF Fail, Teardown, SessionOK, Printed, thread, load
<1>12. ASSUME Terminate PROVE SessionOK'
  BY <1>12 DEF Terminate, Stops, SessionOK, Printed, thread, load
<1>13. ASSUME Reap PROVE SessionOK'
  BY <1>13 DEF Reap, SessionOK, Printed, thread, load
<1>14. ASSUME NextConfig PROVE SessionOK'
  BY <1>14 DEF NextConfig, SessionOK, Printed, thread, load
<1>15. ASSUME InterruptBody PROVE SessionOK'
  BY <1>15 DEF InterruptBody, Teardown, SessionOK, Printed, thread, load
<1>16. ASSUME InterruptTeardown PROVE SessionOK'
  BY <1>16 DEF InterruptTeardown, SessionOK, Printed, thread, load
<1>17. ASSUME pc # "exit", Others PROVE SessionOK'
  <2>1. ASSUME Begin PROVE SessionOK'
    BY <2>1 DEF Begin, thread, results, load, memory, SessionOK
  <2>2. ASSUME Ingest PROVE SessionOK'
    BY <2>2 DEF Ingest, thread, results, load, memory, SessionOK
  <2>3. ASSUME NEW p \in Process, ComeUp(p) PROVE SessionOK'
    BY <2>3 DEF ComeUp, thread, results, load, memory, SessionOK
  <2>4. ASSUME NEW p \in Process, Crash(p) PROVE SessionOK'
    BY <2>4 DEF Crash, Stops, thread, results, load, memory, SessionOK
  <2>5. ASSUME NEW p \in Process, Die(p) PROVE SessionOK'
    BY <2>5 DEF Die, thread, results, load, memory, SessionOK
  <2>6. ASSUME NEW i \in Client, Query(i) PROVE SessionOK'
    BY <2>6 DEF Query, thread, results, load, memory, SessionOK
  <2>7. ASSUME NEW i \in Client, Record(i) PROVE SessionOK'
    BY <2>7 DEF Record, thread, results, load, memory, SessionOK
  <2>8. ASSUME NEW r \in {"stop", "hour"}, Report(r) PROVE SessionOK'
    BY <2>8 DEF Report, Stops, thread, results, load, memory, SessionOK
  <2> QED
    BY <1>17, <2>1, <2>2, <2>3, <2>4, <2>5, <2>6, <2>7, <2>8 DEF Others
<1>18. CASE UNCHANGED vars
  BY <1>18 DEF vars, SessionOK
<1> QED
  BY <1>1, <1>2, <1>3, <1>4, <1>5, <1>6, <1>7, <1>8, <1>9, <1>10, <1>11, <1>12, <1>13, <1>14,
    <1>15, <1>16, <1>17, <1>18 DEF Next, Harness, Ended

\* Each step keeps the types of the query load's variables.
LEMMA LoadStep ==
  ASSUME IInv, [Next]_vars
  PROVE  LoadOK'
<1> USE BenchAssumption DEF IInv, TypeOK
<1>1. ASSUME Popen PROVE LoadOK'
  BY <1>1 DEF Popen, Goto, load, memory, LoadOK
<1>2. ASSUME ListChild PROVE LoadOK'
  BY <1>2 DEF ListChild, load, memory, LoadOK
<1>3. ASSUME AwaitWorker PROVE LoadOK'
  BY <1>3 DEF AwaitWorker, load, memory, LoadOK
<1>4. ASSUME AwaitCoordinator PROVE LoadOK'
  BY <1>4 DEF AwaitCoordinator, FreshLog, LoadOK, memory
<1>5. ASSUME AwaitStreamer PROVE LoadOK'
  BY <1>5 DEF AwaitStreamer, Goto, load, memory, LoadOK
<1>6. ASSUME FinalFetch PROVE LoadOK'
  BY <1>6 DEF FinalFetch, Goto, load, memory, LoadOK
<1>7. ASSUME FinalAnswer PROVE LoadOK'
  BY <1>7 DEF FinalAnswer, load, memory, LoadOK
<1>8. ASSUME FinalFails PROVE LoadOK'
  BY <1>8 DEF FinalFails, load, memory, LoadOK
<1>9. ASSUME AwaitLoad PROVE LoadOK'
  BY <1>9 DEF AwaitLoad, Stops, HarnessOK, LoadOK, memory
<1>10. ASSUME WriteRow PROVE LoadOK'
  BY <1>10 DEF WriteRow, Teardown, load, memory, LoadOK
<1>11. ASSUME Fail PROVE LoadOK'
  BY <1>11 DEF Fail, Teardown, load, memory, LoadOK
<1>12. ASSUME Terminate PROVE LoadOK'
  BY <1>12 DEF Terminate, Stops, load, memory, LoadOK
<1>13. ASSUME Reap PROVE LoadOK'
  BY <1>13 DEF Reap, load, memory, LoadOK
<1>14. ASSUME NextConfig PROVE LoadOK'
  BY <1>14 DEF NextConfig, load, memory, LoadOK
<1>15. ASSUME InterruptBody PROVE LoadOK'
  BY <1>15 DEF InterruptBody, Teardown, load, memory, LoadOK
<1>16. ASSUME InterruptTeardown PROVE LoadOK'
  BY <1>16 DEF InterruptTeardown, load, memory, LoadOK
<1>17. ASSUME pc # "exit", Others PROVE LoadOK'
  <2>1. ASSUME Begin PROVE LoadOK'
    BY <2>1 DEF Begin, thread, results, load, memory, LoadOK
  <2>2. ASSUME Ingest PROVE LoadOK'
    BY <2>2 DEF Ingest, thread, results, load, memory, LoadOK
  <2>3. ASSUME NEW p \in Process, ComeUp(p) PROVE LoadOK'
    BY <2>3 DEF ComeUp, LoadOK
  <2>4. ASSUME NEW p \in Process, Crash(p) PROVE LoadOK'
    BY <2>4 DEF Crash, Stops, HarnessOK, LoadOK, memory
  <2>5. ASSUME NEW p \in Process, Die(p) PROVE LoadOK'
    BY <2>5 DEF Die, thread, results, load, memory, LoadOK
  <2>6. ASSUME NEW i \in Client, Query(i) PROVE LoadOK'
    BY <2>6 DEF Query, SessionOK, LoadOK
  <2>7. ASSUME NEW i \in Client, Record(i) PROVE LoadOK'
    BY <2>7 DEF Record, Sample, LoadOK
  <2>8. ASSUME NEW r \in {"stop", "hour"}, Report(r) PROVE LoadOK'
    BY <2>8 DEF Report, Stops, HarnessOK, Picked, LoadOK, memory
  <2> QED
    BY <1>17, <2>1, <2>2, <2>3, <2>4, <2>5, <2>6, <2>7, <2>8 DEF Others
<1>18. CASE UNCHANGED vars
  BY <1>18 DEF vars, load, memory, LoadOK
<1> QED
  BY <1>1, <1>2, <1>3, <1>4, <1>5, <1>6, <1>7, <1>8, <1>9, <1>10, <1>11, <1>12, <1>13, <1>14,
    <1>15, <1>16, <1>17, <1>18 DEF Next, Harness, Ended

\* Each step keeps the types of the results.
LEMMA RowsStep ==
  ASSUME IInv, [Next]_vars
  PROVE  RowsOK'
<1> USE BenchAssumption DEF IInv, TypeOK
<1>1. ASSUME Popen PROVE RowsOK'
  BY <1>1 DEF Popen, Goto, results, RowsOK
<1>2. ASSUME ListChild PROVE RowsOK'
  BY <1>2 DEF ListChild, results, RowsOK
<1>3. ASSUME AwaitWorker PROVE RowsOK'
  BY <1>3 DEF AwaitWorker, results, RowsOK
<1>4. ASSUME AwaitCoordinator PROVE RowsOK'
  BY <1>4 DEF AwaitCoordinator, results, RowsOK
<1>5. ASSUME AwaitStreamer PROVE RowsOK'
  BY <1>5 DEF AwaitStreamer, Goto, results, RowsOK
<1>6. ASSUME FinalFetch PROVE RowsOK'
  BY <1>6 DEF FinalFetch, Goto, results, RowsOK
<1>7. ASSUME FinalAnswer PROVE RowsOK'
  BY <1>7 DEF FinalAnswer, results, RowsOK
<1>8. ASSUME FinalFails PROVE RowsOK'
  BY <1>8 DEF FinalFails, HarnessOK, RowsOK
<1>9. ASSUME AwaitLoad PROVE RowsOK'
  BY <1>9 DEF AwaitLoad, Goto, Stops, results, RowsOK
<1>10. ASSUME WriteRow PROVE RowsOK'
  <2> DEFINE R == [conf : Config, report : Printed, load : {"", "active", "all"},
                    usage : BOOLEAN]
  <2>1. PICK usage \in {FALSE, Serving} :
          /\ rows' = Append(rows, Row(usage))
          /\ broken' = IF Serving /\ ~usage THEN broken \union {conf} ELSE broken
    BY <1>10 DEF WriteRow
  <2>2. Row(usage) \in R
    BY <2>1 DEF Row, Serving, HarnessOK, LoadOK, SessionOK
  <2>3. rows \in Seq(R)
    BY DEF RowsOK
  <2>4. rows' \in Seq(R)
    <3> HIDE DEF R
    <3> QED
      BY <2>1, <2>2, <2>3, AppendProperties
  <2>5. broken' \subseteq Config
    BY <2>1 DEF HarnessOK, RowsOK
  <2>6. UNCHANGED <<interrupted, crashed, cut, orphan>>
    BY <1>10 DEF WriteRow
  <2> QED
    BY <2>4, <2>5, <2>6 DEF RowsOK
<1>11. ASSUME Fail PROVE RowsOK'
  BY <1>11 DEF Fail, Teardown, results, RowsOK
<1>12. ASSUME Terminate PROVE RowsOK'
  BY <1>12 DEF Terminate, Stops, results, RowsOK
<1>13. ASSUME Reap PROVE RowsOK'
  BY <1>13 DEF Reap, results, RowsOK
<1>14. ASSUME NextConfig PROVE RowsOK'
  BY <1>14 DEF NextConfig, results, RowsOK
<1>15. ASSUME InterruptBody PROVE RowsOK'
  BY <1>15 DEF InterruptBody, HarnessOK, RowsOK
<1>16. ASSUME InterruptTeardown PROVE RowsOK'
  BY <1>16 DEF InterruptTeardown, RowsOK
<1>17. ASSUME pc # "exit", Others PROVE RowsOK'
  <2>1. crashed' \in Seq(Config)
    <3>1. crashed \in Seq(Config) /\ conf \in Config
      BY DEF HarnessOK, RowsOK
    <3>2. Append(crashed, conf) \in Seq(Config)
      BY <3>1, AppendProperties
    <3> QED
      BY <1>17, <3>1, <3>2, OthersFrame
  <2> QED
    BY <1>17, <2>1, OthersFrame DEF RowsOK, results
<1>18. CASE UNCHANGED vars
  BY <1>18 DEF vars, results, RowsOK
<1> QED
  BY <1>1, <1>2, <1>3, <1>4, <1>5, <1>6, <1>7, <1>8, <1>9, <1>10, <1>11, <1>12, <1>13, <1>14,
    <1>15, <1>16, <1>17, <1>18 DEF Next, Harness, Ended

\* Each step keeps what runs listed: teardown takes a process off the list only
\* when it is dead or has been sent SIGKILL.
LEMMA OwnedStep ==
  ASSUME IInv, TypeOK', [Next]_vars
  PROVE  Owned'
<1>a. /\ conf \in Int /\ conf \in Config /\ child \in Process /\ listed \in Seq(Process)
      /\ proc \in [Process -> {"none", "starting", "up", "term", "killed", "dead"}]
      /\ This(Load) \in Process
  <2>1. /\ conf \in Config /\ child \in Process /\ listed \in Seq(Process)
        /\ proc \in [Process -> {"none", "starting", "up", "term", "killed", "dead"}]
    BY DEF IInv, TypeOK, HarnessOK
  <2>2. conf \in Int
    BY <2>1, BenchAssumption DEF Config
  <2>3. This(Load) \in Process
    BY <2>1, ThisProcess
  <2> QED
    BY <2>1, <2>2, <2>3
<1>b. Owned /\ (orphan # {} => interrupted /\ pc \in {"kill", "wait", "exit"})
  BY DEF IInv, TornDown
<1>c. \A i \in DOMAIN listed : listed[i] \in Process /\ listed[i] \in Range(listed)
  BY <1>a DEF Range
<1>1. ASSUME Popen PROVE Owned'
  <2>1. UNCHANGED <<conf, child, listed, orphan>> /\ pc = "spawn" /\ pc' = "append"
    BY <1>1 DEF Popen, Goto, results
  <2>2. proc'[child] = "starting" /\ \A p \in Process \ {child} : proc'[p] = proc[p]
    BY <1>a, <1>1 DEF Popen
  <2>3. \A p \in Range(listed) : p \in Process
    BY <1>a DEF Range
  <2> QED
    BY <1>a, <1>b, <2>1, <2>2, <2>3 DEF Owned, Alive
<1>2. ASSUME ListChild PROVE Owned'
  <2>1. Range(listed') = Range(listed) \union {child}
    BY <1>a, <1>2, AppendRange DEF ListChild
  <2>2. child'[1] = conf
    BY <1>2, <1>b DEF ListChild, Owned, This
  <2>3. pc = "append" /\ pc' # "append" /\ UNCHANGED <<conf, proc, orphan>>
    BY <1>2 DEF ListChild, results
  <2> QED
    BY <1>b, <2>1, <2>2, <2>3 DEF Owned, Alive
<1>3. ASSUME AwaitWorker PROVE Owned'
  <2>1. UNCHANGED <<conf, listed, proc, orphan>> /\ pc = "workers" /\ pc' \in {"workers", "spawn"}
    BY <1>3 DEF AwaitWorker, results
  <2>2. child'[1] = conf
    BY <1>3, <1>b DEF AwaitWorker, Owned, This
  <2> QED
    BY <1>b, <2>1, <2>2 DEF Owned, Alive
<1>4. ASSUME AwaitCoordinator PROVE Owned'
  <2>1. UNCHANGED <<conf, listed, proc, orphan>> /\ pc = "coord" /\ pc' \in {"spawn", "stream"}
    BY <1>4 DEF AwaitCoordinator, results
  <2>2. child'[1] = conf
    BY <1>4, <1>b DEF AwaitCoordinator, Owned, This
  <2> QED
    BY <1>b, <2>1, <2>2 DEF Owned, Alive
<1>5. ASSUME AwaitStreamer PROVE Owned'
  BY <1>b, <1>5 DEF AwaitStreamer, Goto, results, Owned, Alive
<1>6. ASSUME FinalFetch PROVE Owned'
  BY <1>a, <1>b, <1>6 DEF FinalFetch, Goto, results, Owned, Alive
<1>7. ASSUME FinalAnswer PROVE Owned'
  BY <1>a, <1>b, <1>7 DEF FinalAnswer, results, Owned, Alive
<1>8. ASSUME FinalFails PROVE Owned'
  BY <1>a, <1>b, <1>8 DEF FinalFails, results, Owned, Alive
<1>9. ASSUME AwaitLoad PROVE Owned'
  <2>1. \A p \in Process : proc'[p] = proc[p] \/ (proc'[p] = "term" /\ Alive(p))
    BY <1>a, <1>9 DEF AwaitLoad, LoadTimeout, LoadUp, Stops, Alive
  <2>2. UNCHANGED <<conf, child, listed, orphan>> /\ pc = "load" /\ pc' = "row"
    BY <1>9 DEF AwaitLoad, Goto, results
  <2>3. \A p \in Range(listed) : p \in Process
    BY <1>a DEF Range
  <2> QED
    BY <1>b, <2>1, <2>2, <2>3 DEF Owned, Alive
<1>10. ASSUME WriteRow PROVE Owned'
  BY <1>a, <1>b, <1>10 DEF WriteRow, Teardown, results, Owned, Alive
<1>11. ASSUME Fail PROVE Owned'
  BY <1>a, <1>b, <1>11 DEF Fail, Teardown, results, Owned, Alive
<1>12. ASSUME Terminate PROVE Owned'
  <2>1. \A p \in Process : proc'[p] = proc[p] \/ (proc'[p] = "term" /\ Alive(p))
    BY <1>a, <1>12 DEF Terminate, Stops
  <2>2. UNCHANGED <<conf, child, listed, orphan>> /\ pc = "kill" /\ pc' \in {"kill", "wait"}
    BY <1>12 DEF Terminate, results
  <2>3. \A p \in Range(listed) : p \in Process
    BY <1>a DEF Range
  <2> QED
    BY <1>b, <2>1, <2>2, <2>3 DEF Owned, Alive
<1>13. ASSUME Reap PROVE Owned'
  <2>1. Range(listed) = {Head(listed)} \union Range(Tail(listed)) /\ Head(listed) \in Process
    BY <1>a, <1>13, TailRange DEF Reap
  <2>2. \A p \in Process \ {Head(listed)} : proc'[p] = proc[p]
    BY <1>a, <1>13 DEF Reap
  <2>3. proc'[Head(listed)] \in {"dead", "killed"} /\ Head(listed)[1] = conf
    BY <1>a, <1>b, <1>13, <2>1 DEF Reap, Owned
  <2>4. /\ UNCHANGED <<conf, pc, child, orphan>> /\ pc = "wait"
        /\ Range(listed') = Range(Tail(listed))
    BY <1>13 DEF Reap, results
  <2>5. \A p \in Range(listed) : p \in Process
    BY <1>a DEF Range
  <2>6. \A p \in Range(listed') : p[1] = conf /\ proc'[p] # "none"
    BY <1>b, <2>1, <2>2, <2>3, <2>4, <2>5 DEF Owned
  <2>7. ASSUME NEW p \in Process, Alive(p)'
        PROVE  p[1] = conf /\ (p \in Range(listed') \/ p \in orphan \/ proc'[p] = "killed")
    BY <1>b, <2>1, <2>2, <2>3, <2>4, <2>7 DEF Owned, Alive
  <2>8. \A p \in Process : p[1] > conf => proc'[p] = "none"
    <3>1. ~(conf > conf)
      BY <1>a
    <3> QED
      BY <1>b, <2>2, <2>3, <3>1 DEF Owned
  <2> QED
    BY <1>b, <2>4, <2>6, <2>7, <2>8 DEF Owned
<1>14. ASSUME NextConfig PROVE Owned'
  <2>1. proc' = proc /\ Range(listed) = {} /\ Range(listed') = {} /\ orphan' = orphan
    <3>1. listed = <<>> /\ listed' = <<>> /\ proc' = proc /\ orphan' = orphan
      BY <1>14 DEF NextConfig, results
    <3>2. Range(<<>>) = {}
      BY DEF Range
    <3> QED
      BY <3>1, <3>2, Zenon
  <2>2. \A p \in Process : Alive(p) => p[1] = conf /\ p \in orphan
    BY <1>b, <1>14, <2>1 DEF NextConfig, Slept, Owned
  <2>3. CASE UNCHANGED <<conf, child>> /\ pc' = "exit"
    BY <1>b, <2>1, <2>2, <2>3 DEF Owned, Alive
  <2>4. CASE conf' = conf + 1 /\ pc' = "spawn" /\ child' = <<conf + 1, 0>> /\ ~interrupted
    <3>1. \A p \in Process : ~Alive(p)
      BY <1>b, <2>2, <2>4
    <3>2. \A p \in Process : p[1] \in Int
      <4>1. Config \subseteq Int
        BY BenchAssumption DEF Config
      <4> QED
        BY <4>1 DEF Process
    <3>3. \A p \in Process : p[1] > conf' => p[1] > conf
      BY <1>a, <2>4, <3>2
    <3>4. child'[1] = conf'
      BY <2>4
    <3> QED
      BY <1>b, <2>1, <2>4, <3>1, <3>3, <3>4 DEF Owned, Alive
  <2> QED
    BY <1>14, <2>3, <2>4 DEF NextConfig
<1>15. ASSUME InterruptBody PROVE Owned'
  <2>1. UNCHANGED <<conf, child, listed, proc>> /\ pc' = "kill"
    BY <1>15 DEF InterruptBody, Teardown
  <2>2. /\ pc \notin {"wait", "exit"} /\ (pc = "append" => child \in orphan')
        /\ orphan \subseteq orphan'
    BY <1>15, <1>b DEF InterruptBody
  <2> QED
    BY <1>b, <2>1, <2>2 DEF Owned, Alive
<1>16. ASSUME InterruptTeardown PROVE Owned'
  BY <1>a, <1>b, <1>16 DEF InterruptTeardown, results, Owned, Alive
<1>17. ASSUME pc # "exit", Others PROVE Owned'
  <2>1. UNCHANGED <<conf, pc, child, listed, orphan>>
    BY <1>17, OthersFrame DEF thread, results
  <2>2. \A p \in Process : \/ proc'[p] = proc[p]
                           \/ proc[p] = "starting" /\ proc'[p] = "up"
                           \/ Alive(p) /\ proc'[p] = "dead"
    BY <1>17, OthersFrame
  <2>3. \A p \in Range(listed) : p \in Process
    BY <1>a DEF Range
  <2> QED
    BY <1>a, <1>b, <2>1, <2>2, <2>3 DEF Owned, Alive
<1>18. CASE UNCHANGED vars
  <2>1. UNCHANGED <<conf, pc, child, listed, proc, orphan>>
    BY <1>18 DEF vars, thread, results
  <2> QED
    BY <1>b, <2>1 DEF Owned, Alive
<1> QED
  BY <1>1, <1>2, <1>3, <1>4, <1>5, <1>6, <1>7, <1>8, <1>9, <1>10, <1>11, <1>12, <1>13, <1>14,
    <1>15, <1>16, <1>17, <1>18 DEF Next, Harness, Ended

\* Each step keeps the order of the teardown: SIGTERM to all that is listed, and
\* then the waiting, unless a Ctrl-C ends it.
LEMMA TornDownStep ==
  ASSUME IInv, TypeOK', [Next]_vars
  PROVE  TornDown'
<1>a. /\ conf \in Int /\ child \in Process /\ listed \in Seq(Process) /\ n \in Nat
      /\ proc \in [Process -> {"none", "starting", "up", "term", "killed", "dead"}]
      /\ This(Load) \in Process
  BY BenchAssumption, ThisProcess DEF IInv, TypeOK, HarnessOK, Config
<1>b. TornDown
  BY DEF IInv
<1>c. \A i \in 1..Len(listed) : listed[i] \in Process /\ listed[i] \in Range(listed)
  BY <1>a DEF Range
<1>d. \A p \in Range(listed) : p \in Process /\ \E i \in 1..Len(listed) : p = listed[i]
  BY <1>a DEF Range
<1>1. ASSUME Popen PROVE TornDown'
  BY <1>b, <1>1 DEF Popen, Goto, results, TornDown, Signalled
<1>2. ASSUME ListChild PROVE TornDown'
  BY <1>b, <1>2 DEF ListChild, results, TornDown, Signalled
<1>3. ASSUME AwaitWorker PROVE TornDown'
  BY <1>b, <1>3 DEF AwaitWorker, results, TornDown, Signalled
<1>4. ASSUME AwaitCoordinator PROVE TornDown'
  BY <1>b, <1>4 DEF AwaitCoordinator, results, TornDown, Signalled
<1>5. ASSUME AwaitStreamer PROVE TornDown'
  BY <1>b, <1>5 DEF AwaitStreamer, Goto, results, TornDown, Signalled
<1>6. ASSUME FinalFetch PROVE TornDown'
  BY <1>b, <1>6 DEF FinalFetch, Goto, results, TornDown, Signalled
<1>7. ASSUME FinalAnswer PROVE TornDown'
  BY <1>b, <1>7 DEF FinalAnswer, results, TornDown, Signalled
<1>8. ASSUME FinalFails PROVE TornDown'
  BY <1>b, <1>8 DEF FinalFails, results, TornDown, Signalled
<1>9. ASSUME AwaitLoad PROVE TornDown'
  BY <1>b, <1>9 DEF AwaitLoad, Goto, Stops, results, TornDown, Signalled
<1>10. ASSUME WriteRow PROVE TornDown'
  <2>1. pc = "row" /\ pc' = "kill" /\ n' = 0 /\ UNCHANGED <<listed, cut, orphan, interrupted>>
    BY <1>10 DEF WriteRow, Teardown
  <2>2. 0 <= Len(listed)
    BY <1>a
  <2> QED
    BY <1>b, <2>1, <2>2 DEF TornDown
<1>11. ASSUME Fail PROVE TornDown'
  <2>1. /\ pc \notin {"kill", "wait", "exit"} /\ pc' = "kill" /\ n' = 0
        /\ UNCHANGED <<listed, cut, orphan, interrupted>>
    BY <1>11 DEF Fail, Teardown
  <2>2. 0 <= Len(listed)
    BY <1>a
  <2> QED
    BY <1>b, <2>1, <2>2 DEF TornDown
<1>12. ASSUME Terminate PROVE TornDown'
  <2>1. CASE n = Len(listed) /\ pc' = "wait" /\ n' = 0 /\ UNCHANGED proc
    <3>1. pc = "kill" /\ UNCHANGED <<listed, cut, orphan, interrupted>>
      BY <1>12 DEF Terminate, results
    <3>2. \A p \in Range(listed) : Signalled(p)
      BY <1>b, <1>d, <2>1, <3>1 DEF TornDown
    <3> QED
      BY <1>b, <2>1, <3>1, <3>2 DEF TornDown, Signalled
  <2>2. CASE n # Len(listed) /\ n' = n + 1 /\ pc' = pc
    <3>1. pc = "kill" /\ UNCHANGED <<listed, cut, orphan, interrupted>>
      BY <1>12 DEF Terminate, results
    <3>2. \A p \in Process : proc'[p] = proc[p] \/ proc'[p] = "term"
      BY <1>a, <1>12 DEF Terminate, Stops
    <3>3. n <= Len(listed) /\ Len(listed) \in Nat /\ \A i \in 1..n : Signalled(listed[i])
      BY <1>a, <1>b, <3>1 DEF TornDown
    <3>4. n + 1 \in 1..Len(listed) /\ \A i \in 1..(n + 1) : i \in 1..n \/ i = n + 1
      BY <1>a, <2>2, <3>3
    <3>5. proc'[listed[n + 1]] \in {"term", "killed", "dead"}
      <4>1. listed[n + 1] \in Process /\ proc[listed[n + 1]] # "none"
        BY <1>c, <3>4 DEF IInv, Owned
      <4>2. CASE Alive(listed[n + 1])
        BY <1>a, <1>12, <2>2, <4>1, <4>2 DEF Terminate, Stops
      <4>3. CASE ~Alive(listed[n + 1])
        BY <1>a, <1>12, <2>2, <4>1, <4>3 DEF Terminate, Alive
      <4> QED
        BY <4>2, <4>3
    <3>6. \A i \in 1..n : proc'[listed[i]] \in {"term", "killed", "dead"}
      <4>1. \A i \in 1..n : i \in 1..Len(listed)
        BY <1>a, <3>3
      <4> QED
        BY <1>c, <3>2, <3>3, <4>1 DEF Signalled
    <3>7. n' <= Len(listed') /\ \A i \in 1..n' : Signalled(listed[i])'
      <4>1. \A i \in 1..(n + 1) : proc'[listed[i]] \in {"term", "killed", "dead"}
        BY <3>4, <3>5, <3>6
      <4>2. n' = n + 1 /\ listed' = listed
        BY <2>2, <3>1
      <4>3. n' <= Len(listed')
        BY <1>a, <3>4, <4>2
      <4>4. \A i \in 1..n' : Signalled(listed[i])'
        BY <4>1, <4>2 DEF Signalled
      <4> QED
        BY <4>3, <4>4
    <3> QED
      BY <1>b, <2>2, <3>1, <3>7 DEF TornDown
  <2> QED
    BY <1>12, <2>1, <2>2 DEF Terminate
<1>13. ASSUME Reap PROVE TornDown'
  <2>1. /\ Range(listed) = {Head(listed)} \union Range(Tail(listed))
        /\ Head(listed) \in Process
    BY <1>a, <1>13, TailRange DEF Reap
  <2>2. /\ pc = "wait" /\ UNCHANGED <<pc, cut, orphan, interrupted>>
        /\ Range(listed') \subseteq Range(listed)
    BY <1>13, <2>1 DEF Reap, results
  <2>3. \A p \in Process : proc'[p] = proc[p] \/ proc'[p] = "killed"
    BY <1>a, <1>13 DEF Reap
  <2>4. \A p \in Range(listed') : Signalled(p)'
    BY <1>b, <1>d, <2>2, <2>3 DEF TornDown, Signalled
  <2> QED
    BY <1>b, <2>2, <2>4 DEF TornDown
<1>14. ASSUME NextConfig PROVE TornDown'
  <2>1. /\ pc = "wait" /\ listed = <<>> /\ Slept /\ pc' \in {"exit", "spawn"}
        /\ (pc' = "exit" \/ ~interrupted)
        /\ UNCHANGED <<listed, proc, cut, orphan, interrupted>>
    BY <1>14 DEF NextConfig, results
  <2>2. Range(listed') = {}
    <3>1. Range(<<>>) = {}
      BY DEF Range
    <3> QED
      BY <2>1, <3>1, Zenon
  <2> QED
    BY <1>b, <2>1, <2>2 DEF TornDown, Slept
<1>15. ASSUME InterruptBody PROVE TornDown'
  <2>1. /\ pc \notin {"wait", "exit"} /\ pc' = "kill" /\ n' = 0 /\ interrupted'
        /\ UNCHANGED <<listed, cut>>
    BY <1>15 DEF InterruptBody, Teardown
  <2>2. 0 <= Len(listed)
    BY <1>a
  <2> QED
    BY <1>b, <2>1, <2>2 DEF TornDown
<1>16. ASSUME InterruptTeardown PROVE TornDown'
  <2>1. /\ pc \in {"kill", "wait"} /\ pc' = "exit" /\ interrupted' /\ cut' = pc
        /\ UNCHANGED <<listed, proc, orphan>>
    BY <1>16 DEF InterruptTeardown
  <2> QED
    BY <1>b, <2>1 DEF TornDown, Signalled
<1>17. ASSUME pc # "exit", Others PROVE TornDown'
  <2>1. UNCHANGED <<conf, pc, n, listed, interrupted, cut, orphan>>
    BY <1>17, OthersFrame DEF thread, results
  <2>2. \A p \in Process : Signalled(p) => Signalled(p)'
    BY <1>17, OthersFrame DEF Signalled
  <2>3. \A i \in 1..n : pc = "kill" => listed[i] \in Process
    <3>1. pc = "kill" => n <= Len(listed)
      BY <1>b DEF TornDown
    <3>2. \A i \in 1..n : pc = "kill" => i \in 1..Len(listed)
      BY <1>a, <3>1
    <3> QED
      BY <1>c, <3>2
  <2>4. pc # "exit"
    BY <1>17
  <2> QED
    BY <1>b, <1>d, <2>1, <2>2, <2>3, <2>4 DEF TornDown, Signalled
<1>18. CASE UNCHANGED vars
  <2>1. UNCHANGED <<conf, pc, n, listed, proc, interrupted, cut, orphan>>
    BY <1>18 DEF vars, thread, results
  <2> QED
    BY <1>b, <2>1 DEF TornDown, Signalled
<1> QED
  BY <1>1, <1>2, <1>3, <1>4, <1>5, <1>6, <1>7, <1>8, <1>9, <1>10, <1>11, <1>12, <1>13, <1>14,
    <1>15, <1>16, <1>17, <1>18 DEF Next, Harness, Ended

\* The first state is in the invariant.
LEMMA InitInv ==
  ASSUME Init
  PROVE  IInv
<1>1. /\ conf = 1 /\ pc = "spawn" /\ n = 0
      /\ session = "idle" /\ folded = 0 /\ samples = {} /\ seen_active = FALSE /\ stop = FALSE
      /\ log = "" /\ interrupted = FALSE /\ broken = {} /\ cut = "no" /\ orphan = {}
      /\ child = <<1, 0>>
  BY DEF Init
<1>0. /\ listed \in Seq(Process) /\ Range(listed) = {} /\ crashed \in Seq(Config)
      /\ fin \in Printed
      /\ rows \in Seq([conf : Config, report : Printed, load : {"", "active", "all"},
                       usage : BOOLEAN])
  <2>1. listed = <<>> /\ crashed = <<>> /\ fin = <<>> /\ rows = <<>>
    BY DEF Init
  <2>2. Range(<<>>) = {}
    BY DEF Range
  <2> QED
    BY <2>1, <2>2, EmptySeq, Zenon DEF Printed
<1>2. /\ \A p \in Process : proc[p] = "none"
      /\ proc \in [Process -> {"none", "starting", "up", "term", "killed", "dead"}]
  <2>1. proc = [p \in Process |-> "none"]
    BY DEF Init
  <2> QED
    BY <2>1
<1>3. /\ client \in [Client -> {"off", "ask", "got", "dead"}]
      /\ answer \in [Client -> {"idle", "active", "complete"}]
      /\ how \in [Config -> {"none", "stop", "hour", "term", "crash"}]
  <2>1. /\ client = [i \in Client |-> "off"] /\ answer = [i \in Client |-> "idle"]
        /\ how = [c \in Config |-> "none"]
    BY DEF Init
  <2> QED
    BY <2>1
<1>4. conf \in Config
  <2>1. Config = 1..Len(Configs) /\ Len(Configs) \in Nat \ {0}
    BY BenchAssumption, EmptySeq DEF Config
  <2>2. conf = 1
    BY <1>1, Zenon
  <2> QED
    BY <2>1, <2>2
<1>5. HarnessOK
  <2>1. child \in Process
    <3>1. Configs[1].workers \in Nat \ {0} /\ 1 \in Config
      BY <1>1, <1>4, ThisProcess
    <3>2. 0 \in Role
      BY <3>1 DEF Role
    <3> QED
      BY <1>1, <3>1, <3>2 DEF Process
  <2> QED
    BY <1>0, <1>1, <1>2, <1>4, <2>1 DEF HarnessOK
<1>6. LoadOK
  BY <1>1, <1>3 DEF LoadOK
<1>9. SessionOK
  <2>1. folded = 0
    BY <1>1, Zenon
  <2>2. folded \in 0..Batches
    BY <2>1, BenchAssumption
  <2> QED
    BY <1>0, <1>1, <2>2 DEF SessionOK
<1>7. RowsOK
  BY <1>0, <1>1 DEF RowsOK
<1>8. Owned /\ TornDown
  BY <1>0, <1>1, <1>2 DEF Owned, TornDown, Alive
<1> QED
  BY <1>5, <1>6, <1>7, <1>8, <1>9 DEF IInv, TypeOK

\* Each step keeps it.
LEMMA StepInv ==
  ASSUME IInv, [Next]_vars
  PROVE  IInv'
<1>1. TypeOK'
  BY HarnessStep, SessionStep, LoadStep, RowsStep DEF TypeOK
<1> QED
  BY <1>1, OwnedStep, TornDownStep DEF IInv

\* The inductive invariant: what runs belongs to the configuration at hand, and is
\* on the launcher's list or on its way there, unless Ctrl-C kept it from the list;
\* the list is emptied only by sending SIGKILL to whatever does not die of SIGTERM.
THEOREM Invariance == Spec => []IInv
<1>1. Init => IInv
  BY InitInv
<1>2. IInv /\ [Next]_vars => IInv'
  BY StepInv
<1> QED
  BY <1>1, <1>2, PTL DEF Spec

\* Every variable of the harness has its type.
THEOREM TypeCorrect == Spec => []TypeOK
<1>1. IInv => TypeOK
  BY DEF IInv
<1> QED
  BY <1>1, Invariance, PTL

\* No process of an earlier configuration runs beside those of a later one.  When
\* the program has ended none is left, whatever died or hung, unless Ctrl-C came
\* between the start of a process and its place on the list, or in the teardown;
\* and what one in its waits leaves has been sent its signal.
THEOREM NoneLeft == Spec => []NoLeftOver
<1>1. IInv => NoLeftOver
  <2> SUFFICES ASSUME IInv, NEW p \in Process, Alive(p)
               PROVE  /\ p[1] = conf
                      /\ pc = "exit" => \/ p \in orphan
                                        \/ cut = "kill"
                                        \/ cut = "wait" /\ Signalled(p)
    BY DEF NoLeftOver
  <2>1. Owned /\ TornDown /\ cut \in {"no", "kill", "wait"}
    BY DEF IInv, TypeOK, RowsOK
  <2>2. p[1] = conf
    BY <2>1 DEF Owned
  <2>3. ASSUME pc = "exit", p \notin orphan
        PROVE  p \in Range(listed) \/ proc[p] = "killed"
    BY <2>1, <2>3 DEF Owned
  <2>4. ASSUME pc = "exit", p \notin orphan, cut = "no" PROVE FALSE
    <3>1. listed = <<>> /\ proc[p] # "killed"
      BY <2>1, <2>4 DEF TornDown
    <3>2. Range(<<>>) = {}
      BY DEF Range
    <3> QED
      BY <2>3, <2>4, <3>1, <3>2, Zenon
  <2>5. ASSUME pc = "exit", p \notin orphan, cut = "wait" PROVE Signalled(p)
    BY <2>1, <2>3, <2>5 DEF TornDown, Signalled
  <2> QED
    BY <2>1, <2>2, <2>4, <2>5
<1> QED
  BY <1>1, Invariance, PTL

-----------------------------------------------------------------------------
(***************************************************************************)
(* What a row says.                                                        *)
(***************************************************************************)

\* What is known of the roles in every state: the load is no server.
LEMMA Roles ==
  ASSUME IInv
  PROVE  /\ conf \in Config /\ conf \in Int /\ Configs[conf].workers \in Nat \ {0}
         /\ Configs[conf].queries \in Nat
         /\ This(Load) \in Process /\ This(Coord) \in Process /\ This(Load) # This(Coord)
         /\ \A i \in 0..(Configs[conf].workers - 1) :
              This(i) \in Process /\ This(i) # This(Load) /\ This(i) # This(Coord)
         /\ Workers \in Seq(Process)
         /\ Range(Workers) = {This(i) : i \in 0..(Configs[conf].workers - 1)}
         /\ proc \in [Process -> {"none", "starting", "up", "term", "killed", "dead"}]
         /\ how \in [Config -> {"none", "stop", "hour", "term", "crash"}]
         /\ crashed \in Seq(Config)
<1>1. conf \in Config /\ conf \in Int
  BY BenchAssumption DEF IInv, TypeOK, HarnessOK, Config
<1>2. \A i \in Int : i >= 0 => This(i) # This(Load) /\ This(i) # This(Coord)
  BY DEF This, Load, Coord
<1>3. This(Load) # This(Coord)
  BY DEF This, Load, Coord
<1>4. Range(Workers) = {This(i) : i \in 0..(Configs[conf].workers - 1)}
  <2>1. Configs[conf].workers \in Nat \ {0}
    BY <1>1, ThisProcess
  <2> DEFINE w == Configs[conf].workers
  <2>2. DOMAIN Workers = 1..w /\ \A i \in 1..w : Workers[i] = This(i - 1)
    BY DEF Workers
  <2> HIDE DEF w
  <2>3. \A i \in 0..(w - 1) : i + 1 \in 1..w /\ (i + 1) - 1 = i
    BY <2>1 DEF w
  <2>4. \A i \in 1..w : i - 1 \in 0..(w - 1)
    BY <2>1 DEF w
  <2>5. Range(Workers) = {This(i) : i \in 0..(w - 1)}
    BY <2>2, <2>3, <2>4 DEF Range
  <2> QED
    BY <2>5 DEF w
<1>5. /\ Configs[conf].workers \in Nat \ {0} /\ Configs[conf].queries \in Nat
      /\ This(Coord) \in Process /\ This(Load) \in Process /\ Workers \in Seq(Process)
      /\ \A i \in 0..(Configs[conf].workers - 1) : This(i) \in Process
  BY <1>1, ThisProcess
<1>6. \A i \in 0..(Configs[conf].workers - 1) : This(i) # This(Load) /\ This(i) # This(Coord)
  BY <1>2, <1>5
<1>7. /\ proc \in [Process -> {"none", "starting", "up", "term", "killed", "dead"}]
      /\ how \in [Config -> {"none", "stop", "hour", "term", "crash"}]
      /\ crashed \in Seq(Config)
  BY DEF IInv, TypeOK, HarnessOK, LoadOK, RowsOK
<1> QED
  BY <1>1, <1>3, <1>4, <1>5, <1>6, <1>7

\* A death is remembered, and those before it stay so.
LEMMA CrashRemembered ==
  ASSUME IInv, crashed' = Append(crashed, conf)
  PROVE  conf \in Range(crashed') /\ Range(crashed) \subseteq Range(crashed')
<1>1. crashed \in Seq(Config) /\ conf \in Config /\ crashed' = Append(crashed, conf)
  BY Roles
<1> QED
  BY <1>1, AppendProperties DEF Range

\* Every step keeps what is known of the load.
LEMMA LoadedStep ==
  ASSUME IInv, Loaded, [Next]_vars
  PROVE  Loaded'
<1>a. /\ conf \in Config /\ conf \in Int /\ This(Load) \in Process
      /\ This(Load) # This(Coord) /\ This(Coord) \in Process
      /\ Configs[conf].queries \in Nat /\ child \in Process
      /\ proc \in [Process -> {"none", "starting", "up", "term", "killed", "dead"}]
      /\ how \in [Config -> {"none", "stop", "hour", "term", "crash"}]
  BY Roles DEF IInv, TypeOK, HarnessOK
<1>b. Loaded
  OBVIOUS
<1>c. conf' = conf =>
        This(Load)' = This(Load) /\ This(Coord)' = This(Coord) /\ Queries' = Queries
  BY DEF This, Queries
<1>1. ASSUME Popen PROVE Loaded'
  <2>1. /\ UNCHANGED <<conf, child, how, samples, seen_active, stop, log>>
        /\ pc = "spawn" /\ pc' = "append"
    BY <1>1 DEF Popen, Goto, load
  <2>2. CASE child = This(Load)
    <3>1. proc'[This(Load)] = "starting"
      BY <1>a, <1>1, <2>2 DEF Popen
    <3>2. Queries > 0 /\ Queries # 0
      <4>1. Queries > 0
        BY <2>1, <2>2 DEF Loaded
      <4> QED
        BY <1>a, <4>1 DEF Queries
    <3>3. log = "" /\ how[conf] = "none"
      BY <2>1, <2>2 DEF Loaded, LoadToCome
    <3>4. ~LoadToCome'
      BY <1>c, <2>1, <2>2, <3>2 DEF LoadToCome
    <3> QED
      BY <1>c, <2>1, <2>2, <3>1, <3>2, <3>3, <3>4 DEF Loaded
  <2>3. CASE child # This(Load)
    <3>1. proc'[This(Load)] = proc[This(Load)]
      BY <1>a, <1>1, <2>3 DEF Popen
    <3> QED
      BY <1>a, <1>c, <2>1, <2>3, <3>1 DEF Loaded, LoadToCome, LoadThere
  <2> QED
    BY <2>2, <2>3
<1>2. ASSUME ListChild PROVE Loaded'
  <2>1. UNCHANGED <<conf, proc, how, samples, seen_active, stop, log>> /\ pc = "append"
    BY <1>2 DEF ListChild, load
  <2>2. CASE child = This(Load)
    <3>1. pc' = "stream" /\ child' = child
      BY <1>2, <2>2 DEF ListChild, This, Coord, Load
    <3> QED
      BY <1>a, <1>c, <2>1, <2>2, <3>1 DEF Loaded, LoadToCome, LoadThere
  <2>3. CASE child # This(Load)
    <3>1. child[1] = conf /\ child[2] \in Role
      BY <1>a DEF IInv, Owned, Process
    <3>2. child = <<child[1], child[2]>>
      BY <1>a DEF Process
    <3>3. child[2] # Load
      BY <2>3, <3>1, <3>2 DEF This
    <3>4. pc' \in {"coord", "spawn", "workers"} /\ child' # This(Load)
      <4>1. CASE child[2] = Coord
        BY <1>2, <2>3, <4>1 DEF ListChild, Coord, Load
      <4>2. CASE child[2] # Coord
        <5>1. child[2] \in Nat /\ child[2] + 1 # Load
          BY <3>1, <3>3, <4>2 DEF Role, Load
        <5>2. This(child[2] + 1) # This(Load)
          BY <5>1 DEF This
        <5> QED
          BY <1>2, <2>3, <3>3, <4>2, <5>2 DEF ListChild
      <4> QED
        BY <4>1, <4>2
    <3> QED
      BY <1>a, <1>c, <2>1, <2>3, <3>4 DEF Loaded, LoadToCome, LoadThere
  <2> QED
    BY <2>2, <2>3
<1>3. ASSUME AwaitWorker PROVE Loaded'
  <2>1. /\ UNCHANGED <<conf, proc, how, samples, seen_active, stop, log>>
        /\ pc = "workers" /\ pc' \in {"workers", "spawn"}
        /\ pc' = "spawn" => child' = This(Coord)
    BY <1>3 DEF AwaitWorker, load
  <2> QED
    BY <1>a, <1>c, <2>1 DEF Loaded, LoadToCome, LoadThere
<1>4. ASSUME AwaitCoordinator PROVE Loaded'
  <2>1. /\ UNCHANGED <<conf, proc, how, samples, seen_active, stop>> /\ pc = "coord"
        /\ proc[This(Load)] = "none"
    BY <1>4 DEF AwaitCoordinator, memory, Loaded, LoadToCome
  <2>2. CASE Queries > 0
    <3>1. pc' = "spawn" /\ child' = This(Load) /\ log' = ""
      BY <1>4, <2>2 DEF AwaitCoordinator, FreshLog
    <3> QED
      BY <1>a, <1>c, <2>1, <2>2, <3>1 DEF Loaded, LoadToCome, LoadThere
  <2>3. CASE ~(Queries > 0)
    <3>1. pc' = "stream" /\ child' = child /\ log' = log
      BY <1>4, <2>3 DEF AwaitCoordinator
    <3>2. Queries = 0
      BY <1>a, <2>3 DEF Queries
    <3> QED
      BY <1>a, <1>c, <2>1, <3>1, <3>2 DEF Loaded, LoadToCome, LoadThere
  <2> QED
    BY <2>2, <2>3
<1>5. ASSUME AwaitStreamer PROVE Loaded'
  <2>1. UNCHANGED <<conf, child, proc, how, samples, seen_active, stop, log>>
    BY <1>5 DEF AwaitStreamer, Goto, load
  <2> QED
    BY <1>a, <1>c, <2>1, <1>5 DEF AwaitStreamer, Goto, Loaded, LoadToCome, LoadThere
<1>6. ASSUME FinalFetch PROVE Loaded'
  <2>1. UNCHANGED <<conf, child, proc, how, samples, seen_active, stop, log>>
    BY <1>6 DEF FinalFetch, Goto, load
  <2> QED
    BY <1>a, <1>c, <2>1, <1>6 DEF FinalFetch, Goto, Loaded, LoadToCome, LoadThere
<1>7. ASSUME FinalAnswer PROVE Loaded'
  <2>1. UNCHANGED <<conf, child, proc, how, samples, seen_active, stop, log>>
    BY <1>7 DEF FinalAnswer, load
  <2> QED
    BY <1>a, <1>c, <2>1, <1>7 DEF FinalAnswer, Loaded, LoadToCome, LoadThere
<1>8. ASSUME FinalFails PROVE Loaded'
  <2>1. UNCHANGED <<conf, child, proc, how, samples, seen_active, stop, log>>
    BY <1>8 DEF FinalFails, load
  <2> QED
    BY <1>a, <1>c, <2>1, <1>8 DEF FinalFails, Loaded, LoadToCome, LoadThere
<1>9. ASSUME AwaitLoad PROVE Loaded'
  <2>1. UNCHANGED <<conf, child, log>> /\ pc = "load" /\ pc' = "row"
    BY <1>9 DEF AwaitLoad, Goto
  <2>2. CASE UNCHANGED <<proc, memory, how>>
    <3>1. UNCHANGED <<proc, how, samples, seen_active, stop>>
      BY <2>2 DEF memory
    <3> QED
      BY <1>a, <1>c, <2>1, <3>1 DEF Loaded, LoadToCome, LoadThere
  <2>3. CASE /\ Stops(This(Load), "term") /\ how' = [how EXCEPT ![conf] = "term"]
             /\ LoadTimeout
    <3>1. /\ proc'[This(Load)] = "term" /\ how'[conf] = "term"
          /\ \A c \in Config : c > conf => how'[c] = how[c]
          /\ ~stop' /\ ~seen_active'
      BY <1>a, <2>3 DEF Stops
    <3>2. log = "" /\ proc[This(Load)] # "none"
      BY <2>3 DEF LoadTimeout, LoadUp, Loaded
    <3> QED
      BY <1>a, <1>c, <2>1, <3>1, <3>2 DEF Loaded, LoadToCome, LoadThere
  <2> QED
    BY <1>9, <2>2, <2>3 DEF AwaitLoad
<1>10. ASSUME WriteRow PROVE Loaded'
  <2>1. UNCHANGED <<conf, child, proc, how, samples, seen_active, stop, log>>
    BY <1>10 DEF WriteRow, load
  <2> QED
    BY <1>a, <1>c, <2>1, <1>10 DEF WriteRow, Teardown, Loaded, LoadToCome, LoadThere
<1>11. ASSUME Fail PROVE Loaded'
  <2>1. UNCHANGED <<conf, child, proc, how, samples, seen_active, stop, log>>
    BY <1>11 DEF Fail, load
  <2> QED
    BY <1>a, <1>c, <2>1, <1>11 DEF Fail, Teardown, Loaded, LoadToCome, LoadThere
<1>12. ASSUME Terminate PROVE Loaded'
  <2>1. UNCHANGED <<conf, child, how, log>> /\ pc = "kill" /\ pc' \in {"kill", "wait"}
    BY <1>12 DEF Terminate
  <2>2. \/ proc'[This(Load)] = proc[This(Load)] /\ UNCHANGED <<samples, seen_active, stop>>
        \/ /\ Alive(This(Load)) /\ proc'[This(Load)] = "term"
           /\ ~stop' /\ ~seen_active'
    BY <1>a, <1>12 DEF Terminate, Stops, memory
  <2>3. LoadToCome' => LoadToCome \/ Queries = 0
    BY <1>c, <2>1 DEF LoadToCome
  <2>4. ~LoadThere' /\ pc' \notin {"spawn", "append"}
    BY <2>1 DEF LoadThere
  <2>5. CASE proc'[This(Load)] = proc[This(Load)] /\ UNCHANGED <<samples, seen_active, stop>>
    BY <1>c, <2>1, <2>3, <2>4, <2>5 DEF Loaded, LoadToCome
  <2>6. CASE /\ Alive(This(Load)) /\ proc'[This(Load)] = "term"
             /\ ~stop' /\ ~seen_active'
    <3>1. proc[This(Load)] # "none" /\ ~LoadToCome
      BY <2>6 DEF Alive, Loaded
    <3>2. Queries # 0
      BY <3>1 DEF LoadToCome
    <3> QED
      BY <1>c, <2>1, <2>3, <2>4, <2>6, <3>1, <3>2 DEF Loaded
  <2> QED
    BY <2>2, <2>5, <2>6
<1>13. ASSUME Reap PROVE Loaded'
  <2>1. UNCHANGED <<conf, pc, child, how, samples, seen_active, stop, log>> /\ pc = "wait"
    BY <1>13 DEF Reap, load
  <2>2. Head(listed) \in Range(listed)
    BY <1>13, TailRange DEF Reap, IInv, TypeOK, HarnessOK
  <2>3. Signalled(Head(listed))
    BY <2>1, <2>2 DEF IInv, TornDown
  <2>4. \/ proc'[This(Load)] = proc[This(Load)]
        \/ Signalled(This(Load)) /\ proc'[This(Load)] = "killed"
    BY <1>a, <1>13, <2>3 DEF Reap
  <2> QED
    BY <1>a, <1>c, <2>1, <2>4 DEF Loaded, LoadToCome, LoadThere, Signalled
<1>14. ASSUME NextConfig PROVE Loaded'
  <2>1. UNCHANGED <<proc, how, samples, seen_active, stop, log>> /\ pc = "wait"
    BY <1>14 DEF NextConfig, load
  <2>2. CASE UNCHANGED <<conf, child>> /\ pc' = "exit"
    BY <1>a, <1>c, <2>1, <2>2 DEF Loaded, LoadToCome, LoadThere
  <2>3. CASE /\ conf' = conf + 1 /\ pc' = "spawn" /\ child' = <<conf + 1, 0>>
             /\ ~interrupted /\ conf # Len(Configs)
    <3>1. conf' \in Config /\ conf' > conf
      BY <1>a, <2>3, BenchAssumption DEF Config
    <3>2. <<conf', Load>> \in Process /\ <<conf', Load>>[1] = conf'
      BY <3>1 DEF Process, Role
    <3>3. proc'[<<conf', Load>>] = "none" /\ how[conf'] = "none"
      BY <2>1, <3>1, <3>2 DEF IInv, Owned, Loaded
    <3>4. This(Load)' = <<conf', Load>> /\ child' # This(Load)'
      BY <2>3 DEF This, Load
    <3>5. \A c \in Config : c > conf' => c > conf
      <4>1. Config \subseteq Int
        BY BenchAssumption DEF Config
      <4> QED
        BY <1>a, <3>1, <4>1
    <3>6. ~stop /\ ~seen_active
      <4>1. listed = <<>> /\ Slept /\ orphan = {}
        BY <1>14, <2>3 DEF NextConfig, IInv, TornDown
      <4>2. Range(<<>>) = {}
        BY DEF Range
      <4>3. Range(listed) = {}
        BY <4>1, <4>2, Zenon
      <4>4. ~Alive(This(Load))
        BY <1>a, <2>1, <4>1, <4>3 DEF IInv, Owned, Slept
      <4> QED
        BY <4>4 DEF Alive, Loaded
    <3> QED
      BY <2>1, <2>3, <3>1, <3>3, <3>4, <3>5, <3>6 DEF Loaded, LoadToCome, LoadThere
  <2> QED
    BY <1>14, <2>2, <2>3 DEF NextConfig
<1>15. ASSUME InterruptBody PROVE Loaded'
  <2>1. UNCHANGED <<conf, child, proc, how, samples, seen_active, stop, log>>
    BY <1>15 DEF InterruptBody, load
  <2> QED
    BY <1>a, <1>c, <2>1, <1>15 DEF InterruptBody, Teardown, Loaded, LoadToCome, LoadThere
<1>16. ASSUME InterruptTeardown PROVE Loaded'
  <2>1. UNCHANGED <<conf, child, proc, how, samples, seen_active, stop, log>>
    BY <1>16 DEF InterruptTeardown, load
  <2> QED
    BY <1>a, <1>c, <2>1, <1>16 DEF InterruptTeardown, Loaded, LoadToCome, LoadThere
<1>17. ASSUME pc # "exit", Others PROVE Loaded'
  <2>1. ASSUME Begin PROVE Loaded'
    BY <1>a, <2>1 DEF Begin, thread, Loaded, LoadToCome, LoadThere, This, Queries, load
  <2>2. ASSUME Ingest PROVE Loaded'
    BY <1>a, <2>2 DEF Ingest, thread, Loaded, LoadToCome, LoadThere, This, Queries, load
  <2>3. ASSUME NEW p \in Process, ComeUp(p) PROVE Loaded'
    BY <1>a, <2>3 DEF ComeUp, thread, Loaded, LoadToCome, LoadThere, This, Queries, load
  <2>4. ASSUME NEW p \in Process, Crash(p) PROVE Loaded'
    <3>1. CASE p = This(Load)
      <4>1. /\ proc'[This(Load)] = "dead" /\ how'[conf] = "crash"
            /\ \A c \in Config : c > conf => how'[c] = how[c]
            /\ ~stop' /\ ~seen_active' /\ log' = log
        BY <1>a, <2>4, <3>1 DEF Crash, Stops
      <4>2. log = "" /\ proc[This(Load)] # "none"
        BY <2>4, <3>1 DEF Loaded, Crash
      <4>3. UNCHANGED <<conf, pc, child>>
        BY <2>4 DEF Crash, thread
      <4> QED
        BY <1>a, <1>c, <4>1, <4>2, <4>3 DEF Loaded, LoadToCome, LoadThere
    <3>2. CASE p # This(Load)
      <4>1. /\ proc'[This(Load)] = proc[This(Load)] /\ how' = how
            /\ UNCHANGED <<samples, seen_active, stop, log, conf, pc, child>>
        BY <1>a, <2>4, <3>2 DEF Crash, Stops, memory, thread
      <4> QED
        BY <1>a, <1>c, <4>1 DEF Loaded, LoadToCome, LoadThere
    <3> QED
      BY <3>1, <3>2
  <2>5. ASSUME NEW p \in Process, Die(p) PROVE Loaded'
    BY <1>a, <2>5 DEF Die, thread, Loaded, LoadToCome, LoadThere, This, Queries, load
  <2>6. ASSUME NEW i \in Client, Query(i) PROVE Loaded'
    BY <1>a, <2>6 DEF Query, thread, Loaded, LoadToCome, LoadThere, This, Queries, load
  <2>7. ASSUME NEW i \in Client, Record(i) PROVE Loaded'
    <3>1. seen_active' => "active" \in samples'
      BY <1>a, <2>7 DEF Record, Sample, Loaded
    <3>2. stop' => seen_active'
      BY <1>a, <2>7 DEF Record, Enough, Loaded
    <3>3. UNCHANGED <<conf, pc, child, proc, log, how>> /\ proc[This(Load)] = "up"
      BY <2>7 DEF Record, thread, LoadUp
    <3> QED
      BY <1>a, <1>c, <3>1, <3>2, <3>3 DEF Loaded, LoadToCome, LoadThere
  <2>8. ASSUME NEW r \in {"stop", "hour"}, Report(r) PROVE Loaded'
    <3>1. r = "stop" => "active" \in samples
      BY <1>a, <2>8 DEF Report, Loaded
    <3>2. log' = Picked(samples) /\ (r = "stop" => log' = "active")
      BY <2>8, <3>1 DEF Report, Picked
    <3>3. /\ proc'[This(Load)] = "dead" /\ how'[conf] = r /\ r \notin {"none", "term", "crash"}
          /\ \A c \in Config : c > conf => how'[c] = how[c]
          /\ UNCHANGED <<conf, pc, child>> /\ ~stop' /\ ~seen_active'
          /\ proc[This(Load)] # "none"
      BY <1>a, <2>8 DEF Report, Stops, LoadUp, thread
    <3> QED
      BY <1>a, <1>c, <3>2, <3>3 DEF Loaded, LoadToCome, LoadThere
  <2> QED
    BY <1>17, <2>1, <2>2, <2>3, <2>4, <2>5, <2>6, <2>7, <2>8 DEF Others
<1>18. CASE UNCHANGED vars
  <2>1. UNCHANGED <<conf, pc, child, proc, how, samples, seen_active, stop, log>>
    BY <1>18 DEF vars, thread, load
  <2> QED
    BY <1>a, <1>c, <2>1 DEF Loaded, LoadToCome, LoadThere
<1> QED
  BY <1>1, <1>2, <1>3, <1>4, <1>5, <1>6, <1>7, <1>8, <1>9, <1>10, <1>11, <1>12, <1>13, <1>14,
    <1>15, <1>16, <1>17, <1>18 DEF Next, Harness, Ended

\* Until the harness tears the configuration down, it stays, and a server that was
\* waited for stays up, or its configuration has had a death.
LEMMA UpStays ==
  ASSUME IInv, [Next]_vars, pc \notin {"kill", "wait"},
         NEW p \in Process, p # This(Load), p # child \/ pc # "spawn", Up(p)
  PROVE  conf' = conf /\ Up(p)'
<1>a. /\ This(Load) \in Process /\ child \in Process
      /\ proc \in [Process -> {"none", "starting", "up", "term", "killed", "dead"}]
  BY Roles DEF IInv, TypeOK, HarnessOK
<1>1. ASSUME Popen PROVE conf' = conf /\ Up(p)'
  BY <1>a, <1>1 DEF Popen, Goto, Up
<1>2. ASSUME ListChild PROVE conf' = conf /\ Up(p)'
  BY <1>a, <1>2 DEF ListChild, Up
<1>3. ASSUME AwaitWorker PROVE conf' = conf /\ Up(p)'
  BY <1>a, <1>3 DEF AwaitWorker, Up
<1>4. ASSUME AwaitCoordinator PROVE conf' = conf /\ Up(p)'
  BY <1>a, <1>4 DEF AwaitCoordinator, Up
<1>5. ASSUME AwaitStreamer PROVE conf' = conf /\ Up(p)'
  BY <1>a, <1>5 DEF AwaitStreamer, Goto, Up
<1>6. ASSUME FinalFetch PROVE conf' = conf /\ Up(p)'
  BY <1>a, <1>6 DEF FinalFetch, Goto, Up
<1>7. ASSUME FinalAnswer PROVE conf' = conf /\ Up(p)'
  BY <1>a, <1>7 DEF FinalAnswer, Up
<1>8. ASSUME FinalFails PROVE conf' = conf /\ Up(p)'
  BY <1>a, <1>8 DEF FinalFails, Up
<1>9. ASSUME AwaitLoad PROVE conf' = conf /\ Up(p)'
  BY <1>a, <1>9 DEF AwaitLoad, Goto, Stops, Up
<1>10. ASSUME WriteRow PROVE conf' = conf /\ Up(p)'
  BY <1>a, <1>10 DEF WriteRow, Teardown, Up
<1>11. ASSUME Fail PROVE conf' = conf /\ Up(p)'
  BY <1>a, <1>11 DEF Fail, Teardown, Up
<1>12. ASSUME Terminate PROVE conf' = conf /\ Up(p)'
  BY <1>12 DEF Terminate
<1>13. ASSUME Reap PROVE conf' = conf /\ Up(p)'
  BY <1>13 DEF Reap
<1>14. ASSUME NextConfig PROVE conf' = conf /\ Up(p)'
  BY <1>14 DEF NextConfig
<1>15. ASSUME InterruptBody PROVE conf' = conf /\ Up(p)'
  BY <1>a, <1>15 DEF InterruptBody, Teardown, Up
<1>16. ASSUME InterruptTeardown PROVE conf' = conf /\ Up(p)'
  BY <1>a, <1>16 DEF InterruptTeardown, Up
<1>17. ASSUME pc # "exit", Others PROVE conf' = conf /\ Up(p)'
  <2>1. conf' = conf
    BY <1>17, OthersFrame DEF thread
  <2>2. CASE crashed' = Append(crashed, conf)
    BY <2>1, <2>2, CrashRemembered DEF Up
  <2>3. CASE crashed' = crashed
    <3>1. proc[p] = "up" => proc'[p] = "up" \/ crashed' = Append(crashed, conf)
      BY <1>17, OthersFrame
    <3> QED
      BY <2>1, <2>2, <2>3, <3>1 DEF Up
  <2> QED
    BY <1>17, <2>2, <2>3, OthersFrame
<1>18. CASE UNCHANGED vars
  BY <1>a, <1>18 DEF vars, thread, Up
<1> QED
  BY <1>1, <1>2, <1>3, <1>4, <1>5, <1>6, <1>7, <1>8, <1>9, <1>10, <1>11, <1>12, <1>13, <1>14,
    <1>15, <1>16, <1>17, <1>18 DEF Next, Harness, Ended

\* Every step keeps what is known of the servers and of the final report.
LEMMA ServedStep ==
  ASSUME IInv, Served, [Next]_vars
  PROVE  Served'
<1> DEFINE w == Configs[conf].workers
<1>a. /\ conf \in Config /\ conf \in Int /\ w \in Nat \ {0} /\ n \in Nat /\ Batches \in Nat
      /\ This(Coord) \in Process /\ This(Coord) # This(Load)
      /\ \A i \in 0..(w - 1) : This(i) \in Process /\ This(i) # This(Load) /\ This(i) # This(Coord)
      /\ Range(Workers) = {This(i) : i \in 0..(w - 1)}
      /\ folded \in 0..Batches
  BY Roles, BenchAssumption DEF IInv, TypeOK, HarnessOK, SessionOK
<1>b. pc \notin {"kill", "wait"} =>
        /\ \A i \in 0..(w - 1) :
             Up(This(i)) /\ (pc = "spawn" => child # This(i)) => Up(This(i))'
        /\ Up(This(Coord)) /\ (pc = "spawn" => child # This(Coord)) => Up(This(Coord))'
  <2> SUFFICES ASSUME pc \notin {"kill", "wait"}, NEW r \in {Coord} \union 0..(w - 1),
                      Up(This(r)), pc = "spawn" => child # This(r)
               PROVE  Up(This(r))'
    OBVIOUS
  <2>1. PICK p \in Process : p = This(r) /\ p # This(Load)
    BY <1>a
  <2>2. conf' = conf /\ Up(p)'
    BY <2>1, UpStays
  <2> QED
    BY <2>1, <2>2 DEF Up, This
<1>c. child = This(child[2])
  <2>1. child \in Process /\ child[1] = conf
    BY DEF IInv, TypeOK, HarnessOK, Owned
  <2> QED
    BY <2>1 DEF Process, This
<1>1. ASSUME Popen PROVE Served'
  <2>1. UNCHANGED <<conf, n, child, session, folded, fin>> /\ pc = "spawn" /\ pc' = "append"
    BY <1>1 DEF Popen, Goto
  <2>2. /\ WorkersDone' => \A i \in 0..(w - 1) : Up(This(i))'
        /\ CoordDone' => Up(This(Coord))'
    BY <1>a, <1>b, <2>1 DEF WorkersDone, CoordDone, Served, This
  <2> QED
    BY <2>1, <2>2 DEF Served
<1>2. ASSUME ListChild PROVE Served'
  <2>0. /\ UNCHANGED <<conf, n, session, folded, fin>> /\ pc = "append" /\ n = 0
        /\ child[2] \in {Coord, Load} \union 0..(w - 1) /\ child = This(child[2])
    BY <1>2, <1>c DEF ListChild, Served
  <2>1. CASE child[2] = Coord
    <3>1. pc' = "coord" /\ WorkersDone
      <4>1. child = This(Coord)
        BY <2>0, <2>1, Zenon
      <4>2. WorkersDone
        BY <2>0, <4>1 DEF WorkersDone
      <4>3. pc' = "coord"
        BY <1>2, <2>1 DEF ListChild, Coord, Load
      <4> QED
        BY <4>2, <4>3
    <3>2. \A i \in 0..(w - 1) : Up(This(i))'
      BY <1>b, <2>0, <3>1 DEF Served
    <3> QED
      BY <2>0, <3>1, <3>2 DEF Served, CoordDone
  <2>2. CASE child[2] = Load
    <3>1. pc' = "stream" /\ WorkersDone /\ CoordDone
      BY <1>2, <2>0, <2>2 DEF ListChild, WorkersDone, CoordDone, Coord, Load
    <3>2. Up(This(Coord))' /\ \A i \in 0..(w - 1) : Up(This(i))'
      BY <1>b, <2>0, <3>1 DEF Served
    <3> QED
      BY <2>0, <3>1, <3>2 DEF Served
  <2>3. CASE child[2] \in 0..(w - 1)
    <3>0. child[2] # Coord /\ child[2] # Load /\ child[2] + 1 # Coord /\ child[2] + 1 # Load
      BY <1>a, <2>3 DEF Coord, Load
    <3>1. CASE child[2] + 1 < w
      <4>1. pc' = "spawn" /\ child' = This(child[2] + 1)
        BY <1>2, <3>0, <3>1 DEF ListChild
      <4>2. child'[2] \in 0..(w - 1)
        BY <1>a, <2>3, <3>1, <4>1 DEF This
      <4>3. ~WorkersDone' /\ ~CoordDone'
        <5>1. child'[2] \notin {Coord, Load}
          BY <3>0, <4>1 DEF This
        <5> QED
          BY <4>1, <5>1 DEF WorkersDone, CoordDone, This
      <4> QED
        BY <2>0, <4>1, <4>2, <4>3 DEF Served
    <3>2. CASE ~(child[2] + 1 < w)
      <4>1. pc' = "workers"
        BY <1>2, <3>0, <3>2 DEF ListChild
      <4>2. n' < w /\ \A i \in 0..(n' - 1) : Up(This(i))'
        BY <1>a, <2>0
      <4> QED
        BY <2>0, <4>1, <4>2 DEF Served, WorkersDone, CoordDone
    <3> QED
      BY <3>1, <3>2
  <2> QED
    BY <2>0, <2>1, <2>2, <2>3
<1>3. ASSUME AwaitWorker PROVE Served'
  <2>0. /\ pc = "workers" /\ proc[This(n)] = "up" /\ n < w /\ conf' = conf
        /\ \A i \in 0..(n - 1) : Up(This(i))
        /\ UNCHANGED <<session, folded, fin>>
    BY <1>3 DEF AwaitWorker, Served
  <2>1. \A i \in 0..n : i \in 0..(w - 1) /\ Up(This(i))
    BY <1>a, <2>0 DEF Up
  <2>2. \A i \in 0..n : Up(This(i))'
    BY <1>b, <2>0, <2>1
  <2>3. CASE n + 1 < w
    <3>1. pc' = "workers" /\ n' = n + 1
      BY <1>3, <2>0, <2>3 DEF AwaitWorker
    <3> QED
      BY <1>a, <2>0, <2>2, <2>3, <3>1 DEF Served, WorkersDone, CoordDone
  <2>4. CASE ~(n + 1 < w)
    <3>1. pc' = "spawn" /\ n' = 0 /\ child' = This(Coord)
      BY <1>3, <2>4 DEF AwaitWorker
    <3>2. \A i \in 0..(w - 1) : Up(This(i))'
      BY <1>a, <2>0, <2>2, <2>4
    <3>3. child'[2] = Coord /\ ~CoordDone'
      BY <2>0, <3>1 DEF CoordDone, This, Coord, Load
    <3> QED
      BY <1>a, <2>0, <3>1, <3>2, <3>3 DEF Served
  <2> QED
    BY <2>3, <2>4
<1>4. ASSUME AwaitCoordinator PROVE Served'
  <2>0. /\ pc = "coord" /\ proc[This(Coord)] = "up" /\ n = 0
        /\ UNCHANGED <<conf, n, session, folded, fin>>
        /\ \/ pc' = "spawn" /\ child' = This(Load)
           \/ pc' = "stream"
    BY <1>4 DEF AwaitCoordinator, Served
  <2>1. Up(This(Coord))' /\ \A i \in 0..(w - 1) : Up(This(i))'
    BY <1>b, <2>0 DEF Up, Served, WorkersDone
  <2>2. child' = This(Load) => child'[2] = Load
    BY DEF This
  <2> QED
    BY <1>a, <2>0, <2>1, <2>2 DEF Served
<1>5. ASSUME AwaitStreamer PROVE Served'
  <2>0. pc = "stream" /\ pc' = "final" /\ conf' = conf /\ UNCHANGED <<session, folded>>
    BY <1>5 DEF AwaitStreamer, Goto
  <2>1. Up(This(Coord))' /\ \A i \in 0..(w - 1) : Up(This(i))'
    BY <1>b, <2>0 DEF Served, WorkersDone, CoordDone
  <2> QED
    BY <1>a, <2>0, <2>1, <1>5 DEF AwaitStreamer, Goto, Streamed, Served
<1>6. ASSUME FinalFetch PROVE Served'
  <2>0. pc = "final" /\ pc' = "answer" /\ conf' = conf /\ UNCHANGED <<session, folded>>
    BY <1>6 DEF FinalFetch, Goto
  <2>1. Up(This(Coord))' /\ \A i \in 0..(w - 1) : Up(This(i))'
    BY <1>b, <2>0 DEF Served, WorkersDone, CoordDone
  <2> QED
    BY <1>a, <2>0, <2>1, <1>6 DEF FinalFetch, Goto, Served
<1>7. ASSUME FinalAnswer PROVE Served'
  <2>0. pc = "answer" /\ pc' = "load" /\ conf' = conf /\ UNCHANGED <<session, folded>>
    BY <1>7 DEF FinalAnswer, Served
  <2>1. Up(This(Coord))' /\ \A i \in 0..(w - 1) : Up(This(i))'
    BY <1>b, <2>0 DEF Served, WorkersDone, CoordDone
  <2> QED
    BY <1>a, <2>0, <2>1, <1>7 DEF FinalAnswer, Served
<1>8. ASSUME FinalFails PROVE Served'
  <2>0. /\ pc \in {"final", "answer"} /\ conf' = conf /\ fin' = <<>> /\ n \in 1..3
        /\ UNCHANGED <<session, folded, crashed>>
        /\ \/ pc' = "final" /\ n' = n + 1 /\ n < 3
           \/ pc' = "load" /\ ~(n < 3)
    BY <1>8 DEF FinalFails, Served
  <2>1. Up(This(Coord))' /\ \A i \in 0..(w - 1) : Up(This(i))'
    BY <1>b, <2>0 DEF Served, WorkersDone, CoordDone
  <2>2. CASE pc' = "final" /\ n' = n + 1 /\ n < 3
    <3>1. n' \in 1..3
      BY <2>0, <2>2
    <3> QED
      BY <2>0, <2>1, <2>2, <3>1 DEF Served
  <2>3. CASE pc' = "load" /\ ~(n < 3)
    <3>1. n = 3
      BY <2>0, <2>3
    <3>2. Serving => conf \in broken'
      BY <1>8, <3>1 DEF FinalFails
    <3>3. ~Serving => conf \in Range(crashed)
      BY <1>a, <2>0 DEF Serving, Served, WorkersDone, CoordDone, Up
    <3>4. conf \in Range(crashed) \union broken'
      BY <3>2, <3>3
    <3> QED
      BY <2>0, <2>1, <2>3, <3>4 DEF Served
  <2> QED
    BY <2>0, <2>2, <2>3
<1>9. ASSUME AwaitLoad PROVE Served'
  <2>0. pc = "load" /\ pc' = "row" /\ conf' = conf /\ UNCHANGED <<session, folded>>
    BY <1>9 DEF AwaitLoad, Goto, results
  <2>1. Up(This(Coord))' /\ \A i \in 0..(w - 1) : Up(This(i))'
    BY <1>b, <2>0 DEF Served, WorkersDone, CoordDone
  <2> QED
    BY <1>a, <2>0, <2>1, <1>9 DEF AwaitLoad, Goto, results, Served
<1>10. ASSUME WriteRow PROVE Served'
  <2>1. pc' \in {"kill", "wait", "exit"} /\ UNCHANGED <<session, folded>>
    BY <1>10 DEF WriteRow, Teardown
  <2> QED
    BY <2>1 DEF Served, WorkersDone, CoordDone
<1>11. ASSUME Fail PROVE Served'
  <2>1. pc' \in {"kill", "wait", "exit"} /\ UNCHANGED <<session, folded>>
    BY <1>11 DEF Fail, Teardown
  <2> QED
    BY <2>1 DEF Served, WorkersDone, CoordDone
<1>12. ASSUME Terminate PROVE Served'
  <2>1. pc' \in {"kill", "wait", "exit"} /\ UNCHANGED <<session, folded>>
    BY <1>12 DEF Terminate
  <2> QED
    BY <2>1 DEF Served, WorkersDone, CoordDone
<1>13. ASSUME Reap PROVE Served'
  <2>1. pc' \in {"kill", "wait", "exit"} /\ UNCHANGED <<session, folded>>
    BY <1>13 DEF Reap
  <2> QED
    BY <2>1 DEF Served, WorkersDone, CoordDone
<1>14. ASSUME NextConfig PROVE Served'
  <2>1. pc' \in {"exit", "spawn"} /\ n' = 0 /\ session' = "idle"
    BY <1>14 DEF NextConfig
  <2>2. CASE pc' = "exit"
    BY <2>1, <2>2 DEF Served, WorkersDone, CoordDone
  <2>3. CASE pc' = "spawn"
    <3>1. child'[2] = 0
      BY <1>14, <2>3 DEF NextConfig
    <3>2. 0 \in 0..(Configs[conf'].workers - 1)
      <4>1. conf' \in Config
        BY <1>a, <1>14, <2>3, BenchAssumption DEF NextConfig, Config
      <4>2. Configs[conf'] \in [workers : Nat \ {0}, queries : Nat]
        <5>1. conf' \in 1..Len(Configs)
          BY <4>1, BenchAssumption DEF Config
        <5> QED
          BY <5>1, BenchAssumption, ElementOfSeq
      <4> QED
        BY <4>2
    <3>3. ~WorkersDone' /\ ~CoordDone'
      BY <2>3, <3>1 DEF WorkersDone, CoordDone, This, Coord, Load
    <3> QED
      BY <2>1, <2>3, <3>1, <3>2, <3>3 DEF Served
  <2> QED
    BY <2>1, <2>2, <2>3
<1>15. ASSUME InterruptBody PROVE Served'
  <2>1. pc' \in {"kill", "wait", "exit"} /\ UNCHANGED <<session, folded>>
    BY <1>15 DEF InterruptBody, Teardown
  <2> QED
    BY <2>1 DEF Served, WorkersDone, CoordDone
<1>16. ASSUME InterruptTeardown PROVE Served'
  <2>1. pc' \in {"kill", "wait", "exit"} /\ UNCHANGED <<session, folded>>
    BY <1>16 DEF InterruptTeardown
  <2> QED
    BY <2>1 DEF Served, WorkersDone, CoordDone
<1>17. ASSUME pc # "exit", Others PROVE Served'
  <2>1. UNCHANGED <<conf, pc, n, child, fin, broken>>
    BY <1>17, OthersFrame DEF thread, results
  <2>2. Range(crashed) \subseteq Range(crashed')
    BY <1>17, OthersFrame, CrashRemembered
  <2>3. /\ session' = "complete" => folded' = Batches
        /\ session = "complete" => session' = "complete"
    <3>1. CASE UNCHANGED <<session, folded>>
      BY <3>1 DEF Served
    <3>2. CASE Begin
      BY <3>2 DEF Begin
    <3>3. CASE Ingest
      BY <1>a, <3>3 DEF Ingest
    <3> QED
      BY <1>17, <3>1, <3>2, <3>3 DEF Others, ComeUp, Crash, Die, Query, Record, Report
  <2>4. pc \notin {"kill", "wait", "exit"} =>
          /\ WorkersDone' => \A i \in 0..(w - 1) : Up(This(i))'
          /\ CoordDone' => Up(This(Coord))'
          /\ pc = "workers" => n < w /\ \A i \in 0..(n - 1) : Up(This(i))'
    <3>1. (WorkersDone' => WorkersDone) /\ (CoordDone' => CoordDone)
      BY <2>1 DEF WorkersDone, CoordDone, This
    <3>2. ASSUME pc = "workers" PROVE n < w /\ \A i \in 0..(n - 1) : Up(This(i))'
      <4>1. n < w /\ \A i \in 0..(n - 1) : i \in 0..(w - 1) /\ Up(This(i))
        BY <1>a, <3>2 DEF Served
      <4> QED
        BY <1>b, <3>2, <4>1
    <3>3. ASSUME pc \notin {"kill", "wait", "exit"}, WorkersDone, NEW i \in 0..(w - 1)
          PROVE  Up(This(i))'
      <4>1. pc = "spawn" => child # This(i)
        BY <1>a, <3>3 DEF WorkersDone
      <4> QED
        BY <1>b, <3>3, <4>1 DEF Served
    <3>4. ASSUME pc \notin {"kill", "wait", "exit"}, CoordDone PROVE Up(This(Coord))'
      <4>1. pc = "spawn" => child # This(Coord)
        BY <1>a, <3>4 DEF CoordDone
      <4> QED
        BY <1>b, <3>4, <4>1 DEF Served
    <3> QED
      BY <3>1, <3>2, <3>3, <3>4
  <2>5. pc \in {"kill", "wait", "exit"} => ~WorkersDone' /\ ~CoordDone'
    BY <2>1 DEF WorkersDone, CoordDone
  <2> QED
    BY <2>1, <2>2, <2>3, <2>4, <2>5 DEF Served
<1>18. CASE UNCHANGED vars
  <2>1. UNCHANGED <<conf, pc, n, child, proc, crashed, session, folded, fin, broken>>
    BY <1>18 DEF vars, thread, results
  <2>2. (WorkersDone' <=> WorkersDone) /\ (CoordDone' <=> CoordDone)
    BY <2>1 DEF WorkersDone, CoordDone, This
  <2>3. \A i : Up(This(i))' <=> Up(This(i))
    BY <2>1 DEF Up, This
  <2> QED
    BY <2>1, <2>2, <2>3 DEF Served
<1> QED
  BY <1>1, <1>2, <1>3, <1>4, <1>5, <1>6, <1>7, <1>8, <1>9, <1>10, <1>11, <1>12, <1>13, <1>14,
    <1>15, <1>16, <1>17, <1>18 DEF Next, Harness, Ended

\* Every step but NextConfig stays with its configuration; only WriteRow writes
\* a row; no death and no failure is forgotten; and a load is started by Popen.
LEMMA RowFrame ==
  ASSUME IInv, [Next]_vars
  PROVE  /\ conf' = conf \/ NextConfig
         /\ rows' = rows \/ WriteRow
         /\ Range(crashed) \subseteq Range(crashed') /\ broken \subseteq broken'
         /\ \/ proc[This(Load)] \in {"starting", "up"}
            \/ proc'[This(Load)] \notin {"starting", "up"}
            \/ Popen /\ child = This(Load)
         /\ \/ how' = how
            \/ pc = "load" /\ pc' = "row" /\ how' = [how EXCEPT ![conf] = "term"]
            \/ /\ proc[This(Load)] \in {"starting", "up"}
               /\ \E r \in {"crash", "stop", "hour"} : how' = [how EXCEPT ![conf] = r]
<1> DEFINE Goal ==
      /\ conf' = conf \/ NextConfig
      /\ rows' = rows \/ WriteRow
      /\ Range(crashed) \subseteq Range(crashed') /\ broken \subseteq broken'
      /\ \/ proc[This(Load)] \in {"starting", "up"}
         \/ proc'[This(Load)] \notin {"starting", "up"}
         \/ Popen /\ child = This(Load)
      /\ \/ how' = how
         \/ pc = "load" /\ pc' = "row" /\ how' = [how EXCEPT ![conf] = "term"]
         \/ /\ proc[This(Load)] \in {"starting", "up"}
            /\ \E r \in {"crash", "stop", "hour"} : how' = [how EXCEPT ![conf] = r]
<1> SUFFICES Goal
  OBVIOUS
<1>a. /\ conf \in Config /\ This(Load) \in Process /\ child \in Process
      /\ proc \in [Process -> {"none", "starting", "up", "term", "killed", "dead"}]
  BY Roles DEF IInv, TypeOK, HarnessOK
<1>1. ASSUME Popen PROVE Goal
  <2>1. UNCHANGED <<conf, rows, crashed, broken, how>>
    BY <1>1 DEF Popen, results
  <2>2. child # This(Load) => proc'[This(Load)] = proc[This(Load)]
    BY <1>a, <1>1 DEF Popen
  <2> QED
    BY <1>1, <2>1, <2>2
<1>2. ASSUME ListChild PROVE Goal
  BY <1>a, <1>2 DEF ListChild, results
<1>3. ASSUME AwaitWorker PROVE Goal
  BY <1>a, <1>3 DEF AwaitWorker, results
<1>4. ASSUME AwaitCoordinator PROVE Goal
  BY <1>a, <1>4 DEF AwaitCoordinator, results
<1>5. ASSUME AwaitStreamer PROVE Goal
  BY <1>a, <1>5 DEF AwaitStreamer, Goto, results
<1>6. ASSUME FinalFetch PROVE Goal
  BY <1>a, <1>6 DEF FinalFetch, Goto, results
<1>7. ASSUME FinalAnswer PROVE Goal
  BY <1>a, <1>7 DEF FinalAnswer, results
<1>8. ASSUME FinalFails PROVE Goal
  BY <1>a, <1>8 DEF FinalFails, results
<1>9. ASSUME AwaitLoad PROVE Goal
  BY <1>a, <1>9 DEF AwaitLoad, Goto, Stops, results
<1>10. ASSUME WriteRow PROVE Goal
  BY <1>a, <1>10 DEF WriteRow
<1>11. ASSUME Fail PROVE Goal
  BY <1>a, <1>11 DEF Fail, Teardown, results
<1>12. ASSUME Terminate PROVE Goal
  BY <1>a, <1>12 DEF Terminate, Stops, results
<1>13. ASSUME Reap PROVE Goal
  BY <1>a, <1>13 DEF Reap, results
<1>14. ASSUME NextConfig PROVE Goal
  BY <1>a, <1>14 DEF NextConfig, results
<1>15. ASSUME InterruptBody PROVE Goal
  BY <1>a, <1>15 DEF InterruptBody, Teardown, results
<1>16. ASSUME InterruptTeardown PROVE Goal
  BY <1>a, <1>16 DEF InterruptTeardown, results
<1>17. ASSUME pc # "exit", Others PROVE Goal
  <2>1. UNCHANGED <<conf, rows, broken>> /\ Range(crashed) \subseteq Range(crashed')
    BY <1>17, OthersFrame, CrashRemembered DEF thread, results
  <2>2. \/ proc[This(Load)] \in {"starting", "up"}
        \/ proc'[This(Load)] \notin {"starting", "up"}
    BY <1>a, <1>17, OthersFrame
  <2>3. \/ how' = how
        \/ /\ proc[This(Load)] \in {"starting", "up"}
           /\ \E r \in {"crash", "stop", "hour"} : how' = [how EXCEPT ![conf] = r]
    BY <1>17 DEF Others, Begin, Ingest, ComeUp, Crash, Die, Query, Record, Report, LoadUp
  <2> QED
    BY <2>1, <2>2, <2>3
<1>18. CASE UNCHANGED vars
  <2>1. UNCHANGED <<conf, rows, crashed, broken, how, proc>>
    BY <1>18 DEF vars, thread, results
  <2>2. \/ proc[This(Load)] \in {"starting", "up"}
        \/ proc'[This(Load)] \notin {"starting", "up"}
    BY <2>1
  <2> QED
    BY <2>1, <2>2
<1> QED
  BY <1>1, <1>2, <1>3, <1>4, <1>5, <1>6, <1>7, <1>8, <1>9, <1>10, <1>11, <1>12, <1>13, <1>14,
    <1>15, <1>16, <1>17, <1>18 DEF Next, Harness, Ended

\* A row's configuration is one of those tried.
LEMMA RowConf ==
  ASSUME IInv
  PROVE  /\ \A i \in DOMAIN rows : rows[i].conf \in Config /\ rows[i].conf \in Int
         /\ conf \in Int /\ DOMAIN rows = 1..Len(rows) /\ Len(rows) \in Nat
<1> DEFINE R == [conf : Config, report : Printed, load : {"", "active", "all"}, usage : BOOLEAN]
<1>1. rows \in Seq(R)
  BY DEF IInv, TypeOK, RowsOK
<1>2. \A i \in 1..Len(rows) : rows[i] \in R
  BY <1>1, ElementOfSeq
<1>3. Config \subseteq Int /\ conf \in Int
  BY BenchAssumption DEF IInv, TypeOK, HarnessOK, Config
<1>4. \A i \in 1..Len(rows) : rows[i].conf \in Config
  BY <1>2
<1>5. DOMAIN rows = 1..Len(rows) /\ Len(rows) \in Nat
  <2> HIDE DEF R
  <2> QED
    BY <1>1, LenProperties
<1> QED
  BY <1>3, <1>4, <1>5

\* The row that is written comes behind the others, which stay.
LEMMA RowWritten ==
  ASSUME IInv, WriteRow
  PROVE  \E usage \in {FALSE, Serving} :
           /\ DOMAIN rows' = 1..(Len(rows) + 1) /\ rows'[Len(rows) + 1] = Row(usage)
           /\ \A i \in 1..Len(rows) : rows'[i] = rows[i]
           /\ broken' = IF Serving /\ ~usage THEN broken \union {conf} ELSE broken
<1> DEFINE R == [conf : Config, report : Printed, load : {"", "active", "all"}, usage : BOOLEAN]
<1>1. PICK usage \in {FALSE, Serving} :
        /\ rows' = Append(rows, Row(usage))
        /\ broken' = IF Serving /\ ~usage THEN broken \union {conf} ELSE broken
  BY DEF WriteRow
<1>2. Row(usage) \in R
  BY <1>1 DEF Row, Serving, IInv, TypeOK, HarnessOK, LoadOK, SessionOK
<1>3. rows \in Seq(R)
  BY DEF IInv, TypeOK, RowsOK
<1>4. /\ DOMAIN rows' = 1..(Len(rows) + 1) /\ rows'[Len(rows) + 1] = Row(usage)
      /\ \A i \in 1..Len(rows) : rows'[i] = rows[i]
  <2> HIDE DEF R
  <2> QED
    BY <1>1, <1>2, <1>3, AppendProperties
<1> QED
  BY <1>1, <1>4

\* Every step keeps the rows behind the configuration.
LEMMA RowedStep ==
  ASSUME IInv, Loaded, Rowed, [Next]_vars
  PROVE  Rowed'
<1>a. /\ conf \in Config /\ This(Load) \in Process /\ Configs[conf].queries \in Nat
      /\ proc \in [Process -> {"none", "starting", "up", "term", "killed", "dead"}]
  BY Roles
<1>b. /\ \A i \in DOMAIN rows : rows[i].conf \in Int
      /\ conf \in Int /\ DOMAIN rows = 1..Len(rows) /\ Len(rows) \in Nat
  BY RowConf
<1>1. CASE WriteRow
  <2>1. /\ pc = "row" /\ pc' = "kill" /\ conf' = conf /\ proc' = proc
        /\ \A usage \in {FALSE, Serving} : Row(usage).conf = conf
    BY <1>1 DEF WriteRow, Teardown, Row
  <2>2. \A i \in DOMAIN rows' : rows'[i].conf = conf \/ rows'[i].conf < conf
    <3>1. /\ DOMAIN rows' = 1..(Len(rows) + 1) /\ rows'[Len(rows) + 1].conf = conf
          /\ \A i \in 1..Len(rows) : rows'[i] = rows[i]
      BY <1>1, <2>1, RowWritten
    <3>2. \A i \in DOMAIN rows' : i = Len(rows) + 1 \/ i \in 1..Len(rows)
      BY <1>b, <3>1
    <3> QED
      BY <1>b, <3>1, <3>2 DEF Rowed
  <2>3. proc[This(Load)] \notin {"starting", "up"}
    BY <2>1 DEF Rowed
  <2> QED
    BY <2>1, <2>2, <2>3 DEF Rowed, This
<1>2. CASE NextConfig
  <2>1. rows' = rows /\ proc' = proc /\ pc = "wait"
    BY <1>2 DEF NextConfig, results
  <2>2. CASE conf' = conf /\ pc' = "exit"
    BY <2>1, <2>2 DEF Rowed, This
  <2>3. CASE conf' = conf + 1 /\ pc' = "spawn"
    <3>1. \A i \in DOMAIN rows' : rows'[i].conf < conf' /\ rows'[i].conf # conf'
      BY <1>b, <2>1, <2>3 DEF Rowed
    <3> QED
      BY <2>3, <3>1 DEF Rowed
  <2> QED
    BY <1>2, <2>2, <2>3 DEF NextConfig
<1>3. CASE rows' = rows /\ conf' = conf
  <2>0. Others => UNCHANGED pc
    BY OthersFrame DEF thread
  <2>1. ASSUME pc \in {"kill", "wait", "exit"} PROVE pc' \in {"kill", "wait", "exit"}
    <3>1. CASE Terminate \/ Reap \/ NextConfig
      BY <1>3, <1>b, <3>1 DEF Terminate, Reap, NextConfig
    <3>2. Harness => Terminate \/ Reap \/ NextConfig
      BY <2>1 DEF Harness, Popen, ListChild, AwaitWorker, AwaitCoordinator, AwaitStreamer,
             FinalFetch, FinalAnswer, FinalFails, AwaitLoad, WriteRow, Fail, Goto
    <3>3. InterruptBody \/ InterruptTeardown => pc' \in {"kill", "exit"}
      BY DEF InterruptBody, InterruptTeardown, Teardown
    <3>4. UNCHANGED vars => pc' = pc
      BY DEF vars, thread
    <3> QED
      BY <2>0, <2>1, <3>1, <3>2, <3>3, <3>4 DEF Next, Ended
  <2>2. \A i \in DOMAIN rows' :
          rows'[i].conf < conf' \/ (rows'[i].conf = conf' /\ pc' \in {"kill", "wait", "exit"})
    BY <1>3, <2>1 DEF Rowed
  <2>3. ASSUME \E i \in DOMAIN rows : rows[i].conf = conf
        PROVE  proc'[This(Load)] \notin {"starting", "up"}
    <3>1. proc[This(Load)] \notin {"starting", "up"} /\ pc \in {"kill", "wait", "exit"}
      BY <1>b, <2>3 DEF Rowed
    <3>2. ~Popen
      BY <3>1 DEF Popen, Goto
    <3> QED
      BY <3>1, <3>2, RowFrame
  <2>4. ASSUME pc' = "row"
        PROVE  proc'[This(Load)] \notin {"starting", "up"}
    <3>1. CASE AwaitLoad
      <4>1. Queries = 0 => proc[This(Load)] = "none"
        BY DEF Loaded, LoadToCome
      <4> QED
        BY <1>a, <3>1, <4>1 DEF AwaitLoad, Stops
    <3>2. CASE ~AwaitLoad
      <4>1. pc = "row"
        <5>1. Harness => pc' = pc
          BY <2>4, <3>2 DEF Harness, Popen, ListChild, AwaitWorker, AwaitCoordinator,
               AwaitStreamer, FinalFetch, FinalAnswer, FinalFails, WriteRow, Fail, Terminate,
               Reap, NextConfig, Goto, Teardown
        <5>2. ~InterruptBody /\ ~InterruptTeardown
          BY <2>4 DEF InterruptBody, InterruptTeardown, Teardown
        <5>3. UNCHANGED vars => pc' = pc
          BY DEF vars, thread
        <5> QED
          BY <2>0, <2>4, <5>1, <5>2, <5>3 DEF Next, Ended
      <4>2. ~Popen /\ proc[This(Load)] \notin {"starting", "up"}
        BY <4>1 DEF Popen, Goto, Rowed
      <4> QED
        BY <4>2, RowFrame
    <3> QED
      BY <3>1, <3>2
  <2> QED
    BY <1>3, <2>2, <2>3, <2>4 DEF Rowed, This
<1> QED
  BY <1>1, <1>2, <1>3, RowFrame

\* Every step keeps the reasons for a mismatch.
LEMMA MismatchStep ==
  ASSUME IInv, Served, Rowed, MismatchIsFailure, [Next]_vars
  PROVE  MismatchIsFailure'
<1>a. /\ DOMAIN rows = 1..Len(rows) /\ Len(rows) \in Nat
      /\ Range(crashed) \subseteq Range(crashed') /\ broken \subseteq broken'
  BY RowConf, RowFrame
<1>1. CASE rows' = rows
  BY <1>1, <1>a DEF MismatchIsFailure
<1>2. CASE WriteRow
  <2>1. pc = "row" /\ crashed' = crashed
    BY <1>2 DEF WriteRow
  <2>2. PICK usage \in {FALSE, Serving} :
          /\ DOMAIN rows' = 1..(Len(rows) + 1) /\ rows'[Len(rows) + 1] = Row(usage)
          /\ \A i \in 1..Len(rows) : rows'[i] = rows[i]
          /\ broken' = IF Serving /\ ~usage THEN broken \union {conf} ELSE broken
    BY <1>2, RowWritten
  <2>3. Row(usage).conf = conf /\ Row(usage).report = fin /\ Row(usage).usage = usage
    BY DEF Row
  <2>4. fin = <<Batches>> \/ (fin = <<>> /\ conf \in Range(crashed) \union broken)
    BY <2>1 DEF Served
  <2>5. ~usage => conf \in Range(crashed) \union broken'
    <3>1. Serving \/ conf \in Range(crashed)
      BY <2>1, Roles DEF Served, WorkersDone, CoordDone, Serving, Up
    <3> QED
      BY <2>2, <3>1
  <2>6. <<Batches>> # <<>>
    OBVIOUS
  <2>7. /\ Row(usage).report \in {<<Batches>>, <<>>}
        /\ Row(usage).report = <<>> \/ ~Row(usage).usage =>
             Row(usage).conf \in Range(crashed') \union broken'
    BY <1>a, <2>1, <2>3, <2>4, <2>5, <2>6
  <2>8. ASSUME NEW i \in DOMAIN rows'
        PROVE  /\ rows'[i].report \in {<<Batches>>, <<>>}
               /\ rows'[i].report = <<>> \/ ~rows'[i].usage =>
                    rows'[i].conf \in Range(crashed') \union broken'
    <3>1. CASE i = Len(rows) + 1
      BY <2>2, <2>7, <3>1
    <3>2. CASE i \in 1..Len(rows)
      <4>1. rows'[i] = rows[i] /\ i \in DOMAIN rows
        BY <1>a, <2>2, <3>2
      <4> QED
        BY <1>a, <4>1 DEF MismatchIsFailure
    <3> QED
      BY <1>a, <2>2, <3>1, <3>2
  <2> QED
    BY <2>8 DEF MismatchIsFailure
<1> QED
  BY <1>1, <1>2, RowFrame

\* Every step keeps the figures of the loads: that of a row has ended.
LEMMA FiguresStep ==
  ASSUME IInv, Loaded, Rowed, LoadFigures, [Next]_vars
  PROVE  LoadFigures'
<1>a. /\ DOMAIN rows = 1..Len(rows) /\ Len(rows) \in Nat /\ conf \in Config
      /\ how \in [Config -> {"none", "stop", "hour", "term", "crash"}]
      /\ Configs[conf].queries \in Nat
  BY RowConf, Roles
<1>1. ASSUME NEW i \in 1..Len(rows) PROVE how'[rows[i].conf] = how[rows[i].conf]
  <2>1. CASE how' = how
    BY <2>1
  <2>2. CASE pc = "load" /\ how' = [how EXCEPT ![conf] = "term"]
    <3>1. rows[i].conf # conf
      BY <1>a, <2>2, RowConf DEF Rowed
    <3> QED
      BY <1>a, <2>2, <3>1, RowConf
  <2>3. CASE /\ proc[This(Load)] \in {"starting", "up"}
             /\ \E r \in {"crash", "stop", "hour"} : how' = [how EXCEPT ![conf] = r]
    <3>1. rows[i].conf # conf
      BY <1>a, <2>3 DEF Rowed
    <3> QED
      BY <1>a, <2>3, <3>1, RowConf
  <2> QED
    BY <2>1, <2>2, <2>3, RowFrame
<1>2. CASE rows' = rows
  BY <1>1, <1>2, <1>a DEF LoadFigures
<1>3. CASE WriteRow
  <2>1. pc = "row" /\ how' = how
    BY <1>3 DEF WriteRow
  <2>0. PICK usage \in {FALSE, Serving} :
          /\ DOMAIN rows' = 1..(Len(rows) + 1) /\ rows'[Len(rows) + 1] = Row(usage)
          /\ \A i \in 1..Len(rows) : rows'[i] = rows[i]
    BY <1>3, RowWritten
  <2>2. /\ how[Row(usage).conf] = "stop" => Row(usage).load = "active"
        /\ how[Row(usage).conf] \in {"none", "term", "crash"} => Row(usage).load = ""
    <3>1. CASE Queries > 0
      <4>1. proc[This(Load)] # "none" /\ Row(usage).load = log /\ Row(usage).conf = conf
        BY <2>1, <3>1 DEF Loaded, LoadThere, Row
      <4> QED
        BY <4>1 DEF Loaded
    <3>2. CASE ~(Queries > 0)
      <4>1. Queries = 0
        BY <1>a, <3>2 DEF Queries
      <4>2. proc[This(Load)] = "none" /\ Row(usage).load = "" /\ Row(usage).conf = conf
        BY <3>2, <4>1 DEF Loaded, LoadToCome, Row
      <4>3. how[conf] = "none"
        BY <4>2 DEF Loaded
      <4> QED
        BY <4>2, <4>3
    <3> QED
      BY <3>1, <3>2
  <2>3. ASSUME NEW i \in 1..Len(rows)
        PROVE  /\ how'[rows'[i].conf] = "stop" => rows'[i].load = "active"
               /\ how'[rows'[i].conf] \in {"none", "term", "crash"} => rows'[i].load = ""
    <3>1. rows'[i] = rows[i] /\ i \in DOMAIN rows
      BY <1>a, <2>0
    <3> QED
      BY <2>1, <3>1 DEF LoadFigures
  <2>4. \A i \in DOMAIN rows' : i \in 1..Len(rows) \/ rows'[i] = Row(usage)
    BY <1>a, <2>0
  <2> QED
    BY <2>1, <2>2, <2>3, <2>4 DEF LoadFigures
<1> QED
  BY <1>2, <1>3, RowFrame

\* What the rows rest on holds initially.
LEMMA InitRows == Init => RowInv
<1> SUFFICES ASSUME Init PROVE RowInv
  OBVIOUS
<1>1. IInv
  BY InitInv
<1>a. /\ DOMAIN rows = {}
      /\ DOMAIN listed = {}
  <2>1. rows = <<>> /\ listed = <<>>
    BY DEF Init
  <2>2. DOMAIN <<>> = {}
    OBVIOUS
  <2> QED
    BY <2>1, <2>2
<1>2. DOMAIN rows = {}
  BY <1>a
<1>3. Loaded
  <2>1. proc[This(Load)] = "none" /\ conf = 1 /\ pc = "spawn" /\ ~stop /\ ~seen_active
    BY <1>1, Roles DEF Init
  <2>2. \A c \in Config : how[c] = "none"
    BY DEF Init
  <2>3. Range(listed) = {}
    BY <1>a DEF Range
  <2>4. conf \in Config
    BY <1>1, Roles DEF Init, IInv, TypeOK
  <2>5. child # This(Load) /\ log = ""
    <3>1. log = ""
      BY DEF Init
    <3>2. child = <<1, 0>>
      BY DEF Init
    <3>3. child # This(Load)
      BY <3>2 DEF This, Load
    <3> QED
      BY <3>1, <3>3
  <2> QED
    BY <2>1, <2>2, <2>3, <2>4, <2>5 DEF Loaded, LoadThere
<1>4. Served
  <2>1. pc = "spawn" /\ n = 0 /\ session = "idle" /\ child[2] = 0 /\ conf = 1
    BY DEF Init
  <2>2. 0 \in 0..(Configs[conf].workers - 1)
    BY <1>1, Roles
  <2>3. ~WorkersDone /\ ~CoordDone
    BY <2>1 DEF WorkersDone, CoordDone, This, Coord, Load
  <2> QED
    BY <2>1, <2>2, <2>3 DEF Served
<1>5. Rowed
  BY <1>2 DEF Init, Rowed
<1>6. MismatchIsFailure /\ LoadFigures
  BY <1>2 DEF MismatchIsFailure, LoadFigures
<1> QED
  BY <1>1, <1>3, <1>4, <1>5, <1>6 DEF RowInv

\* What the rows rest on holds in every reachable state.
THEOREM RowInvariance == Spec => []RowInv
<1>1. Init => RowInv
  BY InitRows
<1>2. RowInv /\ [Next]_vars => RowInv'
  BY StepInv, LoadedStep, ServedStep, RowedStep, MismatchStep, FiguresStep DEF RowInv
<1> QED
  BY <1>1, <1>2, PTL DEF Spec

\* The final report in a row is that of all batches or none, never a torn one: no
\* timeout, Ctrl-C or order of the harness's steps tears it.  A row lacks it, or its
\* resource figures, only if a process of that configuration died by itself, or the
\* dashboard failed with every server up.
THEOREM MismatchIsFailureHolds == Spec => []MismatchIsFailure
<1>1. RowInv => MismatchIsFailure
  BY DEF RowInv
<1> QED
  BY <1>1, RowInvariance, PTL

\* The query figures of a row are of its own load, of queries during ingest if
\* the load stopped by itself, and none if the load was cut short.
THEOREM LoadFiguresHold == Spec => []LoadFigures
<1>1. RowInv => LoadFigures
  BY DEF RowInv
<1> QED
  BY <1>1, RowInvariance, PTL
=============================================================================
