-------------------------- MODULE DocClientProofs ---------------------------
(***************************************************************************)
(* Proofs about DocClient: the invariant IInv is inductive, for any names, *)
(* streams and bounds, and the safety properties of the client follow.     *)
(* There is a lemma for each conjunct of IInv, with a step for each action.*)
(***************************************************************************)
EXTENDS DocClient, TLAPS

\* Version numbers are integers, and the next one is a version below the bound.
LEMMA Versions ==
  /\ NotFound \in Version /\ 0 \in Version
  /\ \A v \in Version : /\ v # NotFound => v \in Nat
                        /\ v + 1 \in Nat
                        /\ v < MaxVersion => v + 1 \in Version
BY BoundAssumption DEF Version, NotFound

\* What is done to a queue leaves a queue of the same messages.
LEMMA Queue ==
  ASSUME NEW S, NEW q \in Seq(S)
  PROVE  /\ <<>> \in Seq(S)
         /\ \A x \in S : Append(q, x) \in Seq(S) /\ <<x>> \in Seq(S)
         /\ q # <<>> => Head(q) \in S /\ Tail(q) \in Seq(S)
OBVIOUS

\* A create or an edit that is taken keeps the types of what it changes.
LEMMA WrittenTypes ==
  ASSUME TypeOK, NEW m \in Name, Written(m)
  PROVE  /\ up' \in BOOLEAN /\ epoch' \in Nat /\ version' \in [Name -> Version]
         /\ stream' = stream /\ name' = name
         /\ buffer' \in [Feed -> Seq(Nat \X Version)]
<1>1. version[m] + 1 \in Version
  <2>1. version[m] \in Version
    BY DEF TypeOK
  <2>2. version[m] < MaxVersion
    BY DEF Written
  <2> QED
    BY <2>1, <2>2, Versions
<1>2. version' \in [Name -> Version]
  BY <1>1 DEF Written, Publish, TypeOK
<1>3. \A f \in Feed : Append(buffer[f], <<epoch, version[m] + 1>>) \in Seq(Nat \X Version)
  <2>1. <<epoch, version[m] + 1>> \in Nat \X Version
    BY <1>1 DEF TypeOK
  <2> QED
    BY <2>1 DEF TypeOK
<1>4. buffer' \in [Feed -> Seq(Nat \X Version)]
  BY <1>3 DEF Written, Publish, TypeOK
<1> QED
  BY <1>2, <1>4 DEF Written, TypeOK

\* Every step keeps the types.
LEMMA TypeOKStep ==
  ASSUME TypeOK, [Next]_vars
  PROVE  TypeOK'
<1> USE ClientAssumption, BoundAssumption, Versions
<1>1. ASSUME NEW m \in Shared, OtherUser(m) PROVE TypeOK'
  <2>1. m \in Name
    OBVIOUS
  <2> QED
    BY <1>1, <2>1, WrittenTypes
      DEF OtherUser, TypeOK, feeds, history, input, pumps, screen, server, thread
<1>2. ASSUME NEW g \in Feed, Accept(g) PROVE TypeOK'
  <2>1. <<epoch, version[name[g]]>> \in Nat \X Version
    BY DEF TypeOK
  <2>2. buffer' \in [Feed -> Seq(Nat \X Version)]
    <3>1. CASE version[name[g]] = NotFound
      BY <1>2, <3>1 DEF Accept, TypeOK
    <3>2. CASE version[name[g]] # NotFound
      <4>1. <<<<epoch, version[name[g]]>>>> \in Seq(Nat \X Version)
        BY <2>1
      <4>2. buffer' = [buffer EXCEPT ![g] = <<<<epoch, version[name[g]]>>>>]
        BY <1>2, <3>2 DEF Accept
      <4> QED
        BY <4>1, <4>2 DEF TypeOK
    <3> QED
      BY <3>1, <3>2
  <2> QED
    BY <1>2, <2>2 DEF Accept, TypeOK, feeds, history, input, pumps, screen, server, thread
<1>3. ASSUME Crash PROVE TypeOK'
  BY <1>3 DEF Crash, TypeOK, feeds, history, input, pumps, screen, server, thread
<1>4. ASSUME Restart PROVE TypeOK'
  <2>1. up' \in BOOLEAN /\ epoch' \in Nat
    BY <1>4 DEF Restart, TypeOK
  <2>2. UNCHANGED <<version, subscriptions, thread, input, feeds, pumps, history, screen>>
    BY <1>4 DEF Restart
  <2> QED
    BY <2>1, <2>2 DEF TypeOK, feeds, history, input, pumps, screen, server, thread
<1>5. ASSUME NEW m \in Name, NEW e \in BOOLEAN, Create(m, e) PROVE TypeOK'
  <2>1. eof' \in BOOLEAN /\ commands' \in Nat
    BY <1>5 DEF Create, Dispatch, TypeOK
  <2>2. UNCHANGED <<subscriptions, thread, pumps, history, screen>>
    BY <1>5 DEF Create
  <2>3. CASE Written(m)
    BY <2>1, <2>2, <2>3, WrittenTypes DEF TypeOK, feeds, history, input, pumps, screen, server,
      thread
  <2>4. CASE UNCHANGED <<server, feeds>>
    BY <2>1, <2>2, <2>4 DEF TypeOK, feeds, history, input, pumps, screen, server, thread
  <2> QED
    BY <1>5, <2>3, <2>4 DEF Create
<1>6. ASSUME NEW m \in Name, NEW e \in BOOLEAN, Open(m, e) PROVE TypeOK'
  <2>1. eof' \in BOOLEAN /\ commands' \in Nat
    BY <1>6 DEF Open, Dispatch, TypeOK
  <2>2. UNCHANGED <<server, subscriptions, feeds, pumps, history>>
    BY <1>6 DEF Open
  <2>3. CASE Answered(m, version[m])
    BY <2>1, <2>2, <2>3 DEF Answered, TypeOK, feeds, history, input, pumps, screen, server, thread
  <2>4. CASE UNCHANGED <<thread, screen>>
    BY <2>1, <2>2, <2>4 DEF TypeOK, feeds, history, input, pumps, screen, server, thread
  <2> QED
    BY <1>6, <2>3, <2>4 DEF Open
<1>7. ASSUME NEW m \in Name, NEW e \in BOOLEAN, Edit(m, e) PROVE TypeOK'
  <2>1. eof' \in BOOLEAN /\ commands' \in Nat
    BY <1>7 DEF Edit, Dispatch, TypeOK
  <2>2. UNCHANGED <<subscriptions, pumps, history>>
    BY <1>7 DEF Edit
  <2>3. CASE Written(m) /\ Answered(m, version[m] + 1)
    <3>1. version[m] + 1 \in Version
      BY <2>3, Versions DEF Written, TypeOK
    <3>2. /\ main' = "show" /\ arg' \in Name /\ answer' \in Nat \X Version
          /\ asked' \in Nat \X Version /\ UNCHANGED <<opened, newest, floor>>
      BY <2>3, <3>1 DEF Answered, TypeOK
    <3> QED
      BY <2>1, <2>2, <2>3, <3>2, WrittenTypes DEF TypeOK, feeds, history, input, pumps, screen,
        server, thread
  <2>4. CASE UNCHANGED <<server, feeds, thread, screen>>
    BY <2>1, <2>2, <2>4 DEF TypeOK, feeds, history, input, pumps, screen, server, thread
  <2> QED
    BY <1>7, <2>3, <2>4 DEF Edit
<1>8. ASSUME PrintAnswer PROVE TypeOK'
  BY <1>8 DEF PrintAnswer, OnScreen, TypeOK, feeds, history, input, pumps, screen, server, thread
<1>9. ASSUME Lost PROVE TypeOK'
  BY <1>9 DEF Lost, TypeOK, feeds, history, input, pumps, screen, server, thread
<1>10. ASSUME NEW m \in Name, NEW e \in BOOLEAN, Subscribe(m, e) PROVE TypeOK'
  <2>1. CASE subscriptions[m] # NoFeed
    <3>1. eof' \in BOOLEAN /\ commands' \in Nat
      BY <1>10 DEF Subscribe, Dispatch, TypeOK
    <3>2. UNCHANGED <<server, subscriptions, thread, feeds, pumps, history, screen>>
      BY <1>10, <2>1 DEF Subscribe
    <3> QED
      BY <3>1, <3>2 DEF TypeOK, feeds, history, input, pumps, screen, server, thread
  <2>2. CASE subscriptions[m] = NoFeed
    <3>1. /\ eof' \in BOOLEAN /\ commands' \in Nat
          /\ main' \in {"prompt", "show", "validate", "start", "store", "close", "bye"}
          /\ arg' \in Name
      BY <1>10, <2>2 DEF Subscribe, Dispatch, TypeOK
    <3>2. opened' = opened /\ answer' = answer
          /\ UNCHANGED <<server, subscriptions, feeds, pumps, history, screen>>
      BY <1>10, <2>2 DEF Subscribe
    <3> QED
      BY <3>1, <3>2 DEF TypeOK, feeds, history, pumps, screen, server
  <2> QED
    BY <2>1, <2>2
<1>11. ASSUME NEW m \in Name, Unsubscribe(m) PROVE TypeOK'
  <2>1. stream' \in [Feed -> {"none", "opening", "fed", "refused", "broken", "cancelled",
                              "dropped"}]
    BY <1>11 DEF Unsubscribe, Cancelled, TypeOK
  <2>2. eof' \in BOOLEAN /\ commands' \in Nat
    <3>1. eof' = FALSE /\ commands' = commands + 1
      BY <1>11 DEF Unsubscribe, Dispatch
    <3>2. commands' \in Nat
      BY <3>1 DEF TypeOK
    <3>3. eof' \in BOOLEAN
      BY <3>1, Zenon
    <3> QED
      BY <3>2, <3>3
  <2>3. UNCHANGED <<server, subscriptions, thread, name, buffer, pumps, history, screen>>
    BY <1>11 DEF Unsubscribe
  <2> QED
    BY <2>1, <2>2, <2>3 DEF TypeOK, feeds, history, input, pumps, screen, server, thread
<1>12. ASSUME Validate PROVE TypeOK'
  BY <1>12 DEF Validate, TypeOK, feeds, history, input, pumps, screen, server, thread
<1>13. ASSUME NEW g \in Feed, Start(g) PROVE TypeOK'
  BY <1>13 DEF Start, TypeOK, feeds, history, input, pumps, screen, server, thread
<1>14. ASSUME Store PROVE TypeOK'
  BY <1>14 DEF Store, TypeOK, feeds, history, input, pumps, screen, server, thread
<1>15. ASSUME Exit PROVE TypeOK'
  BY <1>15 DEF Exit, TypeOK, feeds, history, input, pumps, screen, server, thread
<1>16. ASSUME Close PROVE TypeOK'
  BY <1>16 DEF Close, Cancelled, Entries, TypeOK, feeds, history, input, pumps, screen, server,
    thread
<1>17. ASSUME NEW g \in Feed, Take(g) PROVE TypeOK'
  <2>1. buffer' \in [Feed -> Seq(Nat \X Version)]
    BY <1>17, Queue DEF Take, Step, TypeOK, feeds, history, input, pumps, screen, server, thread
  <2> QED
    BY <1>17, <2>1, Queue DEF Take, Step, TypeOK, feeds, history, input, pumps, screen, server,
      thread
<1>18. ASSUME NEW g \in Feed, Show(g) PROVE TypeOK'
  <2>1. pump' \in [Feed -> {"none", "reading", "printing", "leaving", "ended"}]
    BY <1>18 DEF Show, Step, AfterPrint, TypeOK
  <2>2. late' \in [Feed -> Nat]
    BY <1>18 DEF Show, TypeOK
  <2>3. /\ last' \in [Name -> Nat \X Version] /\ item' \in [Feed -> Nat \X Version]
        /\ newest' \in [Name -> Nat \X Version]
    BY <1>18 DEF Show, OnScreen, TypeOK
  <2>4. UNCHANGED <<server, subscriptions, thread, input, feeds, floor, asked>>
    BY <1>18 DEF Show
  <2> QED
    BY <2>1, <2>2, <2>3, <2>4 DEF TypeOK, feeds, history, input, pumps, screen, server, thread
<1>19. ASSUME NEW g \in Feed, End(g) PROVE TypeOK'
  BY <1>19 DEF End, Step, Over, TypeOK, feeds, history, input, pumps, screen, server, thread
<1>20. ASSUME NEW g \in Feed, Pop(g) PROVE TypeOK'
  <2>1. buffer' \in [Feed -> Seq(Nat \X Version)]
    BY <1>20, Queue DEF Pop, Popped, Step, TypeOK, feeds, history, input, pumps, screen, server,
      thread
  <2> QED
    BY <1>20, <2>1, Queue DEF Pop, Popped, Step, TypeOK, feeds, history, input, pumps, screen,
      server, thread
<1>21. CASE UNCHANGED vars
  BY <1>21 DEF vars, TypeOK, feeds, history, input, pumps, screen, server, thread
<1> QED
  BY <1>1, <1>2, <1>3, <1>4, <1>5, <1>6, <1>7, <1>8, <1>9, <1>10, <1>11, <1>12, <1>13, <1>14,
    <1>15, <1>16, <1>17, <1>18, <1>19, <1>20, <1>21 DEF Next, Others, Command, Main, Pump

\* Every step keeps pumps and streams together: no stream ends without its pump,
\* and close drops none, since each one is in the table.
LEMMA PumpedStep ==
  ASSUME IInv, [Next]_vars
  PROVE  Pumped'
<1> USE ClientAssumption, BoundAssumption DEF IInv
<1>1. ASSUME NEW m \in Shared, OtherUser(m) PROVE Pumped'
  BY <1>1 DEF OtherUser, Written, Publish, Pumped, TypeOK, Live, feeds, history, input,
    pumps, screen, server, thread
<1>2. ASSUME NEW g \in Feed, Accept(g) PROVE Pumped'
  <2>1. stream[g] = "opening" /\ up /\ pump[g] = "reading"
    BY <1>2 DEF Accept, Pumped
  <2>2. stream'[g] \in {"refused", "fed"}
    BY <1>2 DEF Accept, TypeOK
  <2>3. \A f \in Feed \ {g} : stream'[f] = stream[f] /\ buffer'[f] = buffer[f]
    BY <1>2 DEF Accept, TypeOK
  <2> QED
    BY <1>2, <2>1, <2>2, <2>3 DEF Accept, Pumped, Live, feeds, history, input, pumps, screen,
      server,
      thread
<1>3. ASSUME Crash PROVE Pumped'
  BY <1>3 DEF Crash, Pumped, TypeOK, Live, feeds, history, input, pumps, screen, server, thread
<1>4. ASSUME Restart PROVE Pumped'
  BY <1>4 DEF Restart, Pumped, TypeOK, Live, feeds, history, input, pumps, screen, server, thread
<1>5. ASSUME NEW m \in Name, NEW e \in BOOLEAN, Create(m, e) PROVE Pumped'
  <2>1. UNCHANGED <<subscriptions, thread, pumps, history>>
    BY <1>5 DEF Create
  <2>2. CASE Written(m)
    BY <2>1, <2>2 DEF Written, Publish, Pumped, TypeOK, Live, feeds, history, input, pumps,
      screen, server, thread
  <2>3. CASE UNCHANGED <<server, feeds>>
    BY <2>1, <2>3 DEF Pumped, TypeOK, Live, feeds, history, input, pumps, screen, server, thread
  <2> QED
    BY <1>5, <2>2, <2>3 DEF Create
<1>6. ASSUME NEW m \in Name, NEW e \in BOOLEAN, Open(m, e) PROVE Pumped'
  BY <1>6 DEF Open, Dispatch, Answered, Pumped, TypeOK, Live, feeds, history, input, pumps,
    screen, server, thread
<1>7. ASSUME NEW m \in Name, NEW e \in BOOLEAN, Edit(m, e) PROVE Pumped'
  <2>1. UNCHANGED <<subscriptions, pumps, history>> /\ main = "prompt"
    BY <1>7 DEF Edit, Dispatch
  <2>2. CASE Written(m) /\ Answered(m, version[m] + 1)
    BY <2>1, <2>2 DEF Written, Publish, Answered, Pumped, TypeOK, Live, feeds, history, input,
      pumps, screen, server, thread
  <2>3. CASE UNCHANGED <<server, feeds, thread>>
    BY <2>1, <2>3 DEF Pumped, TypeOK, Live, feeds, history, input, pumps, screen, server, thread
  <2> QED
    BY <1>7, <2>2, <2>3 DEF Edit, screen
<1>8. ASSUME PrintAnswer PROVE Pumped'
  BY <1>8 DEF PrintAnswer, Pumped, TypeOK, Live, feeds, history, input, pumps, screen, server,
    thread
<1>9. ASSUME Lost PROVE Pumped'
  BY <1>9 DEF Lost, Pumped, TypeOK, Live, feeds, history, input, pumps, screen, server, thread
<1>10. ASSUME NEW m \in Name, NEW e \in BOOLEAN, Subscribe(m, e) PROVE Pumped'
  BY <1>10 DEF Subscribe, Dispatch, Pumped, TypeOK, Live, feeds, history, input, pumps, screen,
    server, thread
<1>11. ASSUME NEW m \in Name, Unsubscribe(m) PROVE Pumped'
  BY <1>11 DEF Unsubscribe, Dispatch, Cancelled, Pumped, TypeOK, Live, feeds, history, input,
    pumps, screen, server, thread
<1>12. ASSUME Validate PROVE Pumped'
  BY <1>12 DEF Validate, Pumped, TypeOK, Live, feeds, history, input, pumps, screen, server, thread
<1>13. ASSUME NEW g \in Feed, Start(g) PROVE Pumped'
  BY <1>13 DEF Start, Pumped, TypeOK, Live, feeds, history, input, pumps, screen, server, thread
<1>14. ASSUME Store PROVE Pumped'
  BY <1>14 DEF Store, Pumped, TypeOK, Live, feeds, history, input, pumps, screen, server, thread
<1>15. ASSUME Exit PROVE Pumped'
  BY <1>15 DEF Exit, Pumped, TypeOK, Live, feeds, history, input, pumps, screen, server, thread
<1>16. ASSUME Close PROVE Pumped'
  <2>1. ASSUME NEW f \in Feed, Live(f) PROVE f \in Entries
    <3>1. Running(f)
      BY <2>1 DEF Pumped, Running
    <3>2. subscriptions[name[f]] = f /\ name[f] \in Name
      BY <1>16, <3>1 DEF Close, Entered, TypeOK
    <3> QED
      BY <3>2 DEF Entries
  <2>2. ASSUME NEW f \in Feed
        PROVE  stream'[f] = IF Live(f) THEN "cancelled" ELSE stream[f]
    BY <1>16, <2>1, <2>2 DEF Close, Cancelled, Live
  <2>3. UNCHANGED <<up, pump, buffer, late>>
    BY <1>16 DEF Close, feeds, history, input, pumps, screen, server, thread
  <2> QED
    BY <2>2, <2>3 DEF Pumped, Live, TypeOK
<1>17. ASSUME NEW g \in Feed, Take(g) PROVE Pumped'
  BY <1>17 DEF Take, Step, Pumped, TypeOK, Live, feeds, history, input, pumps, screen, server,
    thread
<1>18. ASSUME NEW g \in Feed, Show(g) PROVE Pumped'
  BY <1>18 DEF Show, Step, AfterPrint, Pumped, TypeOK, Live, feeds, history, input, pumps, screen,
    server, thread
<1>19. ASSUME NEW g \in Feed, End(g) PROVE Pumped'
  BY <1>19 DEF End, Step, Over, Pumped, TypeOK, Live, feeds, history, input, pumps, screen, server,
    thread
<1>20. ASSUME NEW g \in Feed, Pop(g) PROVE Pumped'
  BY <1>20 DEF Pop, Popped, Step, Pumped, TypeOK, Live, feeds, history, input, pumps, screen,
    server,
    thread
<1>21. CASE UNCHANGED vars
  BY <1>21 DEF vars, Pumped, TypeOK, Live, feeds, history, input, pumps, screen, server, thread
<1> QED
  BY <1>1, <1>2, <1>3, <1>4, <1>5, <1>6, <1>7, <1>8, <1>9, <1>10, <1>11, <1>12, <1>13, <1>14,
    <1>15, <1>16, <1>17, <1>18, <1>19, <1>20, <1>21 DEF Next, Others, Command, Main, Pump

\* A step that leaves table and documents alone, starts no pump and takes the main
\* thread nowhere in subscribe keeps the entries.
LEMMA EnteredFrame ==
  ASSUME IInv, UNCHANGED <<subscriptions, name>>,
         \A f \in Feed : stream[f] # "none" => stream'[f] # "none",
         \A f \in Feed : Running(f)' => Running(f),
         \/ UNCHANGED <<main, arg, opened>>
         \/ main # "store" /\ main' \notin {"validate", "start", "store"}
  PROVE  Entered'
<1>1. Entered /\ \A n \in Name : subscriptions[n] \in Feed \union {NoFeed}
  BY DEF IInv, TypeOK
<1> QED
  BY <1>1 DEF Entered

\* Every step keeps the entries: the pump alone removes its own.
LEMMA EnteredStep ==
  ASSUME IInv, [Next]_vars
  PROVE  Entered'
<1> USE DEF IInv
<1>1. ASSUME NEW m \in Shared, OtherUser(m) PROVE Entered'
  <2>1. UNCHANGED <<subscriptions, name>> /\ UNCHANGED <<main, arg, opened>>
    BY <1>1 DEF OtherUser, Written, Publish, thread
  <2>2. \A f \in Feed : stream[f] # "none" => stream'[f] # "none"
    BY <1>1 DEF OtherUser, Written
  <2>3. \A f \in Feed : Running(f)' => Running(f)
    BY <1>1 DEF OtherUser, pumps, Running
  <2> QED
    BY <2>1, <2>2, <2>3, EnteredFrame
<1>2. ASSUME NEW g \in Feed, Accept(g) PROVE Entered'
  <2>1. UNCHANGED <<subscriptions, name>> /\ UNCHANGED <<main, arg, opened>>
    BY <1>2 DEF Accept, thread
  <2>2. \A f \in Feed : stream[f] # "none" => stream'[f] # "none"
    BY <1>2 DEF Accept, TypeOK
  <2>3. \A f \in Feed : Running(f)' => Running(f)
    BY <1>2 DEF Accept, pumps, Running
  <2> QED
    BY <2>1, <2>2, <2>3, EnteredFrame
<1>3. ASSUME Crash PROVE Entered'
  <2>1. UNCHANGED <<subscriptions, name>> /\ UNCHANGED <<main, arg, opened>>
    BY <1>3 DEF Crash, thread
  <2>2. \A f \in Feed : stream[f] # "none" => stream'[f] # "none"
    BY <1>3 DEF Crash, TypeOK
  <2>3. \A f \in Feed : Running(f)' => Running(f)
    BY <1>3 DEF Crash, pumps, Running
  <2> QED
    BY <2>1, <2>2, <2>3, EnteredFrame
<1>4. ASSUME Restart PROVE Entered'
  <2>1. UNCHANGED <<subscriptions, name>> /\ UNCHANGED <<main, arg, opened>>
    BY <1>4 DEF Restart, thread, feeds
  <2>2. \A f \in Feed : stream[f] # "none" => stream'[f] # "none"
    BY <1>4 DEF Restart, feeds
  <2>3. \A f \in Feed : Running(f)' => Running(f)
    BY <1>4 DEF Restart, pumps, Running
  <2> QED
    BY <2>1, <2>2, <2>3, EnteredFrame
<1>5. ASSUME NEW m \in Name, NEW e \in BOOLEAN, Create(m, e) PROVE Entered'
  <2>1. UNCHANGED <<subscriptions, name>> /\ UNCHANGED <<main, arg, opened>>
    BY <1>5 DEF Create, Written, thread, feeds
  <2>2. \A f \in Feed : stream[f] # "none" => stream'[f] # "none"
    BY <1>5 DEF Create, Written, feeds
  <2>3. \A f \in Feed : Running(f)' => Running(f)
    BY <1>5 DEF Create, pumps, Running
  <2> QED
    BY <2>1, <2>2, <2>3, EnteredFrame
<1>6. ASSUME NEW m \in Name, NEW e \in BOOLEAN, Open(m, e) PROVE Entered'
  <2>1. /\ UNCHANGED <<subscriptions, name>>
        /\ (main = "prompt" /\ main' = "show") \/ UNCHANGED <<main, arg, opened>>
    BY <1>6 DEF Open, Dispatch, Answered, thread, feeds
  <2>2. \A f \in Feed : stream[f] # "none" => stream'[f] # "none"
    BY <1>6 DEF Open, feeds
  <2>3. \A f \in Feed : Running(f)' => Running(f)
    BY <1>6 DEF Open, pumps, Running
  <2> QED
    BY <2>1, <2>2, <2>3, EnteredFrame
<1>7. ASSUME NEW m \in Name, NEW e \in BOOLEAN, Edit(m, e) PROVE Entered'
  <2>1. /\ UNCHANGED <<subscriptions, name>>
        /\ (main = "prompt" /\ main' = "show") \/ UNCHANGED <<main, arg, opened>>
    BY <1>7 DEF Edit, Dispatch, Written, Answered, thread, feeds
  <2>2. \A f \in Feed : stream[f] # "none" => stream'[f] # "none"
    BY <1>7 DEF Edit, Written, feeds
  <2>3. \A f \in Feed : Running(f)' => Running(f)
    BY <1>7 DEF Edit, pumps, Running
  <2> QED
    BY <2>1, <2>2, <2>3, EnteredFrame
<1>8. ASSUME PrintAnswer PROVE Entered'
  <2>1. UNCHANGED <<subscriptions, name>> /\ main # "store" /\ main' = "prompt"
    BY <1>8 DEF PrintAnswer, feeds
  <2>2. \A f \in Feed : stream[f] # "none" => stream'[f] # "none"
    BY <1>8 DEF PrintAnswer, feeds
  <2>3. \A f \in Feed : Running(f)' => Running(f)
    BY <1>8 DEF PrintAnswer, pumps, Running
  <2> QED
    BY <2>1, <2>2, <2>3, EnteredFrame
<1>9. ASSUME Lost PROVE Entered'
  <2>1. UNCHANGED <<subscriptions, name>> /\ main # "store" /\ main' = "prompt"
    BY <1>9 DEF Lost, feeds
  <2>2. \A f \in Feed : stream[f] # "none" => stream'[f] # "none"
    BY <1>9 DEF Lost, feeds
  <2>3. \A f \in Feed : Running(f)' => Running(f)
    BY <1>9 DEF Lost, pumps, Running
  <2> QED
    BY <2>1, <2>2, <2>3, EnteredFrame
<1>10. ASSUME NEW m \in Name, NEW e \in BOOLEAN, Subscribe(m, e) PROVE Entered'
  <2>1. UNCHANGED <<subscriptions, stream, name, pump>> /\ main = "prompt"
    BY <1>10 DEF Subscribe, Dispatch, feeds, pumps
  <2>2. CASE subscriptions[m] # NoFeed
    <3>1. UNCHANGED <<main, arg, opened>>
      BY <1>10, <2>2 DEF Subscribe, thread
    <3> QED
      BY <2>1, <3>1, EnteredFrame DEF Running
  <2>3. CASE subscriptions[m] = NoFeed
    <3>1. main' = "validate" /\ arg' = m
      BY <1>10, <2>3 DEF Subscribe
    <3> QED
      BY <2>1, <2>3, <3>1 DEF Entered, Running
  <2> QED
    BY <2>2, <2>3
<1>11. ASSUME NEW m \in Name, Unsubscribe(m) PROVE Entered'
  <2>1. UNCHANGED <<subscriptions, name>> /\ UNCHANGED <<main, arg, opened>>
    BY <1>11 DEF Unsubscribe, thread
  <2>2. \A f \in Feed : stream[f] # "none" => stream'[f] # "none"
    BY <1>11 DEF Unsubscribe, Cancelled, TypeOK
  <2>3. \A f \in Feed : Running(f)' => Running(f)
    BY <1>11 DEF Unsubscribe, pumps, Running
  <2> QED
    BY <2>1, <2>2, <2>3, EnteredFrame
<1>12. ASSUME Validate PROVE Entered'
  <2>1. /\ UNCHANGED <<subscriptions, stream, name, pump>> /\ main = "validate"
        /\ main' = "prompt" \/ (main' = "start" /\ arg' = arg)
    BY <1>12 DEF Validate, feeds, pumps
  <2> QED
    BY <2>1 DEF Entered, Running
<1>13. ASSUME NEW g \in Feed, Start(g) PROVE Entered'
  <2>1. /\ subscriptions[arg] = NoFeed /\ stream[g] = "none" /\ stream'[g] # "none"
        /\ name'[g] = arg /\ main' = "store" /\ opened' = g /\ arg \in Name
    BY <1>13 DEF Start, Entered, TypeOK, IInv
  <2>2. \A f \in Feed \ {g} : UNCHANGED <<stream[f], name[f], pump[f]>>
    BY <1>13 DEF Start, TypeOK
  <2>3. UNCHANGED <<subscriptions, arg>> /\ main # "store"
    BY <1>13 DEF Start
  <2>4. \A n \in Name : subscriptions[n] # g
    BY <2>1, ClientAssumption DEF Entered
  <2>5. \A n \in Name : subscriptions[n] \in Feed \union {NoFeed}
    BY DEF TypeOK
  <2> QED
    BY <2>1, <2>2, <2>3, <2>4, <2>5 DEF Entered, Running
<1>14. ASSUME Store PROVE Entered'
  <2>1. /\ main = "store" /\ main' = "prompt" /\ UNCHANGED <<stream, name, pump>>
        /\ subscriptions' = [subscriptions EXCEPT ![arg] = opened]
    BY <1>14 DEF Store, feeds, pumps
  <2>2. /\ opened \in Feed /\ name[opened] = arg /\ stream[opened] # "none"
        /\ arg \in Name /\ subscriptions \in [Name -> Feed \union {NoFeed}]
        /\ name \in [Feed -> Name] /\ subscriptions[arg] = NoFeed
    BY <2>1 DEF Entered, TypeOK
  <2>3. /\ subscriptions'[arg] = opened
        /\ \A n \in Name \ {arg} : subscriptions'[n] = subscriptions[n]
    BY <2>1, <2>2
  <2>4. ASSUME NEW f \in Feed, Running(f)' PROVE subscriptions'[name'[f]] = f
    <3>1. Running(f) /\ name'[f] = name[f] /\ name[f] \in Name
      BY <2>1, <2>2, <2>4 DEF Running
    <3>2. subscriptions[name[f]] = f \/ opened = f
      BY <3>1 DEF Entered
    <3>3. f # NoFeed
      BY ClientAssumption
    <3> QED
      BY <2>2, <2>3, <3>1, <3>2, <3>3
  <2>5. ASSUME NEW n \in Name, subscriptions'[n] # NoFeed
        PROVE  name'[subscriptions'[n]] = n /\ stream'[subscriptions'[n]] # "none"
    BY <2>1, <2>2, <2>3, <2>5 DEF Entered
  <2> QED
    BY <2>1, <2>4, <2>5 DEF Entered
<1>15. ASSUME Exit PROVE Entered'
  <2>1. UNCHANGED <<subscriptions, name>> /\ main # "store" /\ main' = "close"
    BY <1>15 DEF Exit, feeds
  <2>2. \A f \in Feed : stream[f] # "none" => stream'[f] # "none"
    BY <1>15 DEF Exit, feeds
  <2>3. \A f \in Feed : Running(f)' => Running(f)
    BY <1>15 DEF Exit, pumps, Running
  <2> QED
    BY <2>1, <2>2, <2>3, EnteredFrame
<1>16. ASSUME Close PROVE Entered'
  <2>1. UNCHANGED <<subscriptions, name>> /\ main # "store" /\ main' = "bye"
    BY <1>16 DEF Close
  <2>2. \A f \in Feed : stream[f] # "none" => stream'[f] # "none"
    BY <1>16 DEF Close, Cancelled, TypeOK
  <2>3. \A f \in Feed : Running(f)' => Running(f)
    BY <1>16 DEF Close, pumps, Running
  <2> QED
    BY <2>1, <2>2, <2>3, EnteredFrame
<1>17. ASSUME NEW g \in Feed, Take(g) PROVE Entered'
  <2>1. UNCHANGED <<subscriptions, name>> /\ UNCHANGED <<main, arg, opened>>
    BY <1>17 DEF Take, thread
  <2>2. \A f \in Feed : stream[f] # "none" => stream'[f] # "none"
    BY <1>17 DEF Take
  <2>3. \A f \in Feed : Running(f)' => Running(f)
    BY <1>17 DEF Take, Step, Running, TypeOK
  <2> QED
    BY <2>1, <2>2, <2>3, EnteredFrame
<1>18. ASSUME NEW g \in Feed, Show(g) PROVE Entered'
  <2>1. UNCHANGED <<subscriptions, name>> /\ UNCHANGED <<main, arg, opened>>
    BY <1>18 DEF Show, thread, feeds
  <2>2. \A f \in Feed : stream[f] # "none" => stream'[f] # "none"
    BY <1>18 DEF Show, feeds
  <2>3. \A f \in Feed : Running(f)' => Running(f)
    BY <1>18 DEF Show, Step, Running, TypeOK
  <2> QED
    BY <2>1, <2>2, <2>3, EnteredFrame
<1>19. ASSUME NEW g \in Feed, End(g) PROVE Entered'
  <2>1. UNCHANGED <<subscriptions, name>> /\ UNCHANGED <<main, arg, opened>>
    BY <1>19 DEF End, thread, feeds
  <2>2. \A f \in Feed : stream[f] # "none" => stream'[f] # "none"
    BY <1>19 DEF End, feeds
  <2>3. \A f \in Feed : Running(f)' => Running(f)
    BY <1>19 DEF End, Step, Running, TypeOK
  <2> QED
    BY <2>1, <2>2, <2>3, EnteredFrame
<1>20. ASSUME NEW g \in Feed, Pop(g) PROVE Entered'
  <2>1. /\ UNCHANGED <<main, arg, opened, stream, name>> /\ name[g] \in Name /\ Running(g)
        /\ subscriptions' = [subscriptions EXCEPT ![name[g]] = NoFeed]
    BY <1>20 DEF Pop, Popped, Step, Running, TypeOK, thread
  <2>2. /\ subscriptions \in [Name -> Feed \union {NoFeed}] /\ name \in [Feed -> Name]
        /\ arg \in Name
    BY DEF TypeOK
  <2>3. /\ subscriptions'[name[g]] = NoFeed
        /\ \A n \in Name \ {name[g]} : subscriptions'[n] = subscriptions[n]
    BY <2>1, <2>2
  <2>4. \A f \in Feed : Running(f)' => Running(f) /\ f # g
    BY <1>20 DEF Pop, Step, Running, TypeOK
  <2>5. ASSUME NEW f \in Feed, Running(f)'
        PROVE  subscriptions'[name[f]] = f \/ (main = "store" /\ opened = f)
    <3>1. subscriptions[name[f]] = f \/ (main = "store" /\ opened = f)
      BY <2>4, <2>5 DEF Entered
    <3>2. CASE name[f] = name[g] /\ subscriptions[name[f]] = f
      <4>1. main = "store" /\ opened = g
        BY <2>1, <2>4, <2>5, <3>2 DEF Entered
      <4>2. subscriptions[name[g]] = NoFeed
        BY <4>1 DEF Entered
      <4> QED
        BY <3>2, <4>2, ClientAssumption
    <3>3. CASE name[f] # name[g] /\ subscriptions[name[f]] = f
      BY <2>2, <2>3, <3>3
    <3> QED
      BY <3>1, <3>2, <3>3
  <2>6. \A n \in Name : subscriptions'[n] \in {subscriptions[n], NoFeed}
    BY <2>2, <2>3
  <2> QED
    BY <2>1, <2>2, <2>5, <2>6 DEF Entered
<1>21. CASE UNCHANGED vars
  <2>1. UNCHANGED <<subscriptions, main, arg, opened, stream, name, pump>>
    BY <1>21 DEF vars, thread, feeds, pumps
  <2> QED
    BY <2>1 DEF Entered, Running
<1> QED
  BY <1>1, <1>2, <1>3, <1>4, <1>5, <1>6, <1>7, <1>8, <1>9, <1>10, <1>11, <1>12, <1>13, <1>14,
    <1>15, <1>16, <1>17, <1>18, <1>19, <1>20, <1>21 DEF Next, Others, Command, Main, Pump

\* Every step keeps the count of late messages: AfterPrint leaves after one.
LEMMA LatestStep ==
  ASSUME IInv, [Next]_vars
  PROVE  Latest'
<1> USE ClientAssumption, BoundAssumption DEF IInv
<1>1. ASSUME NEW m \in Shared, OtherUser(m) PROVE Latest'
  BY <1>1 DEF OtherUser, Written, Publish, Latest, Pumped, TypeOK, feeds, history, input,
    pumps, screen, server, thread
<1>2. ASSUME NEW g \in Feed, Accept(g) PROVE Latest'
  BY <1>2 DEF Accept, Latest, Pumped, TypeOK, feeds, history, input, pumps, screen, server, thread
<1>3. ASSUME Crash PROVE Latest'
  BY <1>3 DEF Crash, Latest, Pumped, TypeOK, feeds, history, input, pumps, screen, server, thread
<1>4. ASSUME Restart PROVE Latest'
  BY <1>4 DEF Restart, Latest, Pumped, TypeOK, feeds, history, input, pumps, screen, server, thread
<1>5. ASSUME NEW m \in Name, NEW e \in BOOLEAN, Create(m, e) PROVE Latest'
  <2>1. UNCHANGED <<subscriptions, thread, pumps, history>>
    BY <1>5 DEF Create
  <2>2. CASE Written(m)
    BY <2>1, <2>2 DEF Written, Publish, Latest, Pumped, TypeOK, feeds, history, input, pumps,
      screen, server, thread
  <2>3. CASE UNCHANGED <<server, feeds>>
    BY <2>1, <2>3 DEF Latest, Pumped, TypeOK, feeds, history, input, pumps, screen, server, thread
  <2> QED
    BY <1>5, <2>2, <2>3 DEF Create
<1>6. ASSUME NEW m \in Name, NEW e \in BOOLEAN, Open(m, e) PROVE Latest'
  BY <1>6 DEF Open, Dispatch, Answered, Latest, Pumped, TypeOK, feeds, history, input, pumps,
    screen, server, thread
<1>7. ASSUME NEW m \in Name, NEW e \in BOOLEAN, Edit(m, e) PROVE Latest'
  <2>1. UNCHANGED <<subscriptions, pumps, history>> /\ main = "prompt"
    BY <1>7 DEF Edit, Dispatch
  <2>2. CASE Written(m) /\ Answered(m, version[m] + 1)
    BY <2>1, <2>2 DEF Written, Publish, Answered, Latest, Pumped, TypeOK, feeds, history, input,
      pumps, screen, server, thread
  <2>3. CASE UNCHANGED <<server, feeds, thread>>
    BY <2>1, <2>3 DEF Latest, Pumped, TypeOK, feeds, history, input, pumps, screen, server, thread
  <2> QED
    BY <1>7, <2>2, <2>3 DEF Edit, screen
<1>8. ASSUME PrintAnswer PROVE Latest'
  BY <1>8 DEF PrintAnswer, Latest, Pumped, TypeOK, feeds, history, input, pumps, screen, server,
    thread
<1>9. ASSUME Lost PROVE Latest'
  BY <1>9 DEF Lost, Latest, Pumped, TypeOK, feeds, history, input, pumps, screen, server, thread
<1>10. ASSUME NEW m \in Name, NEW e \in BOOLEAN, Subscribe(m, e) PROVE Latest'
  BY <1>10 DEF Subscribe, Dispatch, Latest, Pumped, TypeOK, feeds, history, input, pumps, screen,
    server, thread
<1>11. ASSUME NEW m \in Name, Unsubscribe(m) PROVE Latest'
  BY <1>11 DEF Unsubscribe, Dispatch, Cancelled, Latest, Pumped, TypeOK, feeds, history,
    input, pumps, screen, server, thread
<1>12. ASSUME Validate PROVE Latest'
  BY <1>12 DEF Validate, Latest, Pumped, TypeOK, feeds, history, input, pumps, screen, server,
    thread
<1>13. ASSUME NEW g \in Feed, Start(g) PROVE Latest'
  BY <1>13 DEF Start, Latest, Pumped, TypeOK, feeds, history, input, pumps, screen, server, thread
<1>14. ASSUME Store PROVE Latest'
  BY <1>14 DEF Store, Latest, Pumped, TypeOK, feeds, history, input, pumps, screen, server, thread
<1>15. ASSUME Exit PROVE Latest'
  BY <1>15 DEF Exit, Latest, Pumped, TypeOK, feeds, history, input, pumps, screen, server, thread
<1>16. ASSUME Close PROVE Latest'
  BY <1>16 DEF Close, Cancelled, Entries, Latest, Pumped, TypeOK, feeds, history, input,
    pumps, screen, server, thread
<1>17. ASSUME NEW g \in Feed, Take(g) PROVE Latest'
  BY <1>17 DEF Take, Step, Latest, Pumped, TypeOK, feeds, history, input, pumps, screen, server,
    thread
<1>18. ASSUME NEW g \in Feed, Show(g) PROVE Latest'
  <2>1. late[g] = 0 /\ pump[g] = "printing"
    BY <1>18 DEF Show, Step, Latest
  <2>2. /\ late'[g] = IF stream[g] = "cancelled" THEN 1 ELSE 0
        /\ pump'[g] = IF stream[g] \in {"cancelled", "dropped"} THEN "leaving" ELSE "reading"
    BY <1>18, <2>1 DEF Show, Step, AfterPrint, TypeOK
  <2>3. \A f \in Feed \ {g} : late'[f] = late[f] /\ pump'[f] = pump[f]
    BY <1>18 DEF Show, Step, TypeOK
  <2> QED
    BY <2>2, <2>3 DEF Latest
<1>19. ASSUME NEW g \in Feed, End(g) PROVE Latest'
  BY <1>19 DEF End, Step, Over, Latest, Pumped, TypeOK, feeds, history, input, pumps, screen,
    server,
    thread
<1>20. ASSUME NEW g \in Feed, Pop(g) PROVE Latest'
  BY <1>20 DEF Pop, Popped, Step, Latest, Pumped, TypeOK, feeds, history, input, pumps, screen,
    server, thread
<1>21. CASE UNCHANGED vars
  BY <1>21 DEF vars, Latest, Pumped, TypeOK, feeds, history, input, pumps, screen, server, thread
<1> QED
  BY <1>1, <1>2, <1>3, <1>4, <1>5, <1>6, <1>7, <1>8, <1>9, <1>10, <1>11, <1>12, <1>13, <1>14,
    <1>15, <1>16, <1>17, <1>18, <1>19, <1>20, <1>21 DEF Next, Others, Command, Main, Pump

\* Two pumps at work on one document are the same.
LEMMA OneAtWork ==
  ASSUME TypeOK, Entered
  PROVE  OneFeed
<1> SUFFICES ASSUME NEW f \in Feed, NEW g \in Feed, Running(f), Running(g), name[f] = name[g]
             PROVE  f = g
  BY DEF OneFeed
<1>1. subscriptions[name[f]] = f \/ (main = "store" /\ opened = f /\ name[f] = arg)
  BY DEF Entered
<1>2. subscriptions[name[f]] = g \/ (main = "store" /\ opened = g /\ name[f] = arg)
  BY DEF Entered
<1>3. main = "store" => subscriptions[arg] \notin Feed
  BY ClientAssumption DEF Entered
<1> QED
  BY <1>1, <1>2, <1>3

\* What was there is not after what is new.
LEMMA PastIsBefore ==
  ASSUME TypeOK, NEW n \in Name, NEW v \in Nat, up, version[n] <= v,
         NEW x, Past(x, n) \/ x = <<0, 0>>
  PROVE  NotBefore(x, <<epoch, v>>)
<1>1. version[n] \in Int /\ epoch \in Nat
  BY DEF TypeOK, Version, NotFound
<1> QED
  BY <1>1 DEF Past, NotBefore

\* Past(x, n), for a message that does not change, in the next state.
PastNext(x, n) ==
  x \in Nat \X Nat /\ (x[1] < epoch' \/ (x[1] = epoch' /\ (up' => x[2] <= version'[n])))

\* What was there stays in the past.
LEMMA PastStays ==
  ASSUME TypeOK, TypeOK', NEW n \in Name, NEW x, Past(x, n),
         \/ epoch' = epoch /\ (up' => up /\ version'[n] >= version[n])
         \/ epoch' = epoch + 1
  PROVE  PastNext(x, n)
<1>1. /\ version[n] \in Int /\ version'[n] \in Int /\ epoch \in Nat
      /\ x \in Nat \X Nat /\ x[1] \in Nat /\ x[2] \in Nat
  BY DEF TypeOK, Version, NotFound, Past
<1>2. CASE epoch' = epoch + 1
  BY <1>1, <1>2 DEF Past, PastNext
<1>3. CASE epoch' = epoch /\ (up' => up /\ version'[n] >= version[n])
  BY <1>1, <1>3 DEF Past, PastNext
<1> QED
  BY <1>2, <1>3

\* Nothing that Sent and Screen speak of changes.
LEMMA SentFrame ==
  ASSUME IInv, UNCHANGED <<up, epoch, version, name, buffer, pump, item, last>>
  PROVE  Sent' /\ Screen'
BY DEF IInv, Sent, Screen, Past, Running, NotBefore

\* A new version goes to the end of the queues of its document.
LEMMA WrittenSent ==
  ASSUME IInv, TypeOK', NEW m \in Name, Written(m), UNCHANGED <<pumps, history>>
  PROVE  Sent' /\ Screen'
<1> DEFINE new == <<epoch, version[m] + 1>>
<1>1. /\ up /\ up' /\ epoch' = epoch /\ name' = name /\ pump' = pump /\ item' = item /\ last' = last
      /\ stream' = stream
  BY DEF Written, pumps, history
<1>2. version[m] + 1 \in Nat /\ version'[m] = version[m] + 1
      /\ \A n \in Name : version'[n] >= version[n]
  <2>1. version \in [Name -> Int] /\ version' = [version EXCEPT ![m] = version[m] + 1]
    BY DEF Written, Publish, IInv, TypeOK, Version, NotFound
  <2>2. version[m] + 1 \in Nat
    BY Versions DEF IInv, TypeOK
  <2> QED
    BY <2>1, <2>2
<1>3. \A n \in Name : \A x : Past(x, n) => PastNext(x, n)
  BY <1>1, <1>2, PastStays DEF IInv
<1>4. PastNext(new, m)
  <2>1. new \in Nat \X Nat /\ new[1] = epoch' /\ new[2] = version'[m]
    BY <1>1, <1>2 DEF IInv, TypeOK
  <2>2. version'[m] <= version'[m]
    BY <1>2
  <2> HIDE DEF new
  <2> QED
    BY <2>1, <2>2 DEF PastNext
<1>5. Screen'
  BY <1>1, <1>3 DEF IInv, Screen, Past, PastNext
<1>6. \A x : Past(x, m) \/ x = <<0, 0>> => NotBefore(x, new)
  BY <1>1, <1>2, PastIsBefore DEF IInv, TypeOK, Version, NotFound
<1>7. ASSUME NEW f \in Feed
      PROVE  buffer'[f] = buffer[f]
               \/ (name[f] = m /\ buffer'[f] = Append(buffer[f], new))
  BY DEF Written, Publish, IInv, TypeOK
<1>8. ASSUME NEW f \in Feed, pump[f] = "printing"
      PROVE  PastNext(item[f], name[f]) /\ NotBefore(last[name[f]], item[f])
  BY <1>3, <1>1, <1>8 DEF IInv, Sent, TypeOK
<1>9. ASSUME NEW f \in Feed, NEW i \in DOMAIN buffer'[f]
      PROVE  /\ PastNext(buffer'[f][i], name[f])
             /\ Running(f) => NotBefore(last[name[f]], buffer'[f][i])
             /\ \A j \in DOMAIN buffer'[f] : i < j => NotBefore(buffer'[f][i], buffer'[f][j])
             /\ pump[f] = "printing" => NotBefore(item[f], buffer'[f][i])
  <2>0. name[f] \in Name /\ buffer[f] \in Seq(Nat \X Version)
    BY DEF IInv, TypeOK
  <2>1. CASE buffer'[f] = buffer[f]
    BY <2>0, <2>1, <1>3, <1>9 DEF IInv, Sent
  <2>2. CASE name[f] = m /\ buffer'[f] = Append(buffer[f], new)
    <3>1. DOMAIN buffer'[f] = 1..(Len(buffer[f]) + 1) /\ buffer'[f][Len(buffer[f]) + 1] = new
          /\ DOMAIN buffer[f] = 1..Len(buffer[f]) /\ Len(buffer[f]) \in Nat
          /\ \A k \in DOMAIN buffer[f] : buffer'[f][k] = buffer[f][k]
      BY <2>0, <2>2
    <3>2. \A k \in DOMAIN buffer[f] : Past(buffer[f][k], m) /\ NotBefore(buffer[f][k], new)
      BY <2>2, <1>6 DEF IInv, Sent
    <3>3. NotBefore(last[m], new) /\ (pump[f] = "printing" => NotBefore(item[f], new))
      BY <2>2, <1>6 DEF IInv, Sent, Screen
    <3>4. CASE i \in DOMAIN buffer[f]
      <4>1. PastNext(buffer'[f][i], name[f])
        BY <1>3, <2>2, <3>1, <3>2, <3>4
      <4>2. Running(f) => NotBefore(last[name[f]], buffer'[f][i])
        BY <3>1, <3>4 DEF IInv, Sent
      <4>3. pump[f] = "printing" => NotBefore(item[f], buffer'[f][i])
        BY <3>1, <3>4 DEF IInv, Sent
      <4>4. \A j \in DOMAIN buffer'[f] : i < j => NotBefore(buffer'[f][i], buffer'[f][j])
        <5>1. TAKE j \in DOMAIN buffer'[f]
        <5>2. j \in DOMAIN buffer[f] \/ j = Len(buffer[f]) + 1
          BY <3>1
        <5> QED
          BY <3>1, <3>2, <3>4, <5>2 DEF IInv, Sent
      <4> QED
        BY <4>1, <4>2, <4>3, <4>4
    <3>5. CASE i = Len(buffer[f]) + 1
      BY <1>4, <2>2, <3>1, <3>3, <3>5
    <3> QED
      BY <3>1, <3>4, <3>5
  <2> QED
    BY <1>7, <2>1, <2>2
<1>10. Sent'
  BY <1>1, <1>8, <1>9 DEF Sent, Running, Past, PastNext
<1> QED
  BY <1>5, <1>10

\* Nothing changes but what is past.
LEMMA PastSent ==
  ASSUME IInv, UNCHANGED <<name, buffer, pump, item, last>>,
         \A n \in Name : \A x : Past(x, n) => PastNext(x, n)
  PROVE  Sent' /\ Screen'
<1>1. \A f \in Feed : name[f] \in Name
  BY DEF IInv, TypeOK
<1> QED
  BY <1>1 DEF IInv, Sent, Screen, Past, PastNext, Running

\* Every step keeps the messages and the screen in order.
LEMMA SentStep ==
  ASSUME IInv, TypeOK', [Next]_vars
  PROVE  Sent' /\ Screen'
<1>0. \A n \in Name : \A x :
        /\ Past(x, n)
        /\ \/ epoch' = epoch /\ (up' => up /\ version'[n] >= version[n])
           \/ epoch' = epoch + 1
        => PastNext(x, n)
  BY PastStays DEF IInv
<1>1. ASSUME NEW m \in Shared, OtherUser(m) PROVE Sent' /\ Screen'
  BY <1>1, ClientAssumption, WrittenSent DEF OtherUser
<1>2. ASSUME NEW g \in Feed, Accept(g) PROVE Sent' /\ Screen'
  <2> DEFINE n == name[g]  new == <<epoch, version[n]>>
  <2>1. up /\ buffer[g] = <<>> /\ pump[g] = "reading" /\ n \in Name
    BY <1>2 DEF Accept, IInv, Pumped, TypeOK
  <2>2. UNCHANGED <<up, epoch, version, name, pump, item, last>>
    BY <1>2 DEF Accept, server, pumps, history
  <2>3. CASE version[n] = NotFound
    <3>1. buffer' = buffer
      BY <1>2, <2>3 DEF Accept
    <3> QED
      BY <2>2, <3>1, SentFrame
  <2>4. CASE version[n] # NotFound
    <3>1. version[n] \in Nat
      BY <2>1, <2>4, Versions DEF IInv, TypeOK
    <3>2. Past(new, n)
      <4>1. new \in Nat \X Nat /\ new[1] = epoch /\ new[2] = version[n] /\ version[n] <= version[n]
        <5>1. epoch \in Nat
          BY DEF IInv, TypeOK
        <5> QED
          BY <3>1, <5>1
      <4> HIDE DEF new
      <4> QED
        BY <4>1 DEF Past
    <3>3. NotBefore(last[n], new)
      BY <2>1, <3>1, PastIsBefore DEF IInv, Screen
    <3>4. buffer'[g] = <<new>> /\ \A f \in Feed \ {g} : buffer'[f] = buffer[f]
      BY <1>2, <2>4 DEF Accept, IInv, TypeOK
    <3>5. DOMAIN buffer'[g] = {1} /\ buffer'[g][1] = new
      BY <3>4
    <3>6. Screen'
      BY <2>2 DEF IInv, Screen, Past
    <3> HIDE DEF new
    <3>7. Sent'
      BY <2>1, <2>2, <3>2, <3>3, <3>4, <3>5 DEF IInv, Sent, Past, Running
    <3> QED
      BY <3>6, <3>7
  <2> QED
    BY <2>3, <2>4
<1>3. CASE Crash
  <2>1. epoch' = epoch /\ up' = FALSE /\ UNCHANGED <<name, buffer, pump, item, last>>
    BY <1>3 DEF Crash, pumps, history
  <2>2. \A n \in Name : \A x : Past(x, n) => PastNext(x, n)
    BY <1>0, <2>1
  <2> QED
    BY <2>1, <2>2, PastSent
<1>4. CASE Restart
  <2>1. epoch' = epoch + 1 /\ UNCHANGED <<name, buffer, pump, item, last>>
    BY <1>4 DEF Restart, feeds, pumps, history
  <2>2. \A n \in Name : \A x : Past(x, n) => PastNext(x, n)
    BY <1>0, <2>1
  <2> QED
    BY <2>1, <2>2, PastSent
<1>5. ASSUME NEW m \in Name, NEW e \in BOOLEAN, Create(m, e) PROVE Sent' /\ Screen'
  <2>1. CASE Written(m)
    BY <1>5, <2>1, WrittenSent DEF Create
  <2>2. CASE UNCHANGED <<server, feeds>>
    BY <1>5, <2>2, SentFrame DEF Create, server, feeds, pumps, history
  <2> QED
    BY <1>5, <2>1, <2>2 DEF Create
<1>6. ASSUME NEW m \in Name, NEW e \in BOOLEAN, Open(m, e) PROVE Sent' /\ Screen'
  BY <1>6, SentFrame DEF Open, server, feeds, pumps, history
<1>7. ASSUME NEW m \in Name, NEW e \in BOOLEAN, Edit(m, e) PROVE Sent' /\ Screen'
  <2>1. CASE Written(m)
    BY <1>7, <2>1, WrittenSent DEF Edit
  <2>2. CASE UNCHANGED <<server, feeds>>
    BY <1>7, <2>2, SentFrame DEF Edit, server, feeds, pumps, history
  <2> QED
    BY <1>7, <2>1, <2>2 DEF Edit
<1>8. CASE PrintAnswer
  BY <1>8, SentFrame DEF PrintAnswer, server, feeds, pumps, history
<1>9. CASE Lost
  BY <1>9, SentFrame DEF Lost, server, feeds, pumps, history
<1>10. ASSUME NEW m \in Name, NEW e \in BOOLEAN, Subscribe(m, e) PROVE Sent' /\ Screen'
  BY <1>10, SentFrame DEF Subscribe, server, feeds, pumps, history
<1>11. ASSUME NEW m \in Name, Unsubscribe(m) PROVE Sent' /\ Screen'
  BY <1>11, SentFrame DEF Unsubscribe, server, pumps, history
<1>12. CASE Validate
  BY <1>12, SentFrame DEF Validate, server, feeds, pumps, history
<1>13. ASSUME NEW g \in Feed, Start(g) PROVE Sent' /\ Screen'
  <2>1. buffer[g] = <<>> /\ pump'[g] = "reading"
    BY <1>13 DEF Start, IInv, Pumped, TypeOK
  <2>2. UNCHANGED <<up, epoch, version, buffer, item, last>>
    BY <1>13 DEF Start, server, history
  <2>3. \A f \in Feed \ {g} : name'[f] = name[f] /\ pump'[f] = pump[f]
    BY <1>13 DEF Start, IInv, TypeOK
  <2>4. DOMAIN buffer[g] = {}
    BY <2>1
  <2>5. Screen'
    BY <2>2 DEF IInv, Screen, Past
  <2>6. Sent'
    BY <2>1, <2>2, <2>3, <2>4 DEF IInv, Sent, Past, Running
  <2> QED
    BY <2>5, <2>6
<1>14. CASE Store
  BY <1>14, SentFrame DEF Store, server, feeds, pumps, history
<1>15. CASE Exit
  BY <1>15, SentFrame DEF Exit, server, feeds, pumps, history
<1>16. CASE Close
  BY <1>16, SentFrame DEF Close, server, pumps, history
<1>17. ASSUME NEW g \in Feed, Take(g) PROVE Sent' /\ Screen'
  <2>1. /\ pump[g] = "reading" /\ pump'[g] = "printing" /\ buffer[g] # <<>>
        /\ item'[g] = Head(buffer[g]) /\ buffer'[g] = Tail(buffer[g])
    BY <1>17 DEF Take, Step, IInv, TypeOK
  <2>2. UNCHANGED <<up, epoch, version, name, last>>
    BY <1>17 DEF Take, server, history
  <2>3. \A f \in Feed \ {g} : UNCHANGED <<pump[f], item[f], buffer[f]>>
    BY <1>17 DEF Take, Step, IInv, TypeOK
  <2>4. /\ Head(buffer[g]) = buffer[g][1] /\ 1 \in DOMAIN buffer[g]
        /\ \A i \in DOMAIN Tail(buffer[g]) :
             i + 1 \in DOMAIN buffer[g] /\ 1 < i + 1 /\ Tail(buffer[g])[i] = buffer[g][i + 1]
    <3>1. buffer[g] \in Seq(Nat \X Version)
      BY DEF IInv, TypeOK
    <3>2. Len(buffer[g]) \in Nat \ {0} /\ DOMAIN buffer[g] = 1..Len(buffer[g])
          /\ DOMAIN Tail(buffer[g]) = 1..(Len(buffer[g]) - 1)
      BY <2>1, <3>1
    <3>3. Head(buffer[g]) = buffer[g][1]
      BY <2>1, <3>1
    <3>4. \A i \in 1..(Len(buffer[g]) - 1) : Tail(buffer[g])[i] = buffer[g][i + 1]
      BY <2>1, <3>1
    <3> QED
      BY <3>2, <3>3, <3>4
  <2>5. Screen'
    BY <2>2 DEF IInv, Screen, Past
  <2>6. \A i, j \in DOMAIN Tail(buffer[g]) : i < j => i + 1 < j + 1
    OBVIOUS
  <2>7. ASSUME NEW i \in DOMAIN buffer'[g]
        PROVE  /\ Past(buffer'[g][i], name[g]) /\ NotBefore(last[name[g]], buffer'[g][i])
               /\ \A j \in DOMAIN buffer'[g] : i < j => NotBefore(buffer'[g][i], buffer'[g][j])
               /\ NotBefore(item'[g], buffer'[g][i])
    BY <2>1, <2>4, <2>6, <2>7 DEF IInv, Sent, Running
  <2>8. Past(item'[g], name[g]) /\ NotBefore(last[name[g]], item'[g])
    BY <2>1, <2>4 DEF IInv, Sent, Running
  <2>9. \A f \in Feed \ {g} : pump'[f] = pump[f] /\ item'[f] = item[f] /\ buffer'[f] = buffer[f]
    BY <2>3
  <2>10. ASSUME NEW f \in Feed \ {g}
         PROVE  /\ \A i \in DOMAIN buffer'[f] :
                     /\ PastNext(buffer'[f][i], name'[f])
                     /\ Running(f)' => NotBefore(last'[name'[f]], buffer'[f][i])
                     /\ \A j \in DOMAIN buffer'[f] : i < j => NotBefore(buffer'[f][i],
                       buffer'[f][j])
                     /\ pump'[f] = "printing" => NotBefore(item'[f], buffer'[f][i])
                /\ pump'[f] = "printing" => PastNext(item'[f],
                  name'[f]) /\ NotBefore(last'[name'[f]], item'[f])
    BY <2>2, <2>9 DEF IInv, Sent, Past, PastNext, Running
  <2>11. Sent'
    BY <2>1, <2>2, <2>7, <2>8, <2>10 DEF Sent, Past, PastNext, Running
  <2> QED
    BY <2>5, <2>11
<1>18. ASSUME NEW g \in Feed, Show(g) PROVE Sent' /\ Screen'
  <2>1. /\ pump[g] = "printing" /\ pump'[g] \in {"leaving", "reading"} /\ name[g] \in Name
        /\ last' = [last EXCEPT ![name[g]] = item[g]]
    BY <1>18 DEF Show, Step, AfterPrint, IInv, TypeOK
  <2>2. UNCHANGED <<up, epoch, version, name, buffer>>
    BY <1>18 DEF Show, server, feeds
  <2>3. \A f \in Feed \ {g} : pump'[f] = pump[f] /\ item'[f] = item[f]
    BY <1>18 DEF Show, Step, IInv, TypeOK
  <2>4. ASSUME NEW f \in Feed \ {g}, Running(f)
        PROVE  name[f] # name[g] /\ last'[name[f]] = last[name[f]]
    <3>1. name[f] # name[g]
      BY <2>1, <2>4, OneAtWork DEF IInv, OneFeed, Running
    <3> QED
      BY <2>1, <3>1 DEF IInv, TypeOK
  <2>5. last'[name[g]] = item[g] /\ \A n \in Name \ {name[g]} : last'[n] = last[n]
    BY <2>1 DEF IInv, TypeOK
  <2>6. Past(item[g], name[g]) /\ \A i \in DOMAIN buffer[g] : NotBefore(item[g], buffer[g][i])
    BY <2>1 DEF IInv, Sent
  <2>7. Screen'
    BY <2>2, <2>5, <2>6 DEF IInv, Screen, Past
  <2>8. Sent'
    BY <2>1, <2>2, <2>3, <2>4, <2>5, <2>6 DEF IInv, Sent, Past, Running
  <2> QED
    BY <2>7, <2>8
<1>19. ASSUME NEW g \in Feed, End(g) PROVE Sent' /\ Screen'
  <2>1. pump[g] = "reading" /\ pump' = [pump EXCEPT ![g] = "leaving"]
    BY <1>19 DEF End, Step
  <2>2. UNCHANGED <<up, epoch, version, name, buffer, item, last>>
    BY <1>19 DEF End, server, feeds, history
  <2>3. pump'[g] = "leaving" /\ \A f \in Feed \ {g} : pump'[f] = pump[f]
    BY <2>1 DEF IInv, TypeOK
  <2>4. Screen'
    BY <2>2 DEF IInv, Screen, Past
  <2>5. Sent'
    BY <2>1, <2>2, <2>3 DEF IInv, Sent, Past, Running
  <2> QED
    BY <2>4, <2>5
<1>20. ASSUME NEW g \in Feed, Pop(g) PROVE Sent' /\ Screen'
  <2>1. pump' = [pump EXCEPT ![g] = "ended"] /\ buffer' = [buffer EXCEPT ![g] = <<>>]
    BY <1>20 DEF Pop, Step
  <2>2. UNCHANGED <<up, epoch, version, name, item, last>>
    BY <1>20 DEF Pop, server, history
  <2>3. DOMAIN buffer'[g] = {} /\ \A f \in Feed \ {g} : buffer'[f] = buffer[f]
    BY <2>1 DEF IInv, TypeOK
  <2>4. pump'[g] = "ended" /\ \A f \in Feed \ {g} : pump'[f] = pump[f]
    BY <2>1 DEF IInv, TypeOK
  <2>5. Screen'
    BY <2>2 DEF IInv, Screen, Past
  <2>6. Sent'
    BY <2>2, <2>3, <2>4 DEF IInv, Sent, Past, Running
  <2> QED
    BY <2>5, <2>6
<1>21. CASE UNCHANGED vars
  BY <1>21, SentFrame DEF vars, server, feeds, pumps, history
<1> QED
  BY <1>1, <1>2, <1>3, <1>4, <1>5, <1>6, <1>7, <1>8, <1>9, <1>10, <1>11, <1>12, <1>13, <1>14,
    <1>15, <1>16, <1>17, <1>18, <1>19, <1>20, <1>21 DEF Next, Others, Command, Main, Pump

\* Of the server, time goes on: what was past stays past.
LEMMA PastForward ==
  ASSUME IInv, TypeOK', [Next]_vars
  PROVE  \A n \in Name : \A x : Past(x, n) => PastNext(x, n)
<1>1. SUFFICES \/ epoch' = epoch /\ (up' => up /\ \A n \in Name : version'[n] >= version[n])
               \/ epoch' = epoch + 1
  BY PastStays DEF IInv
<1>2. \A n \in Name : version[n] \in Int
  BY DEF IInv, TypeOK, Version, NotFound
<1>3. ASSUME NEW m \in Name, Written(m)
      PROVE  epoch' = epoch /\ up /\ \A n \in Name : version'[n] >= version[n]
  <2>1. epoch' = epoch /\ up /\ version' = [version EXCEPT ![m] = version[m] + 1]
    BY <1>3 DEF Written, Publish
  <2>2. version \in [Name -> Version]
    BY DEF IInv, TypeOK
  <2> QED
    BY <1>2, <2>1, <2>2
<1>4. CASE UNCHANGED server
  BY <1>2, <1>4 DEF server
<1>5. CASE Crash
  BY <1>5 DEF Crash
<1>6. CASE Restart
  BY <1>6 DEF Restart
<1>7. \/ UNCHANGED server \/ Crash \/ Restart
      \/ \E m \in Name : Written(m)
  BY ClientAssumption DEF Next, Others, Command, Main, Pump, OtherUser, Accept, Create, Open, Edit,
    PrintAnswer, Lost, Subscribe, Unsubscribe, Validate, Start, Store, Exit, Close, Take, Show,
    End, Pop,
    vars, server, feeds
<1> QED
  BY <1>3, <1>4, <1>5, <1>6, <1>7

\* Messages only move on, out of the buffer of their stream and then away, and
\* the answer on its way, if there is one, is the one that was.
LEMMA FloorsMoved ==
  ASSUME IInv, \A n \in Name : \A x : Past(x, n) => PastNext(x, n),
         UNCHANGED <<name, newest, floor>>,
         main' = "show" => UNCHANGED <<main, arg, answer, asked>>,
         \A f \in Feed :
           /\ \A i \in DOMAIN buffer'[f] : \E j \in DOMAIN buffer[f] : buffer'[f][i] = buffer[f][j]
           /\ pump'[f] = "printing" =>
                \/ pump[f] = "printing" /\ item'[f] = item[f]
                \/ \E j \in DOMAIN buffer[f] : item'[f] = buffer[f][j]
  PROVE  Floors'
<1>1. \A n \in Name : newest'[n] = <<0, 0>> \/ PastNext(newest'[n], n)
  BY DEF IInv, Floors
<1>2. \A f \in Feed : name[f] \in Name
  BY DEF IInv, TypeOK
<1>3. ASSUME NEW f \in Feed
      PROVE  /\ floor'[f] = <<0, 0>> \/ PastNext(floor'[f], name'[f])
             /\ \A i \in DOMAIN buffer'[f] : NotBefore(floor'[f], buffer'[f][i])
             /\ pump'[f] = "printing" => NotBefore(floor'[f], item'[f])
  <2>1. floor'[f] = <<0, 0>> \/ PastNext(floor'[f], name'[f])
    BY <1>2 DEF IInv, Floors
  <2>2. \A j \in DOMAIN buffer[f] : NotBefore(floor[f], buffer[f][j])
    BY DEF IInv, Floors
  <2>3. pump[f] = "printing" => NotBefore(floor[f], item[f])
    BY DEF IInv, Floors
  <2> QED
    BY <2>1, <2>2, <2>3
<1>4. main' = "show" => PastNext(answer', arg') /\ NotBefore(asked', answer')
  BY DEF IInv, Floors, TypeOK
<1> QED
  BY <1>1, <1>3, <1>4 DEF Floors, Past, PastNext, NotBefore

\* No message and no pump does anything.
LEMMA FloorsFrame ==
  ASSUME IInv, \A n \in Name : \A x : Past(x, n) => PastNext(x, n),
         UNCHANGED <<name, newest, floor, buffer, pump, item>>,
         main' = "show" => UNCHANGED <<main, arg, answer, asked>>
  PROVE  Floors'
BY FloorsMoved

\* A new version goes to the end of the queues of its document; it is not before
\* anything on the screen.
LEMMA WrittenFloors ==
  ASSUME IInv, TypeOK', NEW m \in Name, Written(m), UNCHANGED <<pumps, newest, floor>>,
         \A n \in Name : \A x : Past(x, n) => PastNext(x, n),
         main' = "show" =>
           \/ UNCHANGED <<main, arg, answer, asked>>
           \/ arg' = m /\ answer' = <<epoch, version[m] + 1>> /\ asked' = newest[m]
  PROVE  Floors'
<1> DEFINE new == <<epoch, version[m] + 1>>
<1>1. up /\ up' /\ UNCHANGED <<epoch, name, pump, item, newest, floor>>
  BY DEF Written, pumps
<1>2. version[m] + 1 \in Nat /\ version'[m] = version[m] + 1 /\ version[m] <= version[m] + 1
  <2>1. version[m] \in Version /\ version \in [Name -> Version]
    BY DEF IInv, TypeOK
  <2>2. version[m] \in Int /\ version[m] + 1 \in Nat
    BY <2>1, Versions DEF Version, NotFound
  <2>3. version' = [version EXCEPT ![m] = version[m] + 1]
    BY DEF Written, Publish
  <2> QED
    BY <2>1, <2>2, <2>3
<1>3. \A x : Past(x, m) \/ x = <<0, 0>> => NotBefore(x, new)
  BY <1>1, <1>2, PastIsBefore DEF IInv
<1>4. PastNext(new, m)
  <2>1. new \in Nat \X Nat /\ new[1] = epoch' /\ new[2] = version'[m]
    BY <1>1, <1>2 DEF IInv, TypeOK
  <2>2. version'[m] <= version'[m]
    BY <1>2
  <2> HIDE DEF new
  <2> QED
    BY <2>1, <2>2 DEF PastNext
<1>5. \A n \in Name : newest'[n] = <<0, 0>> \/ PastNext(newest'[n], n)
  BY <1>1 DEF IInv, Floors
<1>6. ASSUME NEW f \in Feed
      PROVE  /\ floor'[f] = <<0, 0>> \/ PastNext(floor'[f], name'[f])
             /\ \A i \in DOMAIN buffer'[f] : NotBefore(floor'[f], buffer'[f][i])
             /\ pump'[f] = "printing" => NotBefore(floor'[f], item'[f])
  <2>1. name[f] \in Name /\ buffer[f] \in Seq(Nat \X Version)
    BY DEF IInv, TypeOK
  <2>2. floor'[f] = <<0, 0>> \/ PastNext(floor'[f], name'[f])
    BY <1>1, <2>1 DEF IInv, Floors
  <2>3. pump'[f] = "printing" => NotBefore(floor'[f], item'[f])
    BY <1>1 DEF IInv, Floors
  <2>4. \A i \in DOMAIN buffer[f] : NotBefore(floor[f], buffer[f][i])
    BY DEF IInv, Floors
  <2>5. CASE buffer'[f] = buffer[f]
    BY <1>1, <2>2, <2>3, <2>4, <2>5
  <2>6. CASE name[f] = m /\ buffer'[f] = Append(buffer[f], new)
    <3>1. NotBefore(floor[f], new)
      BY <1>3, <2>6 DEF IInv, Floors
    <3>2. \A i \in DOMAIN buffer'[f] : buffer'[f][i] = new
            \/ (i \in DOMAIN buffer[f] /\ buffer'[f][i] = buffer[f][i])
      <4> HIDE DEF new
      <4> QED
        BY <2>1, <2>6
    <3> QED
      BY <1>1, <2>2, <2>3, <2>4, <3>1, <3>2
  <2>7. \/ buffer'[f] = buffer[f]
        \/ name[f] = m /\ buffer'[f] = Append(buffer[f], new)
    BY DEF Written, Publish, IInv, TypeOK
  <2> QED
    BY <2>5, <2>6, <2>7
<1>7. main' = "show" => PastNext(answer', arg') /\ NotBefore(asked', answer')
  <2>1. ASSUME arg' = m, answer' = new, asked' = newest[m]
        PROVE  PastNext(answer', arg') /\ NotBefore(asked', answer')
    BY <1>3, <1>4, <2>1 DEF IInv, Floors
  <2>2. ASSUME main' = "show", UNCHANGED <<main, arg, answer, asked>>
        PROVE  PastNext(answer', arg') /\ NotBefore(asked', answer')
    BY <2>2 DEF IInv, Floors, TypeOK
  <2> QED
    BY <2>1, <2>2
<1> QED
  BY <1>5, <1>6, <1>7 DEF Floors, Past, PastNext, NotBefore

\* A version that is there is a number.
LEMMA Some ==
  ASSUME NEW v \in Version, v # NotFound
  PROVE  v \in Nat /\ v <= v
BY Versions

\* The rest of a queue is its messages, one place earlier.
LEMMA Rest ==
  ASSUME NEW S, NEW q \in Seq(S), q # <<>>, NEW i \in DOMAIN Tail(q)
  PROVE  i + 1 \in DOMAIN q /\ Tail(q)[i] = q[i + 1]
<1>1. Len(q) \in Nat /\ DOMAIN q = 1..Len(q) /\ DOMAIN Tail(q) = 1..(Len(q) - 1)
  OBVIOUS
<1> QED
  BY <1>1

\* Every step keeps what is on its way from being older than what it was asked
\* after.
LEMMA FloorsStep ==
  ASSUME IInv, TypeOK', [Next]_vars
  PROVE  Floors'
<1>0. \A n \in Name : \A x : Past(x, n) => PastNext(x, n)
  BY PastForward
<1>1. ASSUME NEW m \in Shared, OtherUser(m) PROVE Floors'
  BY <1>0, <1>1, ClientAssumption, WrittenFloors DEF OtherUser, screen, thread
<1>2. ASSUME NEW g \in Feed, Accept(g) PROVE Floors'
  <2> DEFINE n == name[g]  new == <<epoch, version[n]>>
  <2>1. up /\ n \in Name /\ pump[g] = "reading"
    BY <1>2 DEF Accept, IInv, Pumped, TypeOK
  <2>2. UNCHANGED <<up, epoch, version, name, pump, item, newest, floor, main, arg, answer, asked>>
    BY <1>2 DEF Accept, server, pumps, screen, thread
  <2>3. CASE version[n] = NotFound
    <3>1. buffer' = buffer
      BY <1>2, <2>3 DEF Accept
    <3> QED
      BY <1>0, <2>2, <3>1, FloorsFrame
  <2>4. CASE version[n] # NotFound
    <3>1. version[n] \in Nat /\ version[n] <= version[n]
      <4>1. version[n] \in Version
        BY <2>1 DEF IInv, TypeOK
      <4> QED
        BY <4>1, <2>4, Some
    <3>2. NotBefore(floor[g], new)
      BY <2>1, <3>1, PastIsBefore DEF IInv, Floors
    <3>3. buffer'[g] = <<new>> /\ \A f \in Feed \ {g} : buffer'[f] = buffer[f]
      BY <1>2, <2>4 DEF Accept, IInv, TypeOK
    <3>4. DOMAIN buffer'[g] = {1} /\ buffer'[g][1] = new
      BY <3>3
    <3> HIDE DEF new
    <3> QED
      BY <2>1, <2>2, <3>2, <3>3, <3>4 DEF IInv, Floors, Past
  <2> QED
    BY <2>3, <2>4
<1>3. CASE Crash
  BY <1>0, <1>3, FloorsFrame DEF Crash, pumps, screen, thread
<1>4. CASE Restart
  BY <1>0, <1>4, FloorsFrame DEF Restart, feeds, pumps, screen, thread
<1>5. ASSUME NEW m \in Name, NEW e \in BOOLEAN, Create(m, e) PROVE Floors'
  <2>1. CASE Written(m)
    BY <1>0, <1>5, <2>1, WrittenFloors DEF Create, screen, thread
  <2>2. CASE UNCHANGED <<server, feeds>>
    BY <1>0, <1>5, <2>2, FloorsFrame DEF Create, feeds, pumps, screen, thread
  <2> QED
    BY <1>5, <2>1, <2>2 DEF Create
<1>6. ASSUME NEW m \in Name, NEW e \in BOOLEAN, Open(m, e) PROVE Floors'
  <2>1. UNCHANGED <<server, feeds, pumps>>
    BY <1>6 DEF Open
  <2>2. CASE UNCHANGED <<thread, screen>>
    BY <1>0, <2>1, <2>2, FloorsFrame DEF feeds, pumps, screen, thread
  <2>3. CASE up /\ Answered(m, version[m])
    <3> DEFINE new == <<epoch, version[m]>>
    <3>1. /\ version[m] # NotFound /\ arg' = m /\ answer' = new /\ asked' = newest[m]
          /\ UNCHANGED <<newest, floor>>
      BY <2>3 DEF Answered
    <3>2. version[m] \in Nat /\ version[m] <= version[m]
      <4>1. version[m] \in Version
        BY DEF IInv, TypeOK
      <4> QED
        BY <3>1, <4>1, Versions
    <3>3. NotBefore(newest[m], new)
      BY <2>3, <3>2, PastIsBefore DEF IInv, Floors
    <3>4. new \in Nat \X Nat /\ new[1] = epoch /\ new[2] = version[m]
      BY <3>2 DEF IInv, TypeOK
    <3> HIDE DEF new
    <3>5. Past(new, m)
      BY <3>2, <3>4 DEF Past
    <3>6. UNCHANGED <<up, epoch, version, name, buffer, pump, item>>
      BY <2>1 DEF server, feeds, pumps
    <3> QED
      BY <3>1, <3>3, <3>5, <3>6 DEF IInv, Floors, Past
  <2> QED
    BY <1>6, <2>2, <2>3 DEF Open
<1>7. ASSUME NEW m \in Name, NEW e \in BOOLEAN, Edit(m, e) PROVE Floors'
  <2>1. CASE Written(m) /\ Answered(m, version[m] + 1)
    BY <1>0, <1>7, <2>1, WrittenFloors DEF Edit, Answered
  <2>2. CASE UNCHANGED <<server, feeds, thread, screen>>
    BY <1>0, <1>7, <2>2, FloorsFrame DEF Edit, feeds, pumps, screen, thread
  <2> QED
    BY <1>7, <2>1, <2>2 DEF Edit
<1>8. CASE PrintAnswer
  <2>1. Past(answer, arg) /\ arg \in Name
    BY <1>8 DEF PrintAnswer, IInv, Floors, TypeOK
  <2>2. UNCHANGED <<up, epoch, version, name, buffer, pump, item, floor>> /\ main' = "prompt"
    BY <1>8 DEF PrintAnswer, server, feeds, pumps
  <2>3. \A n \in Name : newest'[n] = newest[n] \/ (n = arg /\ newest'[n] = answer)
    BY <1>8 DEF PrintAnswer, OnScreen, IInv, TypeOK
  <2> QED
    BY <2>1, <2>2, <2>3 DEF IInv, Floors, Past
<1>9. CASE Lost
  BY <1>0, <1>9, FloorsFrame DEF Lost, feeds, pumps
<1>10. ASSUME NEW m \in Name, NEW e \in BOOLEAN, Subscribe(m, e) PROVE Floors'
  BY <1>0, <1>10, FloorsFrame DEF Subscribe, Dispatch, feeds, pumps, screen, thread
<1>11. ASSUME NEW m \in Name, Unsubscribe(m) PROVE Floors'
  BY <1>0, <1>11, FloorsFrame DEF Unsubscribe, pumps, screen, thread
<1>12. CASE Validate
  BY <1>0, <1>12, FloorsFrame DEF Validate, feeds, pumps, screen
<1>13. ASSUME NEW g \in Feed, Start(g) PROVE Floors'
  <2>1. buffer[g] = <<>> /\ pump'[g] = "reading" /\ name'[g] = arg /\ floor'[g] = newest[arg]
        /\ arg \in Name /\ main' = "store"
    BY <1>13 DEF Start, IInv, Pumped, TypeOK
  <2>2. UNCHANGED <<up, epoch, version, buffer, item, newest>>
    BY <1>13 DEF Start, server
  <2>3. \A f \in Feed \ {g} : name'[f] = name[f] /\ pump'[f] = pump[f] /\ floor'[f] = floor[f]
    BY <1>13 DEF Start, IInv, TypeOK
  <2>4. DOMAIN buffer[g] = {}
    BY <2>1
  <2> QED
    BY <2>1, <2>2, <2>3, <2>4 DEF IInv, Floors, Past
<1>14. CASE Store
  BY <1>0, <1>14, FloorsFrame DEF Store, feeds, pumps, screen
<1>15. CASE Exit
  BY <1>0, <1>15, FloorsFrame DEF Exit, feeds, pumps, screen
<1>16. CASE Close
  BY <1>0, <1>16, FloorsFrame DEF Close, pumps, screen
<1>17. ASSUME NEW g \in Feed, Take(g) PROVE Floors'
  <2>1. /\ pump[g] = "reading" /\ pump'[g] = "printing" /\ buffer[g] # <<>>
        /\ item'[g] = Head(buffer[g]) /\ buffer'[g] = Tail(buffer[g])
        /\ buffer[g] \in Seq(Nat \X Version)
    BY <1>17 DEF Take, Step, IInv, TypeOK
  <2>2. \A f \in Feed \ {g} : UNCHANGED <<pump[f], item[f], buffer[f]>>
    BY <1>17 DEF Take, Step, IInv, TypeOK
  <2>3. 1 \in DOMAIN buffer[g] /\ item'[g] = buffer[g][1]
    BY <2>1
  <2>4. ASSUME NEW i \in DOMAIN buffer'[g]
        PROVE  i + 1 \in DOMAIN buffer[g] /\ buffer'[g][i] = buffer[g][i + 1]
    <3>1. i \in DOMAIN Tail(buffer[g])
      BY <2>1
    <3> QED
      BY <2>1, <3>1, Rest
  <2>5. UNCHANGED <<name, newest, floor, main, arg, answer, asked>>
    BY <1>17 DEF Take, screen, thread
  <2>6. ASSUME NEW f \in Feed
        PROVE  /\ \A i \in DOMAIN buffer'[f] :
                    \E j \in DOMAIN buffer[f] : buffer'[f][i] = buffer[f][j]
               /\ pump'[f] = "printing" =>
                    \/ pump[f] = "printing" /\ item'[f] = item[f]
                    \/ \E j \in DOMAIN buffer[f] : item'[f] = buffer[f][j]
    BY <2>2, <2>3, <2>4
  <2> QED
    BY <1>0, <2>5, <2>6, FloorsMoved
<1>18. ASSUME NEW g \in Feed, Show(g) PROVE Floors'
  <2>1. pump[g] = "printing" /\ pump'[g] \in {"leaving", "reading"} /\ name[g] \in Name
    BY <1>18 DEF Show, Step, AfterPrint, IInv, TypeOK
  <2>2. UNCHANGED <<up, epoch, version, name, buffer, floor, main, arg, answer, asked>>
    BY <1>18 DEF Show, server, feeds, thread
  <2>3. \A f \in Feed \ {g} : pump'[f] = pump[f] /\ item'[f] = item[f]
    BY <1>18 DEF Show, Step, IInv, TypeOK
  <2>4. Past(item[g], name[g])
    BY <2>1 DEF IInv, Sent
  <2>5. \A n \in Name : newest'[n] = newest[n] \/ (n = name[g] /\ newest'[n] = item[g])
    BY <1>18, <2>1 DEF Show, OnScreen, IInv, TypeOK
  <2> QED
    BY <2>1, <2>2, <2>3, <2>4, <2>5 DEF IInv, Floors, Past
<1>19. ASSUME NEW g \in Feed, End(g) PROVE Floors'
  <2>1. \A f \in Feed : pump'[f] = "printing" => pump[f] = "printing"
    BY <1>19 DEF End, Step, IInv, TypeOK
  <2>2. UNCHANGED <<name, newest, floor, buffer, item, main, arg, answer, asked>>
    BY <1>19 DEF End, feeds, screen, thread
  <2> QED
    BY <1>0, <2>1, <2>2, FloorsMoved
<1>20. ASSUME NEW g \in Feed, Pop(g) PROVE Floors'
  <2>1. DOMAIN buffer'[g] = {} /\ \A f \in Feed \ {g} : buffer'[f] = buffer[f]
    BY <1>20 DEF Pop, IInv, TypeOK
  <2>2. \A f \in Feed : pump'[f] = "printing" => pump[f] = "printing"
    BY <1>20 DEF Pop, Step, IInv, TypeOK
  <2>3. UNCHANGED <<name, newest, floor, item, main, arg, answer, asked>>
    BY <1>20 DEF Pop, screen, thread
  <2>4. \A f \in Feed : \A i \in DOMAIN buffer'[f] :
          \E j \in DOMAIN buffer[f] : buffer'[f][i] = buffer[f][j]
    BY <2>1
  <2> QED
    BY <1>0, <2>2, <2>3, <2>4, FloorsMoved
<1>21. CASE UNCHANGED vars
  BY <1>0, <1>21, FloorsFrame DEF vars, feeds, pumps, screen, thread
<1> QED
  BY <1>1, <1>2, <1>3, <1>4, <1>5, <1>6, <1>7, <1>8, <1>9, <1>10, <1>11, <1>12, <1>13, <1>14,
    <1>15, <1>16, <1>17, <1>18, <1>19, <1>20, <1>21 DEF Next, Others, Command, Main, Pump

(***************************************************************************)
(* The theorems.                                                           *)
(***************************************************************************)

\* The invariant that the others follow from: pumps and their entries, and the
\* order of the messages on their way.
THEOREM Invariance == Spec => []IInv
<1>1. Init => IInv
  <2> SUFFICES ASSUME Init PROVE IInv
    OBVIOUS
  <2>1. TypeOK
    <3>1. <<0, 0>> \in Nat \X Version /\ <<>> \in Seq(Nat \X Version)
      BY Versions
    <3> QED
      BY <3>1, ClientAssumption, Versions DEF Init, TypeOK
  <2>2. Pumped /\ Entered /\ Latest
    BY DEF Init, Pumped, Entered, Latest, Live, Running
  <2>3. Sent /\ Screen /\ Floors
    BY DEF Init, Sent, Screen, Floors
  <2> QED
    BY <2>1, <2>2, <2>3 DEF IInv
<1>2. IInv /\ [Next]_vars => IInv'
  <2> SUFFICES ASSUME IInv, [Next]_vars PROVE IInv'
    OBVIOUS
  <2>1. TypeOK'
    BY TypeOKStep DEF IInv
  <2> QED
    BY <2>1, PumpedStep, EnteredStep, LatestStep, SentStep, FloorsStep DEF IInv
<1> QED
  BY <1>1, <1>2, PTL DEF Spec

\* Every variable of the client has its type, for any names and streams.
THEOREM TypeCorrect == Spec => []TypeOK
<1>1. IInv => TypeOK
  BY DEF IInv
<1> QED
  BY <1>1, Invariance, PTL

\* At most one pump is at work on a document, however subscribe, unsubscribe
\* and the pumps' ends fall together, without any lock on the table.
THEOREM OnePump == Spec => []OneFeed
<1>1. IInv => OneFeed
  BY OneAtWork DEF IInv
<1> QED
  BY <1>1, Invariance, PTL

\* Every stream is cancelled before the channel is closed.
THEOREM ExitIsClean == Spec => []CleanExit
<1>1. IInv => CleanExit
  BY DEF IInv, Pumped, CleanExit
<1> QED
  BY <1>1, Invariance, PTL

\* After unsubscribe at most one message is printed.
THEOREM OneLate == Spec => []LateByOne
<1>1. IInv => LateByOne
  BY DEF IInv, Latest, LateByOne
<1> QED
  BY <1>1, Invariance, PTL

\* What subscriptions print of a document never goes back, and nothing that a
\* subscription, open or edit prints is older than what was on the screen when it
\* was asked for.
THEOREM PrintsAreInOrder == Spec => PrintsInOrder
<1> DEFINE A == /\ \A n \in Name : NotBefore(last[n], last'[n])
                /\ \A f \in Feed : pump[f] = "printing" => NotBefore(floor[f], item[f])
                /\ main = "show" => NotBefore(asked, answer)
<1>1. IInv /\ [Next]_vars => [A]_vars
  <2> SUFFICES ASSUME IInv, [Next]_vars PROVE A
    OBVIOUS
  <2>1. ASSUME NEW n \in Name PROVE NotBefore(last[n], last'[n])
    <3>1. last[n] \in Int \X Int
      BY DEF IInv, TypeOK, Version, NotFound
    <3>2. NotBefore(last[n], last[n])
      BY <3>1 DEF NotBefore
    <3>3. ASSUME NEW g \in Feed, Show(g) PROVE NotBefore(last[n], last'[n])
      <4>1. pump[g] = "printing" /\ last' = [last EXCEPT ![name[g]] = item[g]]
        BY <3>3 DEF Show, Step
      <4>2. NotBefore(last[name[g]], item[g])
        BY <4>1 DEF IInv, Sent
      <4> QED
        BY <3>2, <4>1, <4>2 DEF IInv, TypeOK
    <3>4. CASE last' = last
      BY <3>2, <3>4
    <3>5. last' = last \/ \E g \in Feed : Show(g)
      BY DEF Next, Others, Command, Main, Pump, OtherUser, Accept, Crash, Restart, Create, Open,
        Edit, PrintAnswer, Lost, Subscribe, Unsubscribe, Validate, Start, Store, Exit, Close, Take,
        End,
        Pop, vars, history
    <3> QED
      BY <3>3, <3>4, <3>5
  <2>2. /\ \A f \in Feed : pump[f] = "printing" => NotBefore(floor[f], item[f])
        /\ main = "show" => NotBefore(asked, answer)
    BY DEF IInv, Floors
  <2> QED
    BY <2>1, <2>2
<1> QED
  BY <1>1, Invariance, PTL DEF Spec, PrintsInOrder
=============================================================================
