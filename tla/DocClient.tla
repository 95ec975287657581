----------------------------- MODULE DocClient ------------------------------
(***************************************************************************)
(* The interactive client of the document service,                         *)
(* section3/problem1/client.py: the main thread reads and dispatches       *)
(* commands, and each subscription has a pump thread that prints what its  *)
(* stream brings.  The two share the table Client.subscriptions, without a *)
(* lock.                                                                   *)
(*                                                                         *)
(* The server, the other users and the gRPC channel are external: what the *)
(* server promises of a stream is DocServer's matter.  A document is given *)
(* by its version, texts are left out.  The server may go down, losing its *)
(* documents, and come back.                                               *)
(***************************************************************************)
EXTENDS Integers, Sequences, FiniteSets

CONSTANTS
  Name,        \* document names
  EofName,     \* "exit", what an ended input answers to every prompt
  Shared,      \* those that other users write to
  Feed,        \* streams that the client can open
  NoFeed,      \* no entry
  MaxVersion,  \* bound: versions of a document
  MaxCrash,    \* bound: times that the server goes down
  MaxCommand   \* bound: commands that reach a server

ASSUME ClientAssumption == EofName \in Name /\ Shared \subseteq Name /\ NoFeed \notin Feed
ASSUME BoundAssumption  == MaxVersion \in Nat /\ MaxCrash \in Nat /\ MaxCommand \in Nat

NotFound == -1
Version  == NotFound..MaxVersion

VARIABLES
  up, epoch, version,  \* the server: running, restarts, version of each document
  subscriptions,       \* Client.subscriptions: the stream of the entry
  main, arg, opened,   \* the main thread: where it is, its document, subscribe's stream
  answer,              \* <<epoch, version>> that open or edit is to print
  eof,                 \* the input has ended
  commands,            \* commands dispatched so far
  stream,              \* state of each stream
  name,                \* the document it is of
  buffer,              \* messages on their way to the client
  pump,                \* where its pump thread is
  item,                \* the message it prints next
  late,                \* history: messages printed after the client cancelled
  last,                \* history: <<epoch, version>> last printed by a pump
  newest,              \* history: the newest printed, by a pump or the main thread
  floor, asked         \* history: newest when the stream was opened, open or edit typed

server  == <<up, epoch, version>>
feeds   == <<stream, name, buffer>>
pumps   == <<pump, item>>
history == <<late, last>>
screen  == <<newest, floor, asked>>
thread  == <<main, arg, opened, answer>>
input   == <<eof, commands>>
vars == <<server, subscriptions, thread, input, feeds, pumps, history, screen>>

Init ==
  /\ up = TRUE /\ epoch = 0 /\ version = [n \in Name |-> NotFound]
  /\ subscriptions = [n \in Name |-> NoFeed]
  /\ main = "prompt" /\ arg = EofName /\ opened = NoFeed
  /\ answer = <<0, 0>>
  /\ eof = FALSE /\ commands = 0
  /\ stream = [f \in Feed |-> "none"]
  /\ name = [f \in Feed |-> EofName]
  /\ buffer = [f \in Feed |-> <<>>]
  /\ pump = [f \in Feed |-> "none"]
  /\ item = [f \in Feed |-> <<0, 0>>]
  /\ late = [f \in Feed |-> 0]
  /\ last = [n \in Name |-> <<0, 0>>] /\ newest = [n \in Name |-> <<0, 0>>]
  /\ floor = [f \in Feed |-> <<0, 0>>] /\ asked = <<0, 0>>

\* <<epoch, version>> as time goes on.
NotBefore(x, y) == x[1] < y[1] \/ (x[1] = y[1] /\ x[2] <= y[2])

\* The newest version on the screen, once x of document n is there too.
OnScreen(n, x) ==
  newest' = [newest EXCEPT ![n] = IF NotBefore(newest[n], x) THEN x ELSE newest[n]]

-----------------------------------------------------------------------------
(***************************************************************************)
(* The server and the other users.                                         *)
(***************************************************************************)

\* Version v of n is there: it is pushed to the streams of n.
Publish(n, v) ==
  /\ version' = [version EXCEPT ![n] = v]
  /\ buffer' = [f \in Feed |-> IF stream[f] = "fed" /\ name[f] = n
                                 THEN Append(buffer[f], <<epoch, v>>) ELSE buffer[f]]

\* A create, or an edit, that the server takes.
Written(n) ==
  /\ up /\ version[n] < MaxVersion
  /\ Publish(n, version[n] + 1)
  /\ UNCHANGED <<up, epoch, stream, name>>

OtherUser(n) ==
  Written(n) /\ UNCHANGED <<subscriptions, thread, input, pumps, history, screen>>

\* The server takes the call of a stream: a snapshot, or NOT_FOUND.
Accept(f) ==
  /\ stream[f] = "opening"
  /\ IF version[name[f]] = NotFound
     THEN stream' = [stream EXCEPT ![f] = "refused"] /\ UNCHANGED buffer
     ELSE /\ stream' = [stream EXCEPT ![f] = "fed"]
          /\ buffer' = [buffer EXCEPT ![f] = <<<<epoch, version[name[f]]>>>>]
  /\ UNCHANGED <<server, subscriptions, thread, input, name, pumps, history, screen>>

Live(f) == stream[f] \in {"opening", "fed"}

Crash ==
  /\ up /\ epoch < MaxCrash
  /\ up' = FALSE /\ version' = [n \in Name |-> NotFound]
  /\ stream' = [f \in Feed |-> IF Live(f) THEN "broken" ELSE stream[f]]
  /\ UNCHANGED <<epoch, subscriptions, thread, input, name, buffer, pumps,
                 history, screen>>

Restart ==
  /\ ~up /\ up' = TRUE /\ epoch' = epoch + 1
  /\ UNCHANGED <<version, subscriptions, thread, input, feeds, pumps, history, screen>>

-----------------------------------------------------------------------------
(***************************************************************************)
(* The main thread.                                                        *)
(***************************************************************************)

\* A line is read.  The commands given by menu number ask for their parts; e is
\* eof after them, and an input that has ended answers "exit" to each prompt.
Dispatch(e) ==
  /\ main = "prompt" /\ commands < MaxCommand /\ ~eof
  /\ eof' = e
  /\ commands' = commands + 1

\* The name is the last part asked for.
NamedLast(n, e) == e => n = EofName

\* create: the answer that is printed has neither version nor text.
Create(n, e) ==
  /\ Dispatch(e)
  /\ \/ version[n] = NotFound /\ Written(n)
     \/ UNCHANGED <<server, feeds>>   \* an error of the server
  /\ UNCHANGED <<subscriptions, thread, pumps, history, screen>>

\* The server's answer, version v of n, is on its way to the main thread.
Answered(n, v) ==
  /\ version[n] # NotFound
  /\ main' = "show" /\ arg' = n /\ answer' = <<epoch, v>> /\ asked' = newest[n]
  /\ UNCHANGED <<opened, newest, floor>>

\* open, or an error of the server.
Open(n, e) ==
  /\ Dispatch(e) /\ NamedLast(n, e)
  /\ \/ up /\ Answered(n, version[n])
     \/ UNCHANGED <<thread, screen>>
  /\ UNCHANGED <<server, subscriptions, feeds, pumps, history>>

\* edit, an error of the server, or one of int() if the input ends before the
\* text; if it ends there, "exit" is inserted.
Edit(n, e) ==
  /\ Dispatch(e)
  /\ \/ Written(n) /\ Answered(n, version[n] + 1)
     \/ UNCHANGED <<server, feeds, thread, screen>>
  /\ UNCHANGED <<subscriptions, pumps, history>>

\* The answer of open or edit is printed, beside what the pumps print, ...
PrintAnswer ==
  /\ main = "show" /\ OnScreen(arg, answer)
  /\ main' = "prompt" /\ arg' = EofName /\ answer' = <<0, 0>> /\ asked' = <<0, 0>>
  /\ UNCHANGED <<server, subscriptions, opened, input, feeds, pumps, history, floor>>

\* ... or an error is, if it went down with the server.
Lost ==
  /\ main = "show" /\ (~up \/ epoch # answer[1])
  /\ main' = "prompt" /\ arg' = EofName /\ answer' = <<0, 0>> /\ asked' = <<0, 0>>
  /\ UNCHANGED <<server, subscriptions, opened, input, feeds, pumps, history, newest, floor>>

\* subscribe: the table is looked up first.  (Bound: a stream is left.)
Subscribe(n, e) ==
  /\ Dispatch(e) /\ NamedLast(n, e) /\ \E f \in Feed : stream[f] = "none"
  /\ IF subscriptions[n] # NoFeed
     THEN UNCHANGED thread
     ELSE main' = "validate" /\ arg' = n /\ UNCHANGED <<opened, answer>>
  /\ UNCHANGED <<server, subscriptions, feeds, pumps, history, screen>>

\* GetDocument answers, or raises out of subscribe.
Validate ==
  /\ main = "validate"
  /\ IF version[arg] # NotFound
     THEN main' = "start" /\ UNCHANGED arg
     ELSE main' = "prompt" /\ arg' = EofName
  /\ UNCHANGED <<server, subscriptions, opened, answer, input, feeds, pumps, history, screen>>

\* The stream is opened and its pump started.
Start(f) ==
  /\ main = "start" /\ stream[f] = "none"
  /\ stream' = [stream EXCEPT ![f] = IF up THEN "opening" ELSE "broken"]
  /\ name' = [name EXCEPT ![f] = arg]
  /\ pump' = [pump EXCEPT ![f] = "reading"]
  /\ main' = "store" /\ opened' = f
  /\ floor' = [floor EXCEPT ![f] = newest[arg]]
  /\ UNCHANGED <<server, subscriptions, arg, answer, input, buffer, item, history, newest,
                 asked>>

\* Mutant: the entry is not made if the stream is not yet confirmed.
StoreConfirmed ==
  /\ main = "store"
  /\ subscriptions' = IF stream[opened] = "opening" THEN subscriptions
                      ELSE [subscriptions EXCEPT ![arg] = opened]
  /\ main' = "prompt" /\ arg' = EofName /\ opened' = NoFeed
  /\ UNCHANGED <<server, answer, input, feeds, pumps, history, screen>>

\* The entry is made, whatever the pump has done in the meantime.
Store ==
  /\ main = "store"
  /\ subscriptions' = [subscriptions EXCEPT ![arg] = opened]
  /\ main' = "prompt" /\ arg' = EofName /\ opened' = NoFeed
  /\ UNCHANGED <<server, answer, input, feeds, pumps, history, screen>>

\* The streams after those of fs are cancelled; one that has ended is left.
Cancelled(fs) ==
  [f \in Feed |-> IF f \in fs /\ stream[f] \in {"opening", "fed"}
                    THEN "cancelled" ELSE stream[f]]

\* Mutant: unsubscribe removes the entry as well.
UnsubscribeNow(n) ==
  /\ Dispatch(FALSE)
  /\ stream' = Cancelled({subscriptions[n]})
  /\ subscriptions' = [subscriptions EXCEPT ![n] = NoFeed]
  /\ UNCHANGED <<server, thread, name, buffer, pumps, history, screen>>

\* unsubscribe: the entry is left to the pump.
Unsubscribe(n) ==
  /\ Dispatch(FALSE)
  /\ stream' = Cancelled({subscriptions[n]})
  /\ UNCHANGED <<server, subscriptions, thread, name, buffer, pumps, history, screen>>

\* Mutant: an ended input is read again.
ExitTyped ==
  /\ main = "prompt" /\ ~eof
  /\ main' = "close"
  /\ UNCHANGED <<server, subscriptions, arg, opened, answer, input, feeds, pumps, history, screen>>

\* exit is typed or the input has ended.
Exit ==
  /\ main = "prompt"
  /\ main' = "close"
  /\ UNCHANGED <<server, subscriptions, arg, opened, answer, input, feeds, pumps, history, screen>>

Entries == {subscriptions[n] : n \in Name}

\* close: the streams of the table are cancelled, then the channel is closed,
\* which drops any other.
Close ==
  /\ main = "close"
  /\ stream' = [f \in Feed |-> IF Cancelled(Entries)[f] \in {"opening", "fed"}
                                 THEN "dropped" ELSE Cancelled(Entries)[f]]
  /\ main' = "bye"
  /\ UNCHANGED <<server, subscriptions, arg, opened, answer, input, name, buffer, pumps, history,
                 screen>>

-----------------------------------------------------------------------------
(***************************************************************************)
(* The pump threads, daemons that end with the program.                    *)
(***************************************************************************)

Step(f, from, to) ==
  main # "bye" /\ pump[f] = from /\ pump' = [pump EXCEPT ![f] = to]

Over(f) == stream[f] \in {"refused", "broken", "cancelled", "dropped"}

\* next(stream): a message.  The last may be taken while the stream is being
\* cancelled or breaks.
Take(f) ==
  /\ Step(f, "reading", "printing") /\ buffer[f] # <<>>
  /\ item' = [item EXCEPT ![f] = Head(buffer[f])]
  /\ buffer' = [buffer EXCEPT ![f] = Tail(@)]
  /\ UNCHANGED <<server, subscriptions, thread, input, stream, name, history, screen>>

\* Mutant: what has arrived is printed, cancelled or not.
AfterPrintAll(f) == IF buffer[f] # <<>> THEN "reading" ELSE "leaving"

\* Where the loop goes on: next(stream) raises at once on a cancelled stream.
AfterPrint(f) == IF stream[f] \in {"cancelled", "dropped"} THEN "leaving" ELSE "reading"

\* The message is printed, a snapshot in one line.
Show(f) ==
  /\ Step(f, "printing", AfterPrint(f))
  /\ last' = [last EXCEPT ![name[f]] = item[f]] /\ OnScreen(name[f], item[f])
  /\ item' = [item EXCEPT ![f] = <<0, 0>>]
  /\ late' = [late EXCEPT ![f] = @ + (IF stream[f] = "cancelled" THEN 1 ELSE 0)]
  /\ UNCHANGED <<server, subscriptions, thread, input, feeds, floor, asked>>

\* next(stream) raises: a message unless the client has cancelled.
End(f) ==
  /\ Step(f, "reading", "leaving") /\ Over(f)
  /\ UNCHANGED <<server, subscriptions, thread, input, feeds, item, history, screen>>

\* Mutant: the entry stays.
NoPop(f) == subscriptions

\* finally: subscriptions.pop(name, None)
Popped(f) == [subscriptions EXCEPT ![name[f]] = NoFeed]

Pop(f) ==
  /\ Step(f, "leaving", "ended")
  /\ subscriptions' = Popped(f)
  /\ buffer' = [buffer EXCEPT ![f] = <<>>]
  /\ UNCHANGED <<server, thread, input, stream, name, item, history, screen>>

-----------------------------------------------------------------------------
\* (The model stops with the client.)
Others ==
  /\ main # "bye"
  /\ Crash \/ Restart \/ (\E n \in Shared : OtherUser(n)) \/ \E f \in Feed : Accept(f)
Command ==
  \E n \in Name, e \in BOOLEAN :
    Create(n, e) \/ Open(n, e) \/ Edit(n, e) \/ Subscribe(n, e) \/ Unsubscribe(n)
Main == PrintAnswer \/ Lost \/ Validate \/ (\E f \in Feed : Start(f)) \/ Store \/ Exit \/ Close
Pump(f) == Take(f) \/ Show(f) \/ End(f) \/ Pop(f)

Next == Others \/ Command \/ Main \/ \E f \in Feed : Pump(f)

Spec == Init /\ [][Next]_vars

\* The threads run, and the server answers a call that reached it.  Nothing
\* makes the user type; an ended input is answered like "exit".
FairSpec ==
  /\ Spec
  /\ WF_vars(PrintAnswer \/ Lost \/ Validate \/ (\E f \in Feed : Start(f)) \/ Store \/ Close
               \/ (eof /\ Exit))
  /\ \A f \in Feed : WF_vars(Pump(f)) /\ WF_vars(main # "bye" /\ Accept(f))

-----------------------------------------------------------------------------
(***************************************************************************)
(* Properties.                                                             *)
(***************************************************************************)

\* Every variable has its type.
TypeOK ==
  /\ up \in BOOLEAN /\ epoch \in Nat /\ version \in [Name -> Version]
  /\ subscriptions \in [Name -> Feed \union {NoFeed}]
  /\ main \in {"prompt", "show", "validate", "start", "store", "close", "bye"}
  /\ arg \in Name /\ opened \in Feed \union {NoFeed} /\ answer \in Nat \X Version
  /\ eof \in BOOLEAN /\ commands \in Nat
  /\ stream \in [Feed -> {"none", "opening", "fed", "refused", "broken", "cancelled",
                          "dropped"}]
  /\ name \in [Feed -> Name]
  /\ buffer \in [Feed -> Seq(Nat \X Version)]
  /\ pump \in [Feed -> {"none", "reading", "printing", "leaving", "ended"}]
  /\ item \in [Feed -> Nat \X Version]
  /\ late \in [Feed -> Nat] /\ last \in [Name -> Nat \X Version]
  /\ newest \in [Name -> Nat \X Version] /\ floor \in [Feed -> Nat \X Version]
  /\ asked \in Nat \X Version

Running(f) == pump[f] \in {"reading", "printing", "leaving"}

\* At most one pump is ever at work on a document, so that no update is
\* printed twice: subscribing again waits for the old pump's pop.
OneFeed ==
  \A f, g \in Feed : Running(f) /\ Running(g) /\ name[f] = name[g] => f = g

\* "exit cancels all open streams so the server sees a clean unsubscribe": no
\* stream is left to be dropped with the channel.
CleanExit == \A f \in Feed : stream[f] # "dropped"

\* After unsubscribe at most the message already taken is printed.
LateByOne == \A f \in Feed : late[f] <= 1

\* What subscriptions print of a document never goes back to an older version,
\* whatever is subscribed, unsubscribed and subscribed again, and however the
\* old stream's messages come in; a subscription prints nothing older than what
\* was on the screen when it was opened, nor do open and edit print anything older
\* than what was there when they were typed.  (The screen as a whole does go
\* back: an update that is on its way when open or edit shows a newer version is
\* printed after it, and a pump may print before an answer that is older.)
PrintsInOrder ==
  [][/\ \A n \in Name : NotBefore(last[n], last'[n])
     /\ \A f \in Feed : pump[f] = "printing" => NotBefore(floor[f], item[f])
     /\ main = "show" => NotBefore(asked, answer)]_vars

\* A listed stream that is over leaves the table while its pump is at work, and
\* the document can be subscribed to again.  (A pump that was done before its
\* entry was made leaves the entry for ever.)
EntryGoes ==
  \A f \in Feed :
    subscriptions[name[f]] = f /\ Over(f) /\ Running(f)
      ~> subscriptions[name[f]] # f \/ main = "bye"

\* The client ends with its input, even if that ends in the middle of a command.
ClientEnds == eof ~> main = "bye"

-----------------------------------------------------------------------------
(***************************************************************************)
(* The inductive invariant, for the proofs.                                *)
(***************************************************************************)

\* A stream has a pump from its opening on, which leaves only when it is over.
Pumped ==
  \A f \in Feed :
    /\ (stream[f] = "none") = (pump[f] = "none")
    /\ stream[f] = "none" => buffer[f] = <<>> /\ late[f] = 0
    /\ Live(f) => pump[f] \in {"reading", "printing"}
    /\ stream[f] = "opening" => up /\ buffer[f] = <<>> /\ pump[f] = "reading"
    /\ stream[f] = "fed" => up
    /\ stream[f] # "dropped"

\* A pump at work has its entry, or is about to be given it; subscribe is
\* under way only for a document without an entry.
Entered ==
  /\ \A n \in Name : subscriptions[n] # NoFeed =>
       name[subscriptions[n]] = n /\ stream[subscriptions[n]] # "none"
  /\ main \in {"validate", "start", "store"} => subscriptions[arg] = NoFeed
  /\ main = "store" => opened \in Feed /\ name[opened] = arg /\ stream[opened] # "none"
  /\ \A f \in Feed :
       Running(f) => subscriptions[name[f]] = f \/ (main = "store" /\ opened = f)

\* After a cancelled print the pump leaves.
Latest == \A f \in Feed : late[f] = 0 \/ (late[f] = 1 /\ pump[f] \in {"leaving", "ended"})

\* x is a version that document n has had by now.
Past(x, n) ==
  x \in Nat \X Nat /\ (x[1] < epoch \/ (x[1] = epoch /\ (up => x[2] <= version[n])))

\* Messages were versions, and come in order after what is on the screen.
Sent ==
  \A f \in Feed :
    /\ \A i \in DOMAIN buffer[f] :
         /\ Past(buffer[f][i], name[f])
         /\ Running(f) => NotBefore(last[name[f]], buffer[f][i])
         /\ \A j \in DOMAIN buffer[f] : i < j => NotBefore(buffer[f][i], buffer[f][j])
         /\ pump[f] = "printing" => NotBefore(item[f], buffer[f][i])
    /\ pump[f] = "printing" => Past(item[f], name[f]) /\ NotBefore(last[name[f]], item[f])

Screen == \A n \in Name : last[n] = <<0, 0>> \/ Past(last[n], n)

\* What is on its way is not before what was on the screen when it was asked for,
\* which was a version by then.
Floors ==
  /\ \A n \in Name : newest[n] = <<0, 0>> \/ Past(newest[n], n)
  /\ \A f \in Feed :
       /\ floor[f] = <<0, 0>> \/ Past(floor[f], name[f])
       /\ \A i \in DOMAIN buffer[f] : NotBefore(floor[f], buffer[f][i])
       /\ pump[f] = "printing" => NotBefore(floor[f], item[f])
  /\ main = "show" => Past(answer, arg) /\ NotBefore(asked, answer)

IInv == TypeOK /\ Pumped /\ Entered /\ Latest /\ Sent /\ Screen /\ Floors
=============================================================================
