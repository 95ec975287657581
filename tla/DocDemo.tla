------------------------------ MODULE DocDemo -------------------------------
(***************************************************************************)
(* section3/problem1/concurrent_demo.py run against the server: N threads  *)
(* edit one document at the same position, released by a barrier once an   *)
(* observer's subscription is confirmed, and what came of it is checked.   *)
(* Other clients use the same server.                                      *)
(***************************************************************************)
EXTENDS DocServer, FiniteSetsExt, Functions

CONSTANTS
  Creator, Observer, Editor, Getter,  \* the demo's calls; Editor is a set
  Foreign,                            \* calls of other clients
  Document, Position                  \* --doc, and where all editors insert

DemoCalls == {Creator, Observer, Getter} \union Editor

\* What the demo asks for.  The name has the time in it: other clients may read
\* the document and subscribe to it, but create and edit documents of their own.
ASSUME DemoAssumption ==
  /\ Document \in Name /\ Document # Blank /\ Strip[Document] = Document
  /\ Position \in Nat
  /\ IsFiniteSet(Editor) /\ Editor # {}
  /\ DemoCalls \union Foreign \subseteq Call /\ DemoCalls \intersect Foreign = {}
  /\ Creator \notin Editor /\ Observer \notin Editor /\ Getter \notin Editor
  /\ Creator # Observer /\ Creator # Getter /\ Observer # Getter
  /\ \A r \in Menu[Creator] :
       r.kind = "create" /\ r.name = Document /\ Position <= Len(r.text)
  /\ \A r \in Menu[Observer] : r.kind = "subscribe" /\ r.name = Document
  /\ \A r \in Menu[Getter] : r.kind = "get" /\ r.name = Document
  /\ \A e \in Editor : \A r \in Menu[e] :
       r.kind = "edit" /\ r.name = Document /\ r.position = Position
  /\ \A c \in Foreign : \A r \in Menu[c] :
       /\ r.kind = "create" => Strip[r.name] # Document
       /\ r.kind = "edit" => r.name # Document

VARIABLES
  demo,    \* where the main thread is
  editor   \* where each editor's thread is

demoVars == <<demo, editor>>
allVars  == <<vars, demoVars>>

DemoInit ==
  /\ Init
  /\ demo = "create"
  /\ editor = [e \in Editor |-> "none"]

MainStep(from, to) == demo = from /\ demo' = to /\ UNCHANGED editor

\* CreateDocument is called; it answers before the observer starts.
DemoCreate == MainStep("create", "observe") /\ Arrive(Creator)
DemoObserve == MainStep("observe", "wait") /\ pc[Creator] = "done" /\ Arrive(Observer)

\* Mutant: nobody waits for the observer.
ReadyAtOnce == TRUE

\* sub_ready: the observer has its snapshot.
Ready == received[Observer] # <<>>

\* The editors' threads are started.
DemoStart ==
  /\ demo = "wait" /\ Ready
  /\ demo' = "join"
  /\ editor' = [e \in Editor |-> "gate"]
  /\ UNCHANGED vars

\* barrier.wait(): all leave together.
Gate ==
  /\ editor # [e \in Editor |-> "none"]
  /\ \A e \in Editor : editor[e] = "gate"
  /\ editor' = [e \in Editor |-> "edit"]
  /\ UNCHANGED <<vars, demo>>

DemoEdit(e) == editor[e] = "edit" /\ Arrive(e) /\ UNCHANGED demoVars

\* Mutant: the threads are not joined.
JoinedAtOnce == TRUE

\* t.join() for every editor.
Joined == \A e \in Editor : pc[e] = "done"

DemoGet == MainStep("join", "sleep") /\ Joined /\ Arrive(Getter)

\* Half a second after the answer the results are checked, wherever the
\* observer is by then, and the program exits.
DemoCheck == MainStep("sleep", "exit") /\ pc[Getter] = "done" /\ UNCHANGED vars

Updates == SubSeq(received[Observer], 2, Len(received[Observer]))
All     == Len(received[Observer]) = 1 + Cardinality(Editor)

\* The observer cancels once it has all updates, or dies with the program.
DemoCancel == (All \/ demo = "exit") /\ Cancel(Observer) /\ UNCHANGED demoVars

Demo == DemoCreate \/ DemoObserve \/ DemoStart \/ Gate \/ DemoGet \/ DemoCheck

DemoNext ==
  \/ Demo \/ (\E e \in Editor : DemoEdit(e)) \/ DemoCancel
  \/ \E c \in Foreign : (Arrive(c) \/ Cancel(c)) /\ UNCHANGED demoVars
  \/ \E c \in Call : (Deliver(c) \/ Callback(c) \/ Handle(c)) /\ UNCHANGED demoVars
  \/ demo = "exit" /\ UNCHANGED allVars   \* the program has ended

DemoSpec == DemoInit /\ [][DemoNext]_allVars

\* The demo's threads run; the server's as in Fairness of DocServer.  The
\* exit need not come before the observer has all, and other clients need do
\* nothing: theirs may subscribe and never read.
DemoFairSpec ==
  /\ DemoSpec /\ Fairness
  /\ WF_allVars(Demo) /\ WF_allVars(All /\ DemoCancel)
  /\ \A e \in Editor : WF_allVars(DemoEdit(e))

-----------------------------------------------------------------------------
(***************************************************************************)
(* The checks of the program, and what it relies on.                       *)
(***************************************************************************)
N       == Cardinality(Editor)
Final   == reply[Getter]
Initial == req[Creator].text

\* text in content
In(t, s) == \E i \in 0..Len(s) : SubSeq(s, i + 1, i + Len(t)) = t

\* The four checks of the server's work.
ServerChecks ==
  /\ Len(Final.content) = Len(Initial) + SumFunction([e \in Editor |-> Len(req[e].text)])
  /\ Final.version = N
  /\ \A e \in Editor : In(req[e].text, Final.content)
  /\ {reply[e].version : e \in Editor} = 1..N

\* The two of the updates that the observer has: version order, and the last
\* one is the final document.
InOrder   == \A i \in 1..Len(Updates) : Updates[i].version = i
EndsFinal == Updates[N].content = Final.content

\* Whatever other clients do and however the editors' threads are scheduled,
\* the program finds every edit applied once, untorn, with a version of its own.
DemoServerPasses == demo = "exit" => ServerChecks

\* The observer has missed none: nothing worse can be seen of its stream than
\* that half a second was too short for the rest of it.
DemoStreamPasses == demo = "exit" => InOrder /\ (All => EndsFinal)

-----------------------------------------------------------------------------
(***************************************************************************)
(* The inductive invariant behind the two, beside that of the server.      *)
(***************************************************************************)

\* Who has been called by when.
Script ==
  /\ demo \in {"create", "observe", "wait", "join", "sleep", "exit"}
  /\ editor \in [Editor -> {"none", "gate", "edit"}]
  /\ \A c \in Call : req[c] \in Menu[c] /\ (pc[c] # "idle" => c \in DemoCalls \union Foreign)
  /\ demo = "create" => pc[Creator] = "idle"
  /\ demo \in {"create", "observe"} => pc[Observer] = "idle"
  /\ demo \notin {"create", "observe"} => pc[Creator] = "done"
  /\ demo \in {"create", "observe", "wait"} => editor = [e \in Editor |-> "none"]
  /\ demo \in {"join", "sleep", "exit"} => received[Observer] # <<>>
  /\ \A e \in Editor : editor[e] # "edit" => pc[e] = "idle"
  /\ demo \notin {"sleep", "exit"} => pc[Getter] = "idle"
  /\ demo \in {"sleep", "exit"} => \A e \in Editor : pc[e] = "done"
  /\ demo = "exit" => pc[Getter] = "done"

\* The document is the one that the demo created, and its calls succeed.
Founded ==
  Document \in docs => hist[Document][1] = [content |-> Initial, by |-> Creator]

Succeeded ==
  \A c \in {Creator, Getter} \union Editor : pc[c] = "done" => reply[c].status = "OK"

\* The observer joined before any edit, and the final answer is the last version.
JoinedFirst == joined[Observer] = 0
ReadLast    == pc[Getter] = "done" => Final.version = version[Document]

DemoInv == IInv /\ Script /\ Founded /\ Succeeded /\ JoinedFirst /\ ReadLast
=============================================================================
