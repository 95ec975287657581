----------------------------- MODULE DocServer -----------------------------
(***************************************************************************)
(* The collaborative document server, section3/problem1/server.py.         *)
(*                                                                         *)
(* Every RPC is one element of Call.  A call is issued by a client, waits  *)
(* in the work queue of the thread pool, and is then run by one pool       *)
(* thread, step by step, interleaved with the other calls.  A step is      *)
(* atomic exactly when the code makes it so: what happens between two      *)
(* acquisitions of a lock is one step only if nobody could look in         *)
(* between, and the read-modify-write of an edit is several.               *)
(*                                                                         *)
(* Characters are elements of Char and a text is a sequence of them.       *)
(* Logging, audit fields of an update (edited_by, position,                *)
(* inserted_text) and the peer address are left out.                       *)
(***************************************************************************)
EXTENDS Naturals, Sequences, FiniteSets

CONSTANTS
  Name,       \* document names a client may write in a request
  Blank,      \* the name that is empty once stripped
  Strip,      \* Python's str.strip on names
  Char,       \* characters
  Call,       \* RPCs
  Nobody,     \* no call holds the lock
  Menu,       \* Menu[c]: the requests that call c may carry
  PoolSize,   \* max_workers of the thread pool
  Reading     \* subscriptions whose client keeps reading its stream

Kind == {"create", "get", "edit", "subscribe"}

\* text is the initial content of a create and the insertion of an edit.
Request == [kind : Kind, name : Name, position : Nat, text : Seq(Char)]

ASSUME NameAssumption ==
  /\ Blank \in Name
  /\ Strip \in [Name -> Name]
  /\ \A n \in Name : Strip[Strip[n]] = Strip[n]

ASSUME CallAssumption == Nobody \notin Call /\ Reading \subseteq Call

ASSUME MenuAssumption ==
  /\ DOMAIN Menu = Call
  /\ \A c \in Call : \A r \in Menu[c] : r \in Request

ASSUME PoolAssumption == PoolSize \in Nat \ {0}

Status ==
  {"none", "OK", "NOT_FOUND", "INVALID_ARGUMENT", "ALREADY_EXISTS", "OUT_OF_RANGE"}

Update  == [content : Seq(Char), version : Nat, snapshot : BOOLEAN]
Draft   == [content : Seq(Char), version : Nat]
Reply   == [status : Status, content : Seq(Char), version : Nat]
History == [content : Seq(Char), by : Call]

NoReply   == [status |-> "none", content |-> <<>>, version |-> 0]
Abort(s)  == [status |-> s, content |-> <<>>, version |-> 0]
Ok(x, v)  == [status |-> "OK", content |-> x, version |-> v]

VARIABLES
  docs,          \* the registry: names with a Document
  registryLock,  \* holder of registry_lock
  content,       \* Document.content
  version,       \* Document.version
  lock,          \* holder of Document.lock
  subscribers,   \* Document.subscribers; a call's queue is named by the call
  req,           \* the request of each call
  pc,            \* where the thread of each call is
  backlog,       \* work queue of the pool, first come first served
  draft,         \* the edit's local values: new content, then the update
  todo,          \* queues that the broadcast loop has still to put on
  queue,         \* the subscriber's queue.Queue
  sending,       \* the message that gRPC is sending for a subscription
  received,      \* what the subscriber's client has received, in order
  active,        \* context.is_active()
  callback,      \* unsubscribe is registered with the context and not yet run
  reply,         \* the answer of each call
  hist,          \* history: hist[d][v + 1] is version v of document d
  joined         \* history: version of d when the subscription joined

registryVars == <<docs, registryLock>>
docVars      == <<content, version, hist>>
lockVars     == <<lock, subscribers>>
editVars     == <<draft, todo>>
streamVars   == <<queue, sending, received, joined>>
contextVars  == <<active, callback>>
callVars     == <<req, backlog, reply>>
vars == <<registryVars, docVars, lockVars, editVars, streamVars, contextVars,
          callVars, pc>>

-----------------------------------------------------------------------------
\* The document a call other than create works on: the name as it was sent.
Doc(c) == req[c].name

\* content[:pos] + text + content[pos:]
Insert(s, p, t) == SubSeq(s, 1, p) \o t \o SubSeq(s, p + 1, Len(s))

Pcs == {"idle", "queued", "create", "create_insert", "lookup", "get", "edit",
        "edit_write", "edit_bump", "edit_put", "subscribe", "sub_snap",
        "sub_register", "sub_loop", "sub_send", "sub_exit", "done"}

\* Calls that occupy a thread of the pool.
Busy == {c \in Call : pc[c] \notin {"idle", "queued", "done"}}

Goto(c, l)   == pc' = [pc EXCEPT ![c] = l]
Answer(c, r) == reply' = [reply EXCEPT ![c] = r] /\ Goto(c, "done")

Init ==
  /\ docs = {} /\ registryLock = Nobody
  /\ content = [d \in Name |-> <<>>]
  /\ version = [d \in Name |-> 0]
  /\ hist = [d \in Name |-> <<>>]
  /\ lock = [d \in Name |-> Nobody]
  /\ subscribers = [d \in Name |-> {}]
  /\ req \in [Call -> UNION {Menu[c] : c \in Call}]
  /\ \A c \in Call : req[c] \in Menu[c]
  /\ pc = [c \in Call |-> "idle"]
  /\ backlog = <<>>
  /\ draft = [c \in Call |-> [content |-> <<>>, version |-> 0]]
  /\ todo = [c \in Call |-> {}]
  /\ queue = [c \in Call |-> <<>>]
  /\ sending = [c \in Call |-> <<>>]
  /\ received = [c \in Call |-> <<>>]
  /\ joined = [c \in Call |-> 0]
  /\ active = [c \in Call |-> TRUE]
  /\ callback = [c \in Call |-> FALSE]
  /\ reply = [c \in Call |-> NoReply]

-----------------------------------------------------------------------------
(***************************************************************************)
(* The client and the thread pool.                                         *)
(***************************************************************************)

\* The RPC reaches the server, which submits it to the pool.
Arrive(c) ==
  /\ pc[c] = "idle"
  /\ Goto(c, "queued")
  /\ backlog' = Append(backlog, c)
  /\ UNCHANGED <<registryVars, docVars, lockVars, editVars, streamVars,
                 contextVars, req, reply>>

\* A free thread takes the oldest waiting call.
Start(c) ==
  /\ pc[c] = "queued" /\ backlog # <<>> /\ c = Head(backlog)
  /\ Cardinality(Busy) < PoolSize
  /\ backlog' = Tail(backlog)
  /\ Goto(c, IF req[c].kind = "create" THEN "create" ELSE "lookup")
  /\ UNCHANGED <<registryVars, docVars, lockVars, editVars, streamVars,
                 contextVars, req, reply>>

\* The client cancels its subscription, or its connection drops.  The other
\* handlers never look at their context, so cancelling them changes nothing.
Cancel(c) ==
  /\ req[c].kind = "subscribe" /\ pc[c] \notin {"idle", "done"}
  /\ active[c]
  /\ active' = [active EXCEPT ![c] = FALSE]
  /\ UNCHANGED <<registryVars, docVars, lockVars, editVars, streamVars,
                 callVars, pc, callback>>

-----------------------------------------------------------------------------
(***************************************************************************)
(* CreateDocument.                                                         *)
(***************************************************************************)

\* A name that strips to nothing is refused before any lock is taken.
CreateReject(c) ==
  /\ pc[c] = "create" /\ Strip[Doc(c)] = Blank
  /\ Answer(c, Abort("INVALID_ARGUMENT"))
  /\ UNCHANGED <<registryVars, docVars, lockVars, editVars, streamVars,
                 contextVars, req, backlog>>

\* Mutant: the registry is tested without taking its lock.
CreateCheckUnlocked(c) ==
  /\ pc[c] = "create" /\ Strip[Doc(c)] # Blank
  /\ IF Strip[Doc(c)] \in docs
       THEN Answer(c, Abort("ALREADY_EXISTS"))
       ELSE Goto(c, "create_insert") /\ UNCHANGED reply
  /\ UNCHANGED <<registryVars, docVars, lockVars, editVars, streamVars, contextVars, req,
                 backlog>>

\* Takes registry_lock and tests the name; the abort releases the lock.
CreateCheck(c) ==
  /\ pc[c] = "create" /\ Strip[Doc(c)] # Blank
  /\ registryLock = Nobody
  /\ \/ /\ Strip[Doc(c)] \in docs
        /\ Answer(c, Abort("ALREADY_EXISTS"))
        /\ UNCHANGED registryLock
     \/ /\ Strip[Doc(c)] \notin docs
        /\ registryLock' = c
        /\ Goto(c, "create_insert")
        /\ UNCHANGED reply
  /\ UNCHANGED <<docs, docVars, lockVars, editVars, streamVars, contextVars,
                 req, backlog>>

\* Inserts the new Document under its stripped name and releases the lock.
CreateInsert(c) ==
  LET n == Strip[Doc(c)] IN
  /\ pc[c] = "create_insert"
  /\ docs' = docs \union {n}
  /\ content' = [content EXCEPT ![n] = req[c].text]
  /\ version' = [version EXCEPT ![n] = 0]
  /\ subscribers' = [subscribers EXCEPT ![n] = {}]
  /\ hist' = [hist EXCEPT ![n] = <<[content |-> req[c].text, by |-> c]>>]
  /\ registryLock' = Nobody
  /\ Answer(c, Ok(<<>>, 0))
  /\ UNCHANGED <<lock, editVars, streamVars, contextVars, req, backlog>>

-----------------------------------------------------------------------------
(***************************************************************************)
(* The lookup that the other three handlers start with, _get.              *)
(***************************************************************************)
AfterLookup(c) ==
  CASE req[c].kind = "get"  -> "get"
    [] req[c].kind = "edit" -> "edit"
    [] OTHER                -> "subscribe"

Lookup(c) ==
  /\ pc[c] = "lookup"
  /\ registryLock = Nobody
  /\ \/ /\ Doc(c) \in docs
        /\ Goto(c, AfterLookup(c))
        /\ UNCHANGED reply
     \/ /\ Doc(c) \notin docs
        /\ Answer(c, Abort("NOT_FOUND"))
  /\ UNCHANGED <<registryVars, docVars, lockVars, editVars, streamVars,
                 contextVars, req, backlog>>

-----------------------------------------------------------------------------
(***************************************************************************)
(* GetDocument.                                                            *)
(***************************************************************************)

\* Content and version are read together under the document lock.
GetRead(c) ==
  /\ pc[c] = "get" /\ lock[Doc(c)] = Nobody
  /\ Answer(c, Ok(content[Doc(c)], version[Doc(c)]))
  /\ UNCHANGED <<registryVars, docVars, lockVars, editVars, streamVars,
                 contextVars, req, backlog>>

-----------------------------------------------------------------------------
(***************************************************************************)
(* EditDocument.                                                           *)
(***************************************************************************)

\* The position is tested against the content as it is under the lock.
EditReject(c) ==
  /\ pc[c] = "edit" /\ lock[Doc(c)] = Nobody
  /\ req[c].position > Len(content[Doc(c)])
  /\ Answer(c, Abort("OUT_OF_RANGE"))
  /\ UNCHANGED <<registryVars, docVars, lockVars, editVars, streamVars,
                 contextVars, req, backlog>>

\* Mutant: the edit does not wait for the document lock.
EditBeginUnlocked(c) ==
  LET d == Doc(c) IN
  /\ pc[c] = "edit"
  /\ req[c].position <= Len(content[d])
  /\ draft' = [draft EXCEPT ![c] =
       [content |-> Insert(content[d], req[c].position, req[c].text),
        version |-> version[d]]]
  /\ Goto(c, "edit_write")
  /\ UNCHANGED <<registryVars, docVars, lockVars, todo, streamVars,
                 contextVars, callVars>>

\* Takes the document lock and computes the new content.
EditBegin(c) ==
  LET d == Doc(c) IN
  /\ pc[c] = "edit" /\ lock[d] = Nobody
  /\ req[c].position <= Len(content[d])
  /\ lock' = [lock EXCEPT ![d] = c]
  /\ draft' = [draft EXCEPT ![c] =
       [content |-> Insert(content[d], req[c].position, req[c].text),
        version |-> version[d]]]
  /\ Goto(c, "edit_write")
  /\ UNCHANGED <<registryVars, docVars, subscribers, todo, streamVars,
                 contextVars, callVars>>

\* doc.content = ...
EditWrite(c) ==
  /\ pc[c] = "edit_write"
  /\ content' = [content EXCEPT ![Doc(c)] = draft[c].content]
  /\ Goto(c, "edit_bump")
  /\ UNCHANGED <<registryVars, version, hist, lockVars, editVars, streamVars,
                 contextVars, callVars>>

\* doc.version += 1; the update is built from the document, and the broadcast
\* works on a copy of the subscriber list.
EditBump(c) ==
  LET d == Doc(c) IN
  /\ pc[c] = "edit_bump"
  /\ version' = [version EXCEPT ![d] = @ + 1]
  /\ hist' = [hist EXCEPT ![d] = Append(@, [content |-> content[d], by |-> c])]
  /\ draft' = [draft EXCEPT ![c] =
       [content |-> content[d], version |-> version[d] + 1]]
  /\ todo' = [todo EXCEPT ![c] = subscribers[d]]
  /\ Goto(c, "edit_put")
  /\ UNCHANGED <<registryVars, content, lockVars, streamVars, contextVars,
                 callVars>>

\* Mutant: instead of an unbounded queue a direct hand-over, which waits for
\* the subscriber to have taken everything or its RPC to be over.
EditPutHandOver(c) ==
  /\ pc[c] = "edit_put"
  /\ \E s \in todo[c] :
       /\ queue[s] \o sending[s] = <<>> \/ ~active[s]
       /\ queue' = [queue EXCEPT ![s] =
            Append(@, [content |-> draft[c].content, version |-> draft[c].version,
                       snapshot |-> FALSE])]
       /\ todo' = [todo EXCEPT ![c] = @ \ {s}]
  /\ UNCHANGED <<registryVars, docVars, lockVars, draft, sending, received,
                 joined, contextVars, callVars, pc>>

\* Mutant: the broadcast returns from its loop after the first queue.
EditPutFirst(c) ==
  /\ pc[c] = "edit_put"
  /\ \E s \in todo[c] :
       queue' = [queue EXCEPT ![s] =
            Append(@, [content |-> draft[c].content, version |-> draft[c].version,
                       snapshot |-> FALSE])]
  /\ todo' = [todo EXCEPT ![c] = {}]
  /\ UNCHANGED <<registryVars, docVars, lockVars, draft, sending, received,
                 joined, contextVars, callVars, pc>>

\* One turn of the broadcast loop: q.put(update).
EditPut(c) ==
  /\ pc[c] = "edit_put"
  /\ \E s \in todo[c] :
       /\ queue' = [queue EXCEPT ![s] =
            Append(@, [content |-> draft[c].content, version |-> draft[c].version,
                       snapshot |-> FALSE])]
       /\ todo' = [todo EXCEPT ![c] = @ \ {s}]
  /\ UNCHANGED <<registryVars, docVars, lockVars, draft, sending, received,
                 joined, contextVars, callVars, pc>>

\* Mutant: the lock is released and the answer sent before the broadcast ends.
EditReturnEarly(c) ==
  /\ pc[c] = "edit_put"
  /\ lock' = [lock EXCEPT ![Doc(c)] = Nobody]
  /\ todo' = [todo EXCEPT ![c] = {}]
  /\ Answer(c, Ok(content[Doc(c)], version[Doc(c)]))
  /\ UNCHANGED <<registryVars, docVars, subscribers, draft, streamVars,
                 contextVars, req, backlog>>

\* The response is built from the document, then the lock is released.
EditReturn(c) ==
  /\ pc[c] = "edit_put" /\ todo[c] = {}
  /\ lock' = [lock EXCEPT ![Doc(c)] = Nobody]
  /\ Answer(c, Ok(content[Doc(c)], version[Doc(c)]))
  /\ UNCHANGED <<registryVars, docVars, subscribers, editVars, streamVars,
                 contextVars, req, backlog>>

-----------------------------------------------------------------------------
(***************************************************************************)
(* SubscribeToUpdates.                                                     *)
(***************************************************************************)

\* Mutant: the lock is released as soon as the queue is in the list.
SubAppendReleasing(c) ==
  LET d == Doc(c) IN
  /\ pc[c] = "subscribe" /\ lock[d] = Nobody
  /\ subscribers' = [subscribers EXCEPT ![d] = @ \union {c}]
  /\ Goto(c, "sub_snap")
  /\ UNCHANGED <<registryVars, docVars, lock, editVars, streamVars,
                 contextVars, callVars>>

\* Takes the document lock and adds the new queue to the list.
SubAppend(c) ==
  LET d == Doc(c) IN
  /\ pc[c] = "subscribe" /\ lock[d] = Nobody
  /\ lock' = [lock EXCEPT ![d] = c]
  /\ subscribers' = [subscribers EXCEPT ![d] = @ \union {c}]
  /\ Goto(c, "sub_snap")
  /\ UNCHANGED <<registryVars, docVars, editVars, streamVars, contextVars,
                 callVars>>

\* Puts the snapshot on the queue and releases the lock.
SubSnapshot(c) ==
  LET d == Doc(c) IN
  /\ pc[c] = "sub_snap"
  /\ queue' = [queue EXCEPT ![c] =
       Append(@, [content |-> content[d], version |-> version[d], snapshot |-> TRUE])]
  /\ joined' = [joined EXCEPT ![c] = version[d]]
  /\ lock' = [lock EXCEPT ![d] = Nobody]
  /\ Goto(c, "sub_register")
  /\ UNCHANGED <<registryVars, docVars, subscribers, editVars, sending, received,
                 contextVars, callVars>>

\* context.add_callback(unsubscribe): gRPC refuses it once the RPC is over.
SubRegister(c) ==
  /\ pc[c] = "sub_register"
  /\ callback' = [callback EXCEPT ![c] = active[c]]
  /\ Goto(c, "sub_loop")
  /\ UNCHANGED <<registryVars, docVars, lockVars, editVars, streamVars, active,
                 callVars>>

\* The loop finds the RPC active and q.get returns: the message is yielded.
SubGet(c) ==
  /\ pc[c] = "sub_loop" /\ active[c] /\ queue[c] # <<>>
  /\ sending' = [sending EXCEPT ![c] = <<Head(queue[c])>>]
  /\ queue' = [queue EXCEPT ![c] = Tail(@)]
  /\ Goto(c, "sub_send")
  /\ UNCHANGED <<registryVars, docVars, lockVars, editVars, received, joined,
                 contextVars, callVars>>

\* queue.Empty after a second: the loop looks at the context again.
SubTimeout(c) ==
  /\ pc[c] = "sub_loop" /\ active[c] /\ queue[c] = <<>>
  /\ UNCHANGED vars

\* The client takes the message, and the generator is resumed.
Deliver(c) ==
  /\ pc[c] = "sub_send" /\ active[c]
  /\ received' = [received EXCEPT ![c] = @ \o sending[c]]
  /\ sending' = [sending EXCEPT ![c] = <<>>]
  /\ Goto(c, "sub_loop")
  /\ UNCHANGED <<registryVars, docVars, lockVars, editVars, queue, joined,
                 contextVars, callVars>>

\* Mutant: the loop does not look at the context, only a failed send ends it.
SubLeaveOnSend(c) ==
  /\ pc[c] = "sub_send" /\ ~active[c]
  /\ Goto(c, "sub_exit")
  /\ UNCHANGED <<registryVars, docVars, lockVars, editVars, streamVars,
                 contextVars, callVars>>

\* The RPC is over: the loop ends, or the failed send closes the generator.
SubLeave(c) ==
  /\ pc[c] \in {"sub_loop", "sub_send"} /\ ~active[c]
  /\ Goto(c, "sub_exit")
  /\ UNCHANGED <<registryVars, docVars, lockVars, editVars, streamVars,
                 contextVars, callVars>>

\* Mutant: no finally, the callback alone has to unsubscribe.
SubExitSilently(c) ==
  /\ pc[c] = "sub_exit"
  /\ Goto(c, "done")
  /\ UNCHANGED <<registryVars, docVars, lockVars, editVars, streamVars,
                 contextVars, callVars>>

\* finally: unsubscribe(), and the thread goes back to the pool.
SubExit(c) ==
  /\ pc[c] = "sub_exit" /\ lock[Doc(c)] = Nobody
  /\ subscribers' = [subscribers EXCEPT ![Doc(c)] = @ \ {c}]
  /\ Goto(c, "done")
  /\ UNCHANGED <<registryVars, docVars, lock, editVars, streamVars, contextVars,
                 callVars>>

\* gRPC runs the registered unsubscribe on its own thread.
Callback(c) ==
  /\ callback[c] /\ ~active[c] /\ lock[Doc(c)] = Nobody
  /\ subscribers' = [subscribers EXCEPT ![Doc(c)] = @ \ {c}]
  /\ callback' = [callback EXCEPT ![c] = FALSE]
  /\ UNCHANGED <<registryVars, docVars, lock, editVars, streamVars, active,
                 callVars, pc>>

-----------------------------------------------------------------------------
\* Everything a server thread does for call c once it has been issued.
Handle(c) ==
  \/ Start(c)
  \/ CreateReject(c) \/ CreateCheck(c) \/ CreateInsert(c)
  \/ Lookup(c) \/ GetRead(c)
  \/ EditReject(c) \/ EditBegin(c) \/ EditWrite(c) \/ EditBump(c)
  \/ EditPut(c) \/ EditReturn(c)
  \/ SubAppend(c) \/ SubSnapshot(c) \/ SubRegister(c) \/ SubGet(c)
  \/ SubTimeout(c) \/ SubLeave(c) \/ SubExit(c)

Finished == (\A c \in Call : pc[c] = "done") /\ UNCHANGED vars

Next ==
  \/ \E c \in Call :
       Arrive(c) \/ Cancel(c) \/ Deliver(c) \/ Callback(c) \/ Handle(c)
  \/ Finished

Spec == Init /\ [][Next]_vars

\* Threads of the pool and gRPC's own thread are scheduled; a client that
\* reads its stream takes what it is sent.  Clients need not issue or cancel.
Fairness ==
  \A c \in Call :
    /\ WF_vars(Handle(c))
    /\ WF_vars(Callback(c))
    /\ c \in Reading => WF_vars(Deliver(c))

FairSpec == Spec /\ Fairness

-----------------------------------------------------------------------------
(***************************************************************************)
(* Invariants.                                                             *)
(***************************************************************************)

\* Every variable has its type.
TypeOK ==
  /\ docs \subseteq Name
  /\ registryLock \in Call \union {Nobody}
  /\ content \in [Name -> Seq(Char)]
  /\ version \in [Name -> Nat]
  /\ hist \in [Name -> Seq(History)]
  /\ lock \in [Name -> Call \union {Nobody}]
  /\ subscribers \in [Name -> SUBSET Call]
  /\ req \in [Call -> Request]
  /\ pc \in [Call -> Pcs]
  /\ backlog \in Seq(Call)
  /\ draft \in [Call -> Draft]
  /\ todo \in [Call -> SUBSET Call]
  /\ queue \in [Call -> Seq(Update)]
  /\ sending \in [Call -> Seq(Update)]
  /\ received \in [Call -> Seq(Update)]
  /\ joined \in [Call -> Nat]
  /\ active \in [Call -> BOOLEAN]
  /\ callback \in [Call -> BOOLEAN]
  /\ reply \in [Call -> Reply]

\* Where a handler is inside "with doc.lock".
Critical == {"edit_write", "edit_bump", "edit_put", "sub_snap"}

\* The locks are taken in the order the comment on registry_lock promises: a
\* call inside a document's critical section is that lock's only holder, one
\* between the registry's test and its insertion holds the registry, and no
\* call holds both.
LockOrder ==
  /\ \A c \in Call : pc[c] \in Critical => lock[Doc(c)] = c
  /\ \A d \in Name : lock[d] # Nobody =>
       pc[lock[d]] \in Critical /\ d = Doc(lock[d]) /\ registryLock # lock[d]
  /\ \A c \in Call : (pc[c] = "create_insert") <=> (registryLock = c)

\* No edit is lost or torn: whatever the interleaving, each version of a
\* document is the version before it with exactly the insertion of the edit
\* that made it, and no edit or create made two versions.
NoLostEdit ==
  \A d \in docs :
    /\ \A i \in 1..(Len(hist[d]) - 1) :
         LET c == hist[d][i + 1].by IN
         /\ req[c].kind = "edit" /\ Doc(c) = d
         /\ req[c].position <= Len(hist[d][i].content)
         /\ hist[d][i + 1].content =
              Insert(hist[d][i].content, req[c].position, req[c].text)
    /\ \A i, j \in 1..Len(hist[d]) : hist[d][i].by = hist[d][j].by => i = j

\* An OK answer of open or edit is a version the document really had, with
\* the content of that version; an edit is told the version that it made.
AnswersAreVersions ==
  \A c \in Call :
    reply[c].status = "OK" /\ req[c].kind \in {"get", "edit"} =>
      /\ reply[c].version < Len(hist[Doc(c)])
      /\ reply[c].content = hist[Doc(c)][reply[c].version + 1].content
      /\ req[c].kind = "edit" =>
           reply[c].version > 0 /\ hist[Doc(c)][reply[c].version + 1].by = c

\* All that a subscription was ever sent, in order: what its client has, what
\* gRPC is sending and what waits in its queue.
Streamed(c) == received[c] \o sending[c] \o queue[c]

\* Subscriptions that the running broadcast of an edit has not reached yet.
Unreached == UNION {todo[c] : c \in Call}

\* A subscriber gets exactly the edits made while it is subscribed: a
\* snapshot, then every later version once, in order and with its content,
\* and while it is on the list nothing is missing up to the current version.
StreamExact ==
  \A c \in Call :
    /\ \A i \in 1..Len(Streamed(c)) :
         LET u == Streamed(c)[i] IN
         /\ u.version = joined[c] + i - 1
         /\ u.version < Len(hist[Doc(c)])
         /\ u.content = hist[Doc(c)][u.version + 1].content
         /\ u.snapshot = (i = 1)
    /\ c \in subscribers[Doc(c)] /\ pc[c] # "sub_snap" =>
         /\ Streamed(c) # <<>>
         /\ joined[c] + Len(Streamed(c)) + (IF c \in Unreached THEN 1 ELSE 0)
              = Len(hist[Doc(c)])

\* A subscription whose handler has ended is on no document's list, whichever
\* of the callback and the finally ran first and even if gRPC refused the
\* callback; and a queue is only ever on its own document's list.
NoGhostSubscriber ==
  \A c \in Call, d \in Name :
    c \in subscribers[d] => d = Doc(c) /\ pc[c] \notin {"idle", "queued", "done"}

\* Of the creates of one stripped name exactly one succeeded if the document
\* exists, none if it does not, and the first version is that one's.
CreatedOnce ==
  \A c \in Call :
    reply[c].status = "OK" /\ req[c].kind = "create" =>
      LET n == Strip[Doc(c)] IN n \in docs /\ hist[n][1].by = c

-----------------------------------------------------------------------------
(***************************************************************************)
(* The inductive invariant behind the invariants above: where each call    *)
(* is, what it then knows, and what the lock protects.                     *)
(***************************************************************************)
EditPcs == {"edit", "edit_write", "edit_bump", "edit_put"}
SubPcs  == {"subscribe", "sub_snap", "sub_register", "sub_loop", "sub_send", "sub_exit"}
ListedPcs == SubPcs \ {"subscribe"}

\* A handler runs for requests of its own kind, on a document that exists; an
\* insertion into the registry is of a name not yet there; a call that has
\* not ended has no answer.
Staged ==
  \A c \in Call :
    /\ pc[c] = "get" => req[c].kind = "get"
    /\ pc[c] \in EditPcs => req[c].kind = "edit"
    /\ pc[c] \in SubPcs => req[c].kind = "subscribe"
    /\ pc[c] \in {"create", "create_insert"} => req[c].kind = "create"
    /\ pc[c] = "create_insert" => Strip[Doc(c)] \notin docs
    /\ pc[c] = "lookup" => req[c].kind # "create"
    /\ pc[c] = "get" \/ pc[c] \in EditPcs \/ pc[c] \in SubPcs => Doc(c) \in docs
    /\ pc[c] # "done" => reply[c].status = "none"

Latest(d) == hist[d][Len(hist[d])]

\* The history has the current version; the content is that version's except
\* between the two assignments of an edit.
Current ==
  /\ \A d \in docs :
       /\ Len(hist[d]) = version[d] + 1
       /\ (\A c \in Call : pc[c] = "edit_bump" => Doc(c) # d) => content[d] = Latest(d).content
  /\ \A d \in Name \ docs : hist[d] = <<>>

\* An edit under way holds the insertion into the latest version, and once it
\* has bumped the version it is the author of the latest one.
Drafted ==
  \A c \in Call : LET d == Doc(c) IN
    /\ pc[c] \in {"edit_write", "edit_bump"} =>
         /\ req[c].position <= Len(Latest(d).content)
         /\ draft[c].content = Insert(Latest(d).content, req[c].position, req[c].text)
    /\ pc[c] = "edit_bump" => content[d] = draft[c].content
    /\ pc[c] = "edit_put" =>
         /\ draft[c].content = Latest(d).content
         /\ draft[c].version = version[d]
         /\ Latest(d).by = c

\* Authors of versions are calls that have made their contribution.
Authored ==
  \A d \in Name : \A i \in 1..Len(hist[d]) :
    LET c == hist[d][i].by IN
    /\ i = 1 => req[c].kind = "create" /\ Strip[Doc(c)] = d /\ pc[c] = "done"
    /\ i > 1 => req[c].kind = "edit" /\ Doc(c) = d /\ pc[c] \in {"edit_put", "done"}

\* A broadcast is under way only inside its edit, and over listed queues that
\* have their snapshot.
Broadcasting ==
  \A c, s \in Call : s \in todo[c] =>
    pc[c] = "edit_put" /\ s \in subscribers[Doc(c)]

\* What a subscription has before its snapshot, and what gRPC is sending.
Listed ==
  \A c \in Call :
    /\ pc[c] \in {"idle", "queued", "lookup", "subscribe", "sub_snap"} =>
         received[c] = <<>> /\ sending[c] = <<>> /\ queue[c] = <<>>
    /\ \A d \in Name : c \in subscribers[d] => d = Doc(c) /\ pc[c] \in ListedPcs
    /\ pc[c] \in {"sub_register", "sub_loop"} => sending[c] = <<>>
    /\ callback[c] => pc[c] \notin {"idle", "queued", "lookup", "subscribe", "sub_snap"}

IInv ==
  /\ TypeOK /\ LockOrder /\ Staged /\ Current /\ Drafted /\ Authored
  /\ NoLostEdit /\ AnswersAreVersions /\ CreatedOnce
  /\ Broadcasting /\ Listed /\ StreamExact

-----------------------------------------------------------------------------
(***************************************************************************)
(* Action properties.                                                      *)
(***************************************************************************)

\* What has been committed is never rewritten, and a document never goes back
\* to an earlier version or content once its lock is free.
NeverRewritten ==
  [][\A d \in docs :
       /\ \A i \in 1..Len(hist[d]) : i <= Len(hist'[d]) /\ hist'[d][i] = hist[d][i]
       /\ lock'[d] = Nobody =>
            /\ version'[d] = Len(hist'[d]) - 1
            /\ content'[d] = hist'[d][Len(hist'[d])].content]_vars

-----------------------------------------------------------------------------
(***************************************************************************)
(* Liveness.                                                               *)
(***************************************************************************)

\* A subscription that is never cancelled and whose client keeps reading
\* gets every version of its document.
SubscriberCatchesUp ==
  \A c \in Reading :
    (c \in subscribers[Doc(c)] /\ active[c])
      ~> (~active[c] \/ joined[c] + Len(received[c]) = Len(hist[Doc(c)]))

\* The calls that may carry a request of kind k.
Asks(k) == {c \in Call : \E r \in Menu[c] : r.kind = k}

\* A cancelled subscription is taken off the list and gives its thread back.
CancelledLeaves ==
  \A c \in Asks("subscribe") : (~active[c] /\ c \in Busy) ~> (pc[c] = "done")

\* A slow or dead subscriber never blocks an edit: every edit that was issued
\* is answered.
EditsAnswered ==
  \A c \in Asks("edit") :
    (req[c].kind = "edit" /\ pc[c] = "queued") ~> (pc[c] = "done")
=============================================================================
