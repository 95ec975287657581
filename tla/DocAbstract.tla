---------------------------- MODULE DocAbstract ----------------------------
(***************************************************************************)
(* What the document service promises (document.proto, README Design):     *)
(* every RPC takes effect in one indivisible step, an edit hands its       *)
(* update to every member of the document's audience in that step, and a   *)
(* subscription starts with a snapshot taken in the step that joins it.    *)
(* There are no threads, locks or queues here.                             *)
(***************************************************************************)
EXTENDS Naturals, Sequences

CONSTANTS Name, Blank, Strip, Call

VARIABLES
  req,       \* the request of each call
  hist,      \* hist[d][v + 1] is version v of d; empty before d is created
  audience,  \* the subscriptions that d's next edit is announced to
  stream,    \* everything announced to a subscription
  reply      \* the answer of each call

avars == <<req, hist, audience, stream, reply>>

Insert(s, p, t) == SubSeq(s, 1, p) \o t \o SubSeq(s, p + 1, Len(s))
Answered(c, s, x, v) ==
  reply' = [reply EXCEPT ![c] = [status |-> s, content |-> x, version |-> v]]

Pending(c, k) == req[c].kind = k /\ reply[c].status = "none"
Exists(d)  == hist[d] # <<>>
Now(d)     == Len(hist[d]) - 1
Text(d)    == hist[d][Len(hist[d])].content

Init ==
  /\ hist = [d \in Name |-> <<>>]
  /\ audience = [d \in Name |-> {}]
  /\ stream = [c \in Call |-> <<>>]
  /\ reply = [c \in Call |-> [status |-> "none", content |-> <<>>, version |-> 0]]

Create(c) ==
  LET d == Strip[req[c].name] IN
  /\ Pending(c, "create") /\ d # Blank /\ ~Exists(d)
  /\ hist' = [hist EXCEPT ![d] = <<[content |-> req[c].text, by |-> c]>>]
  /\ Answered(c, "OK", <<>>, 0)
  /\ UNCHANGED <<req, audience, stream>>

Get(c) ==
  LET d == req[c].name IN
  /\ Pending(c, "get") /\ Exists(d)
  /\ Answered(c, "OK", Text(d), Now(d))
  /\ UNCHANGED <<req, hist, audience, stream>>

Edit(c) ==
  LET d == req[c].name
      x == Insert(Text(d), req[c].position, req[c].text)
  IN
  /\ Pending(c, "edit") /\ Exists(d) /\ req[c].position <= Len(Text(d))
  /\ hist' = [hist EXCEPT ![d] = Append(@, [content |-> x, by |-> c])]
  /\ stream' = [s \in Call |->
       IF s \in audience[d]
         THEN Append(stream[s], [content |-> x, version |-> Now(d) + 1, snapshot |-> FALSE])
         ELSE stream[s]]
  /\ Answered(c, "OK", x, Now(d) + 1)
  /\ UNCHANGED <<req, audience>>

Join(c) ==
  LET d == req[c].name IN
  /\ Pending(c, "subscribe") /\ Exists(d) /\ stream[c] = <<>>
  /\ audience' = [audience EXCEPT ![d] = @ \union {c}]
  /\ stream' = [stream EXCEPT ![c] =
       <<[content |-> Text(d), version |-> Now(d), snapshot |-> TRUE]>>]
  /\ UNCHANGED <<req, hist, reply>>

Part(c) ==
  LET d == req[c].name IN
  /\ c \in audience[d]
  /\ audience' = [audience EXCEPT ![d] = @ \ {c}]
  /\ UNCHANGED <<req, hist, stream, reply>>

\* The four error codes, each under the condition the README's table gives.
Refuse(c) ==
  LET d == req[c].name IN
  /\ \/ /\ Pending(c, "create") /\ Strip[d] = Blank
        /\ Answered(c, "INVALID_ARGUMENT", <<>>, 0)
     \/ /\ Pending(c, "create") /\ Strip[d] # Blank /\ Exists(Strip[d])
        /\ Answered(c, "ALREADY_EXISTS", <<>>, 0)
     \/ /\ req[c].kind # "create" /\ reply[c].status = "none" /\ ~Exists(d)
        /\ Answered(c, "NOT_FOUND", <<>>, 0)
     \/ /\ Pending(c, "edit") /\ Exists(d) /\ req[c].position > Len(Text(d))
        /\ Answered(c, "OUT_OF_RANGE", <<>>, 0)
  /\ UNCHANGED <<req, hist, audience, stream>>

Next == \E c \in Call :
  Create(c) \/ Get(c) \/ Edit(c) \/ Join(c) \/ Part(c) \/ Refuse(c)

Spec == Init /\ [][Next]_avars
=============================================================================
