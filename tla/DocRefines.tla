----------------------------- MODULE DocRefines -----------------------------
(***************************************************************************)
(* The server implements the atomic service of DocAbstract.                *)
(*                                                                         *)
(* An edit takes effect when it bumps the version: from then on its answer *)
(* is settled and every subscription on the list has been announced the    *)
(* update, those included whose queue the broadcast has not reached.  A    *)
(* subscription joins when its snapshot is put, not when its queue is      *)
(* appended.  All other steps of threads, locks and queues are stutters.   *)
(***************************************************************************)
EXTENDS DocServer

\* The update that the running broadcast has still to put on c's queue.
InFlight(c) ==
  LET editors == {e \in Call : c \in todo[e]} IN
  IF editors = {} THEN <<>>
  ELSE LET e == CHOOSE e \in editors : TRUE
       IN <<[content |-> draft[e].content, version |-> draft[e].version,
             snapshot |-> FALSE]>>

Announced == [c \in Call |-> Streamed(c) \o InFlight(c)]

Audience == [d \in Name |-> {c \in subscribers[d] : pc[c] # "sub_snap"}]

Settled == [c \in Call |->
  IF pc[c] = "edit_put" THEN Ok(draft[c].content, draft[c].version) ELSE reply[c]]

Abs == INSTANCE DocAbstract WITH audience <- Audience, stream <- Announced,
                                 reply <- Settled

\* What the refinement needs besides IInv: a name about to enter the registry
\* is not blank, and a subscription about to get its snapshot is on the list.
Entering ==
  \A c \in Call :
    /\ pc[c] = "create_insert" => Strip[Doc(c)] # Blank
    /\ pc[c] = "sub_snap" => c \in subscribers[Doc(c)]

\* The server's steps are steps of the atomic service, or stutters of it.
ImplementsAbstract == Abs!Spec
=============================================================================
