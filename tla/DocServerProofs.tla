-------------------------- MODULE DocServerProofs --------------------------
(***************************************************************************)
(* Proofs about DocServer and DocRefines, for every set of names,          *)
(* characters and calls, every menu of requests and every size of the      *)
(* pool; and, in the last part, about DocDemo.  DemoAssumption is used     *)
(* there only: what is proved of the server needs none of it.              *)
(***************************************************************************)
EXTENDS DocDemo, DocRefines, FiniteSums, SequenceTheorems

\* An insertion within bounds yields a text.
LEMMA InsertType ==
  ASSUME NEW S, NEW s \in Seq(S), NEW t \in Seq(S), NEW p \in Nat, p <= Len(s)
  PROVE  Insert(s, p, t) \in Seq(S)
<1>1. SubSeq(s, 1, p) \in Seq(S)
  BY SubSeqProperties
<1>2. SubSeq(s, p + 1, Len(s)) \in Seq(S)
  BY SubSeqProperties, LenProperties
<1> QED
  BY <1>1, <1>2, ConcatProperties DEF Insert

\* The answer of an aborted call, whatever its code.
LEMMA AbortType == \A s \in Status : Abort(s) \in Reply
BY EmptySeq DEF Abort, Reply

\* The answer of a call that succeeded.
LEMMA OkType == \A x \in Seq(Char), v \in Nat : Ok(x, v) \in Reply
BY DEF Ok, Reply, Status

\* The initial state is well typed.
LEMMA TypeInit == Init => TypeOK
<1> SUFFICES ASSUME Init PROVE TypeOK
  OBVIOUS
<1>1. req \in [Call -> Request]
  BY MenuAssumption DEF Init
<1> QED
  BY <1>1 DEF Init, TypeOK, NoReply, Reply, Status, Draft, Pcs

\* Every step keeps every variable in its type.
LEMMA TypeStep == TypeOK /\ [Next]_vars => TypeOK'
<1> SUFFICES ASSUME TypeOK, [Next]_vars PROVE TypeOK'
  OBVIOUS
<1> USE DEF TypeOK, registryVars, docVars, lockVars, editVars, streamVars,
            contextVars, callVars
<1>1. ASSUME NEW c \in Call, Arrive(c) PROVE TypeOK'
  BY <1>1, AppendProperties DEF Arrive, Goto, Pcs
<1>2. ASSUME NEW c \in Call, Start(c) PROVE TypeOK'
  BY <1>2, HeadTailProperties DEF Start, Goto, Pcs
<1>3. ASSUME NEW c \in Call, Cancel(c) PROVE TypeOK'
  BY <1>3 DEF Cancel
<1>4. ASSUME NEW c \in Call, CreateReject(c) PROVE TypeOK'
  BY <1>4, AbortType DEF CreateReject, Answer, Goto, Status, Pcs
<1>5. ASSUME NEW c \in Call, CreateCheck(c) PROVE TypeOK'
  <2>1. Abort("ALREADY_EXISTS") \in Reply
    BY AbortType DEF Status
  <2>2. CASE Strip[Doc(c)] \in docs
    <3>1. /\ reply' = [reply EXCEPT ![c] = Abort("ALREADY_EXISTS")]
          /\ pc' = [pc EXCEPT ![c] = "done"]
          /\ registryLock' = registryLock
      BY <1>5, <2>2 DEF CreateCheck, Answer, Goto
    <3> QED
      BY <1>5, <2>1, <3>1 DEF CreateCheck, Pcs
  <2>3. CASE Strip[Doc(c)] \notin docs
    BY <1>5, <2>3 DEF CreateCheck, Goto, Pcs
  <2> QED
    BY <2>2, <2>3
<1>6. ASSUME NEW c \in Call, CreateInsert(c) PROVE TypeOK'
  <2>1. Ok(<<>>, 0) \in Reply
    BY OkType, EmptySeq
  <2>2. Strip[Doc(c)] \in Name /\ req[c].text \in Seq(Char)
    BY NameAssumption DEF Doc, Request
  <2>3. <<[content |-> req[c].text, by |-> c]>> \in Seq(History)
    BY <2>2 DEF History
  <2> QED
    BY <1>6, <2>1, <2>2, <2>3 DEF CreateInsert, Answer, Goto, Pcs
<1>7. ASSUME NEW c \in Call, Lookup(c) PROVE TypeOK'
  <2>1. Abort("NOT_FOUND") \in Reply
    BY AbortType DEF Status
  <2>2. AfterLookup(c) \in Pcs
    BY DEF AfterLookup, Pcs
  <2>3. CASE Doc(c) \in docs
    BY <1>7, <2>2, <2>3 DEF Lookup, Goto
  <2>4. CASE Doc(c) \notin docs
    <3>1. reply' = [reply EXCEPT ![c] = Abort("NOT_FOUND")] /\ pc' = [pc EXCEPT ![c] = "done"]
      BY <1>7, <2>4 DEF Lookup, Answer, Goto
    <3>2. reply' \in [Call -> Reply] /\ pc' \in [Call -> Pcs]
      BY <2>1, <3>1 DEF Pcs
    <3> QED
      BY <1>7, <2>4, <3>2 DEF Lookup
  <2> QED
    BY <2>3, <2>4
<1>8. ASSUME NEW c \in Call, GetRead(c) PROVE TypeOK'
  BY <1>8 DEF GetRead, Answer, Goto, Ok, Reply, Status, Pcs, Doc, Request
<1>9. ASSUME NEW c \in Call, EditReject(c) PROVE TypeOK'
  BY <1>9, AbortType DEF EditReject, Answer, Goto, Status, Pcs
<1>10. ASSUME NEW c \in Call, EditBegin(c) PROVE TypeOK'
  <2>1. Insert(content[Doc(c)], req[c].position, req[c].text) \in Seq(Char)
    BY <1>10, InsertType DEF EditBegin, Doc, Request
  <2> QED
    BY <1>10, <2>1 DEF EditBegin, Goto, Pcs, Doc, Request, Draft
<1>11. ASSUME NEW c \in Call, EditWrite(c) PROVE TypeOK'
  BY <1>11 DEF EditWrite, Goto, Pcs, Doc, Request, Draft
<1>12. ASSUME NEW c \in Call, EditBump(c) PROVE TypeOK'
  <2> DEFINE d == Doc(c)
             h == [content |-> content[d], by |-> c]
  <2>1. d \in Name
    BY DEF Doc, Request
  <2>2. Append(hist[d], h) \in Seq(History)
    BY <2>1, AppendProperties DEF History
  <2>3. hist' \in [Name -> Seq(History)]
    BY <1>12, <2>1, <2>2 DEF EditBump
  <2>4. version' \in [Name -> Nat] /\ version[d] + 1 \in Nat
    BY <1>12, <2>1 DEF EditBump
  <2>5. draft' \in [Call -> Draft]
    BY <1>12, <2>1, <2>4 DEF EditBump, Draft
  <2> QED
    BY <1>12, <2>1, <2>3, <2>4, <2>5 DEF EditBump, Goto, Pcs
<1>13. ASSUME NEW c \in Call, EditPut(c) PROVE TypeOK'
  <2> DEFINE u == [content |-> draft[c].content, version |-> draft[c].version,
                   snapshot |-> FALSE]
  <2>1. u \in Update
    BY DEF Draft, Update
  <2>2. \A s \in Call : Append(queue[s], u) \in Seq(Update)
    BY <2>1, AppendProperties
  <2> HIDE DEF u
  <2>3. PICK s \in todo[c] : /\ queue' = [queue EXCEPT ![s] = Append(@, u)]
                            /\ todo' = [todo EXCEPT ![c] = @ \ {s}]
    BY <1>13 DEF EditPut, u
  <2>4. queue' \in [Call -> Seq(Update)] /\ todo' \in [Call -> SUBSET Call]
    BY <2>2, <2>3
  <2> QED
    BY <1>13, <2>4 DEF EditPut
<1>14. ASSUME NEW c \in Call, EditReturn(c) PROVE TypeOK'
  BY <1>14 DEF EditReturn, Answer, Goto, Ok, Reply, Status, Pcs, Doc, Request
<1>15. ASSUME NEW c \in Call, SubAppend(c) PROVE TypeOK'
  BY <1>15 DEF SubAppend, Goto, Pcs, Doc, Request
<1>16. ASSUME NEW c \in Call, SubSnapshot(c) PROVE TypeOK'
  <2> DEFINE d == Doc(c)
             u == [content |-> content[d], version |-> version[d], snapshot |-> TRUE]
  <2>1. d \in Name
    BY DEF Doc, Request
  <2>2. u \in Update
    BY <2>1 DEF Update
  <2>3. Append(queue[c], u) \in Seq(Update)
    BY <2>2, AppendProperties
  <2>4. queue' \in [Call -> Seq(Update)]
    BY <1>16, <2>3 DEF SubSnapshot
  <2> QED
    BY <1>16, <2>1, <2>4 DEF SubSnapshot, Goto, Pcs
<1>17. ASSUME NEW c \in Call, SubRegister(c) PROVE TypeOK'
  BY <1>17 DEF SubRegister, Goto, Pcs
<1>18. ASSUME NEW c \in Call, SubGet(c) PROVE TypeOK'
  BY <1>18, HeadTailProperties DEF SubGet, Goto, Pcs
<1>19. ASSUME NEW c \in Call, Deliver(c) PROVE TypeOK'
  BY <1>19, ConcatProperties DEF Deliver, Goto, Pcs
<1>20. ASSUME NEW c \in Call, SubLeave(c) PROVE TypeOK'
  BY <1>20 DEF SubLeave, Goto, Pcs
<1>21. ASSUME NEW c \in Call, SubExit(c) PROVE TypeOK'
  BY <1>21 DEF SubExit, Goto, Pcs, Doc, Request
<1>22. ASSUME NEW c \in Call, Callback(c) PROVE TypeOK'
  BY <1>22 DEF Callback, Doc, Request
<1>23. CASE UNCHANGED vars
  BY <1>23 DEF vars
<1> QED
  BY <1>1, <1>2, <1>3, <1>4, <1>5, <1>6, <1>7, <1>8, <1>9, <1>10, <1>11, <1>12,
     <1>13, <1>14, <1>15, <1>16, <1>17, <1>18, <1>19, <1>20, <1>21, <1>22, <1>23
     DEF Next, Handle, SubTimeout, Finished

\* The variables of the server always have their types.
THEOREM TypeCorrect == Spec => []TypeOK
BY TypeInit, TypeStep, PTL DEF Spec

-----------------------------------------------------------------------------
(***************************************************************************)
(* The locks.                                                              *)
(***************************************************************************)

\* Every step keeps the lock order.
LEMMA LockStep ==
  TypeOK /\ LockOrder /\ [Next]_vars => LockOrder'
<1> SUFFICES ASSUME TypeOK, LockOrder, [Next]_vars PROVE LockOrder'
  OBVIOUS
<1> USE DEF LockOrder, Critical, Pcs, Doc, Request, registryVars, docVars, lockVars, editVars, streamVars, contextVars, callVars
<1>a. /\ pc \in [Call -> Pcs]
     /\ lock \in [Name -> Call \union {Nobody}]
     /\ registryLock \in Call \union {Nobody}
     /\ req \in [Call -> Request]
  BY DEF TypeOK
<1>1. ASSUME NEW c \in Call, Arrive(c) PROVE LockOrder'
  BY <1>a, <1>1, CallAssumption DEF Arrive, Goto
<1>2. ASSUME NEW c \in Call, Start(c) PROVE LockOrder'
  <2>1. \E l \in {"create", "lookup"} : pc' = [pc EXCEPT ![c] = l]
    BY <1>2 DEF Start, Goto
  <2> QED
    BY <1>a, <1>2, <2>1, CallAssumption DEF Start
<1>3. ASSUME NEW c \in Call, Cancel(c) PROVE LockOrder'
  BY <1>a, <1>3, CallAssumption DEF Cancel
<1>4. ASSUME NEW c \in Call, CreateReject(c) PROVE LockOrder'
  BY <1>a, <1>4, CallAssumption DEF CreateReject, Answer, Goto
<1>5. ASSUME NEW c \in Call, CreateCheck(c) PROVE LockOrder'
  <2>1. CASE pc' = [pc EXCEPT ![c] = "done"] /\ registryLock' = registryLock
    BY <1>a, <1>5, <2>1, CallAssumption DEF CreateCheck
  <2>2. CASE pc' = [pc EXCEPT ![c] = "create_insert"] /\ registryLock' = c
    BY <1>a, <1>5, <2>2, CallAssumption DEF CreateCheck
  <2> QED
    BY <1>5, <2>1, <2>2 DEF CreateCheck, Answer, Goto
<1>6. ASSUME NEW c \in Call, CreateInsert(c) PROVE LockOrder'
  BY <1>a, <1>6, CallAssumption DEF CreateInsert, Answer, Goto
<1>7. ASSUME NEW c \in Call, Lookup(c) PROVE LockOrder'
  <2>1. \E l \in {"get", "edit", "subscribe", "done"} : pc' = [pc EXCEPT ![c] = l]
    BY <1>7 DEF Lookup, Answer, Goto, AfterLookup
  <2> QED
    BY <1>a, <1>7, <2>1, CallAssumption DEF Lookup
<1>8. ASSUME NEW c \in Call, GetRead(c) PROVE LockOrder'
  BY <1>a, <1>8, CallAssumption DEF GetRead, Answer, Goto
<1>9. ASSUME NEW c \in Call, EditReject(c) PROVE LockOrder'
  BY <1>a, <1>9, CallAssumption DEF EditReject, Answer, Goto
<1>10. ASSUME NEW c \in Call, EditBegin(c) PROVE LockOrder'
  BY <1>a, <1>10, CallAssumption DEF EditBegin, Goto
<1>11. ASSUME NEW c \in Call, EditWrite(c) PROVE LockOrder'
  BY <1>a, <1>11, CallAssumption DEF EditWrite, Goto
<1>12. ASSUME NEW c \in Call, EditBump(c) PROVE LockOrder'
  BY <1>a, <1>12, CallAssumption DEF EditBump, Goto
<1>13. ASSUME NEW c \in Call, EditPut(c) PROVE LockOrder'
  BY <1>a, <1>13, CallAssumption DEF EditPut
<1>14. ASSUME NEW c \in Call, EditReturn(c) PROVE LockOrder'
  BY <1>a, <1>14, CallAssumption DEF EditReturn, Answer, Goto
<1>15. ASSUME NEW c \in Call, SubAppend(c) PROVE LockOrder'
  BY <1>a, <1>15, CallAssumption DEF SubAppend, Goto
<1>16. ASSUME NEW c \in Call, SubSnapshot(c) PROVE LockOrder'
  BY <1>a, <1>16, CallAssumption DEF SubSnapshot, Goto
<1>17. ASSUME NEW c \in Call, SubRegister(c) PROVE LockOrder'
  BY <1>a, <1>17, CallAssumption DEF SubRegister, Goto
<1>18. ASSUME NEW c \in Call, SubGet(c) PROVE LockOrder'
  BY <1>a, <1>18, CallAssumption DEF SubGet, Goto
<1>19. ASSUME NEW c \in Call, Deliver(c) PROVE LockOrder'
  BY <1>a, <1>19, CallAssumption DEF Deliver, Goto
<1>20. ASSUME NEW c \in Call, SubLeave(c) PROVE LockOrder'
  BY <1>a, <1>20, CallAssumption DEF SubLeave, Goto
<1>21. ASSUME NEW c \in Call, SubExit(c) PROVE LockOrder'
  BY <1>a, <1>21, CallAssumption DEF SubExit, Goto
<1>22. ASSUME NEW c \in Call, Callback(c) PROVE LockOrder'
  BY <1>a, <1>22, CallAssumption DEF Callback
<1>23. CASE UNCHANGED vars
  BY <1>23 DEF vars
<1> QED
  BY <1>1, <1>2, <1>3, <1>4, <1>5, <1>6, <1>7, <1>8, <1>9, <1>10, <1>11, <1>12,
     <1>13, <1>14, <1>15, <1>16, <1>17, <1>18, <1>19, <1>20, <1>21, <1>22, <1>23
     DEF Next, Handle, SubTimeout, Finished

-----------------------------------------------------------------------------
(***************************************************************************)
(* The stages of a call.                                                   *)
(***************************************************************************)

\* Every step keeps what a call knows at each stage.
LEMMA StageStep ==
  TypeOK /\ LockOrder /\ Staged /\ [Next]_vars => Staged'
<1> SUFFICES ASSUME TypeOK, LockOrder, Staged, [Next]_vars PROVE Staged'
  OBVIOUS
<1> USE DEF LockOrder, Staged, EditPcs, SubPcs, Pcs, Doc, Request, Kind, Reply, registryVars, docVars, lockVars, editVars, streamVars, contextVars, callVars
<1>a. /\ pc \in [Call -> Pcs]
     /\ req \in [Call -> Request]
     /\ reply \in [Call -> Reply]
     /\ registryLock \in Call \union {Nobody}
  BY DEF TypeOK
<1>1. ASSUME NEW c \in Call, Arrive(c) PROVE Staged'
  BY <1>a, <1>1 DEF Arrive, Goto
<1>2. ASSUME NEW c \in Call, Start(c) PROVE Staged'
  <2>1. CASE req[c].kind = "create" /\ pc' = [pc EXCEPT ![c] = "create"]
    BY <1>a, <1>2, <2>1 DEF Start
  <2>2. CASE req[c].kind # "create" /\ pc' = [pc EXCEPT ![c] = "lookup"]
    BY <1>a, <1>2, <2>2 DEF Start
  <2> QED
    BY <1>2, <2>1, <2>2 DEF Start, Goto
<1>3. ASSUME NEW c \in Call, Cancel(c) PROVE Staged'
  BY <1>a, <1>3 DEF Cancel
<1>4. ASSUME NEW c \in Call, CreateReject(c) PROVE Staged'
  BY <1>a, <1>4 DEF CreateReject, Answer, Goto
<1>5. ASSUME NEW c \in Call, CreateCheck(c) PROVE Staged'
  <2>1. CASE pc' = [pc EXCEPT ![c] = "done"]
    BY <1>a, <1>5, <2>1 DEF CreateCheck, Answer
  <2>2. CASE /\ Strip[Doc(c)] \notin docs /\ reply' = reply
             /\ pc' = [pc EXCEPT ![c] = "create_insert"]
    BY <1>a, <1>5, <2>2 DEF CreateCheck
  <2> QED
    BY <1>5, <2>1, <2>2 DEF CreateCheck, Answer, Goto
<1>6. ASSUME NEW c \in Call, CreateInsert(c) PROVE Staged'
  BY <1>a, <1>6 DEF CreateInsert, Answer, Goto
<1>7. ASSUME NEW c \in Call, Lookup(c) PROVE Staged'
  <2>1. CASE Doc(c) \in docs /\ pc' = [pc EXCEPT ![c] = AfterLookup(c)]
    BY <1>a, <1>7, <2>1 DEF Lookup, AfterLookup
  <2>2. CASE pc' = [pc EXCEPT ![c] = "done"]
    BY <1>a, <1>7, <2>2 DEF Lookup, Answer
  <2> QED
    BY <1>7, <2>1, <2>2 DEF Lookup, Answer, Goto
<1>8. ASSUME NEW c \in Call, GetRead(c) PROVE Staged'
  BY <1>a, <1>8 DEF GetRead, Answer, Goto
<1>9. ASSUME NEW c \in Call, EditReject(c) PROVE Staged'
  BY <1>a, <1>9 DEF EditReject, Answer, Goto
<1>10. ASSUME NEW c \in Call, EditBegin(c) PROVE Staged'
  BY <1>a, <1>10 DEF EditBegin, Goto
<1>11. ASSUME NEW c \in Call, EditWrite(c) PROVE Staged'
  BY <1>a, <1>11 DEF EditWrite, Goto
<1>12. ASSUME NEW c \in Call, EditBump(c) PROVE Staged'
  BY <1>a, <1>12 DEF EditBump, Goto
<1>13. ASSUME NEW c \in Call, EditPut(c) PROVE Staged'
  BY <1>a, <1>13 DEF EditPut
<1>14. ASSUME NEW c \in Call, EditReturn(c) PROVE Staged'
  BY <1>a, <1>14 DEF EditReturn, Answer, Goto
<1>15. ASSUME NEW c \in Call, SubAppend(c) PROVE Staged'
  BY <1>a, <1>15 DEF SubAppend, Goto
<1>16. ASSUME NEW c \in Call, SubSnapshot(c) PROVE Staged'
  BY <1>a, <1>16 DEF SubSnapshot, Goto
<1>17. ASSUME NEW c \in Call, SubRegister(c) PROVE Staged'
  BY <1>a, <1>17 DEF SubRegister, Goto
<1>18. ASSUME NEW c \in Call, SubGet(c) PROVE Staged'
  BY <1>a, <1>18 DEF SubGet, Goto
<1>19. ASSUME NEW c \in Call, Deliver(c) PROVE Staged'
  BY <1>a, <1>19 DEF Deliver, Goto
<1>20. ASSUME NEW c \in Call, SubLeave(c) PROVE Staged'
  BY <1>a, <1>20 DEF SubLeave, Goto
<1>21. ASSUME NEW c \in Call, SubExit(c) PROVE Staged'
  BY <1>a, <1>21 DEF SubExit, Goto
<1>22. ASSUME NEW c \in Call, Callback(c) PROVE Staged'
  BY <1>a, <1>22 DEF Callback
<1>23. CASE UNCHANGED vars
  BY <1>23 DEF vars
<1> QED
  BY <1>1, <1>2, <1>3, <1>4, <1>5, <1>6, <1>7, <1>8, <1>9, <1>10, <1>11, <1>12,
     <1>13, <1>14, <1>15, <1>16, <1>17, <1>18, <1>19, <1>20, <1>21, <1>22, <1>23
     DEF Next, Handle, SubTimeout, Finished

-----------------------------------------------------------------------------
(***************************************************************************)
(* Content, version and the drafts of running edits.                       *)
(***************************************************************************)

\* Every step keeps the history current.
LEMMA CurrentStep ==
  TypeOK /\ LockOrder /\ Staged /\ Current /\ Drafted /\ [Next]_vars => Current'
<1> SUFFICES ASSUME TypeOK, LockOrder, Staged, Current, Drafted, [Next]_vars PROVE Current'
  OBVIOUS
<1> USE DEF LockOrder, Staged, Current, Latest, Critical, EditPcs, SubPcs, Pcs, Doc, Request, registryVars, docVars, lockVars, editVars, streamVars, contextVars, callVars
<1>a. /\ pc \in [Call -> Pcs]
     /\ req \in [Call -> Request]
     /\ lock \in [Name -> Call \union {Nobody}]
     /\ docs \subseteq Name
     /\ content \in [Name -> Seq(Char)]
     /\ version \in [Name -> Nat]
     /\ hist \in [Name -> Seq(History)]
  BY DEF TypeOK
<1>1. ASSUME NEW c \in Call, Arrive(c) PROVE Current'
  BY <1>a, <1>1, CallAssumption DEF Arrive, Goto
<1>2. ASSUME NEW c \in Call, Start(c) PROVE Current'
  <2>1. \E l \in {"create", "lookup"} : pc' = [pc EXCEPT ![c] = l]
    BY <1>2 DEF Start, Goto
  <2> QED
    BY <1>a, <1>2, <2>1 DEF Start
<1>3. ASSUME NEW c \in Call, Cancel(c) PROVE Current'
  BY <1>a, <1>3, CallAssumption DEF Cancel
<1>4. ASSUME NEW c \in Call, CreateReject(c) PROVE Current'
  BY <1>a, <1>4, CallAssumption DEF CreateReject, Answer, Goto
<1>5. ASSUME NEW c \in Call, CreateCheck(c) PROVE Current'
  <2>1. \E l \in {"done", "create_insert"} : pc' = [pc EXCEPT ![c] = l]
    BY <1>5 DEF CreateCheck, Answer, Goto
  <2> QED
    BY <1>a, <1>5, <2>1 DEF CreateCheck
<1>6. ASSUME NEW c \in Call, CreateInsert(c) PROVE Current'
  <2> DEFINE n == Strip[Doc(c)]
  <2>1. n \in Name /\ n \notin docs
    BY <1>a, <1>6, NameAssumption DEF CreateInsert
  <2>2. /\ docs' = docs \union {n}
        /\ hist' = [hist EXCEPT ![n] = <<[content |-> req[c].text, by |-> c]>>]
        /\ content' = [content EXCEPT ![n] = req[c].text]
        /\ version' = [version EXCEPT ![n] = 0]
        /\ pc' = [pc EXCEPT ![c] = "done"] /\ req' = req
    BY <1>6 DEF CreateInsert, Answer, Goto
  <2> HIDE DEF n
  <2>3. /\ hist'[n] = <<[content |-> req[c].text, by |-> c]>>
        /\ content'[n] = req[c].text /\ version'[n] = 0
    BY <1>a, <2>1, <2>2
  <2>4. Len(hist'[n]) = version'[n] + 1 /\ content'[n] = hist'[n][Len(hist'[n])].content
    BY <2>3
  <2>5. \A d \in Name \ {n} : hist'[d] = hist[d] /\ content'[d] = content[d] /\ version'[d] = version[d]
    BY <1>a, <2>1, <2>2
  <2>6. \A e \in Call : pc'[e] = "edit_bump" <=> pc[e] = "edit_bump"
    BY <1>a, <1>6, <2>2 DEF CreateInsert
  <2> QED
    BY <1>a, <2>1, <2>2, <2>4, <2>5, <2>6
<1>7. ASSUME NEW c \in Call, Lookup(c) PROVE Current'
  <2>1. \E l \in {"get", "edit", "subscribe", "done"} : pc' = [pc EXCEPT ![c] = l]
    BY <1>7 DEF Lookup, Answer, Goto, AfterLookup
  <2> QED
    BY <1>a, <1>7, <2>1 DEF Lookup
<1>8. ASSUME NEW c \in Call, GetRead(c) PROVE Current'
  BY <1>a, <1>8, CallAssumption DEF GetRead, Answer, Goto
<1>9. ASSUME NEW c \in Call, EditReject(c) PROVE Current'
  BY <1>a, <1>9, CallAssumption DEF EditReject, Answer, Goto
<1>10. ASSUME NEW c \in Call, EditBegin(c) PROVE Current'
  BY <1>a, <1>10, CallAssumption DEF EditBegin, Goto
<1>11. ASSUME NEW c \in Call, EditWrite(c) PROVE Current'
  BY <1>a, <1>11, CallAssumption DEF EditWrite, Goto
<1>12. ASSUME NEW c \in Call, EditBump(c) PROVE Current'
  BY <1>a, <1>12, CallAssumption DEF EditBump, Goto
<1>13. ASSUME NEW c \in Call, EditPut(c) PROVE Current'
  BY <1>a, <1>13, CallAssumption DEF EditPut
<1>14. ASSUME NEW c \in Call, EditReturn(c) PROVE Current'
  BY <1>a, <1>14, CallAssumption DEF EditReturn, Answer, Goto
<1>15. ASSUME NEW c \in Call, SubAppend(c) PROVE Current'
  BY <1>a, <1>15, CallAssumption DEF SubAppend, Goto
<1>16. ASSUME NEW c \in Call, SubSnapshot(c) PROVE Current'
  BY <1>a, <1>16, CallAssumption DEF SubSnapshot, Goto
<1>17. ASSUME NEW c \in Call, SubRegister(c) PROVE Current'
  BY <1>a, <1>17, CallAssumption DEF SubRegister, Goto
<1>18. ASSUME NEW c \in Call, SubGet(c) PROVE Current'
  BY <1>a, <1>18, CallAssumption DEF SubGet, Goto
<1>19. ASSUME NEW c \in Call, Deliver(c) PROVE Current'
  BY <1>a, <1>19, CallAssumption DEF Deliver, Goto
<1>20. ASSUME NEW c \in Call, SubLeave(c) PROVE Current'
  BY <1>a, <1>20, CallAssumption DEF SubLeave, Goto
<1>21. ASSUME NEW c \in Call, SubExit(c) PROVE Current'
  BY <1>a, <1>21, CallAssumption DEF SubExit, Goto
<1>22. ASSUME NEW c \in Call, Callback(c) PROVE Current'
  BY <1>a, <1>22, CallAssumption DEF Callback
<1>23. CASE UNCHANGED vars
  BY <1>23 DEF vars
<1> QED
  BY <1>1, <1>2, <1>3, <1>4, <1>5, <1>6, <1>7, <1>8, <1>9, <1>10, <1>11, <1>12,
     <1>13, <1>14, <1>15, <1>16, <1>17, <1>18, <1>19, <1>20, <1>21, <1>22, <1>23
     DEF Next, Handle, SubTimeout, Finished
\* Every step keeps the drafts of running edits right.
LEMMA DraftStep ==
  TypeOK /\ LockOrder /\ Staged /\ Current /\ Drafted /\ [Next]_vars => Drafted'
<1> SUFFICES ASSUME TypeOK, LockOrder, Staged, Current, Drafted, [Next]_vars PROVE Drafted'
  OBVIOUS
<1> USE DEF LockOrder, Staged, Current, Drafted, Latest, Critical, EditPcs, SubPcs, Pcs, Doc, Request, registryVars, docVars, lockVars, editVars, streamVars, contextVars, callVars
<1>a. /\ pc \in [Call -> Pcs]
     /\ req \in [Call -> Request]
     /\ lock \in [Name -> Call \union {Nobody}]
     /\ docs \subseteq Name
     /\ content \in [Name -> Seq(Char)]
     /\ version \in [Name -> Nat]
     /\ hist \in [Name -> Seq(History)]
     /\ draft \in [Call -> Draft]
  BY DEF TypeOK
<1>1. ASSUME NEW c \in Call, Arrive(c) PROVE Drafted'
  BY <1>a, <1>1, CallAssumption DEF Arrive, Goto
<1>2. ASSUME NEW c \in Call, Start(c) PROVE Drafted'
  <2>1. \E l \in {"create", "lookup"} : pc' = [pc EXCEPT ![c] = l]
    BY <1>2 DEF Start, Goto
  <2> QED
    BY <1>a, <1>2, <2>1 DEF Start
<1>3. ASSUME NEW c \in Call, Cancel(c) PROVE Drafted'
  BY <1>a, <1>3, CallAssumption DEF Cancel
<1>4. ASSUME NEW c \in Call, CreateReject(c) PROVE Drafted'
  BY <1>a, <1>4, CallAssumption DEF CreateReject, Answer, Goto
<1>5. ASSUME NEW c \in Call, CreateCheck(c) PROVE Drafted'
  <2>1. \E l \in {"done", "create_insert"} : pc' = [pc EXCEPT ![c] = l]
    BY <1>5 DEF CreateCheck, Answer, Goto
  <2> QED
    BY <1>a, <1>5, <2>1 DEF CreateCheck
<1>6. ASSUME NEW c \in Call, CreateInsert(c) PROVE Drafted'
  BY <1>a, <1>6, CallAssumption DEF CreateInsert, Answer, Goto
<1>7. ASSUME NEW c \in Call, Lookup(c) PROVE Drafted'
  <2>1. \E l \in {"get", "edit", "subscribe", "done"} : pc' = [pc EXCEPT ![c] = l]
    BY <1>7 DEF Lookup, Answer, Goto, AfterLookup
  <2> QED
    BY <1>a, <1>7, <2>1 DEF Lookup
<1>8. ASSUME NEW c \in Call, GetRead(c) PROVE Drafted'
  BY <1>a, <1>8, CallAssumption DEF GetRead, Answer, Goto
<1>9. ASSUME NEW c \in Call, EditReject(c) PROVE Drafted'
  BY <1>a, <1>9, CallAssumption DEF EditReject, Answer, Goto
<1>10. ASSUME NEW c \in Call, EditBegin(c) PROVE Drafted'
  <2>1. Doc(c) \in docs /\ Doc(c) \in Name
    BY <1>a, <1>10 DEF EditBegin
  <2>2. \A e \in Call : pc[e] \in {"edit_write", "edit_bump", "edit_put"} => Doc(e) # Doc(c)
    BY <1>a, <1>10, CallAssumption DEF EditBegin
  <2>3. content[Doc(c)] = Latest(Doc(c)).content
    BY <2>1, <2>2
  <2>4. /\ pc' = [pc EXCEPT ![c] = "edit_write"]
        /\ draft' = [draft EXCEPT ![c] =
             [content |-> Insert(content[Doc(c)], req[c].position, req[c].text),
              version |-> version[Doc(c)]]]
        /\ req[c].position <= Len(content[Doc(c)])
        /\ UNCHANGED <<req, content, version, hist>>
    BY <1>10 DEF EditBegin, Goto
  <2>5. /\ req[c].position <= Len(Latest(Doc(c)).content)
        /\ draft'[c].content = Insert(Latest(Doc(c)).content, req[c].position, req[c].text)
    BY <1>a, <2>3, <2>4
  <2>6. \A e \in Call \ {c} : draft'[e] = draft[e] /\ pc'[e] = pc[e]
    BY <1>a, <2>4
  <2>7. pc'[c] = "edit_write"
    BY <1>a, <2>4
  <2> QED
    BY <2>4, <2>5, <2>6, <2>7
<1>11. ASSUME NEW c \in Call, EditWrite(c) PROVE Drafted'
  BY <1>a, <1>11, CallAssumption DEF EditWrite, Goto
<1>12. ASSUME NEW c \in Call, EditBump(c) PROVE Drafted'
  BY <1>a, <1>12, CallAssumption DEF EditBump, Goto
<1>13. ASSUME NEW c \in Call, EditPut(c) PROVE Drafted'
  BY <1>a, <1>13, CallAssumption DEF EditPut
<1>14. ASSUME NEW c \in Call, EditReturn(c) PROVE Drafted'
  BY <1>a, <1>14, CallAssumption DEF EditReturn, Answer, Goto
<1>15. ASSUME NEW c \in Call, SubAppend(c) PROVE Drafted'
  BY <1>a, <1>15, CallAssumption DEF SubAppend, Goto
<1>16. ASSUME NEW c \in Call, SubSnapshot(c) PROVE Drafted'
  BY <1>a, <1>16, CallAssumption DEF SubSnapshot, Goto
<1>17. ASSUME NEW c \in Call, SubRegister(c) PROVE Drafted'
  BY <1>a, <1>17, CallAssumption DEF SubRegister, Goto
<1>18. ASSUME NEW c \in Call, SubGet(c) PROVE Drafted'
  BY <1>a, <1>18, CallAssumption DEF SubGet, Goto
<1>19. ASSUME NEW c \in Call, Deliver(c) PROVE Drafted'
  BY <1>a, <1>19, CallAssumption DEF Deliver, Goto
<1>20. ASSUME NEW c \in Call, SubLeave(c) PROVE Drafted'
  BY <1>a, <1>20, CallAssumption DEF SubLeave, Goto
<1>21. ASSUME NEW c \in Call, SubExit(c) PROVE Drafted'
  BY <1>a, <1>21, CallAssumption DEF SubExit, Goto
<1>22. ASSUME NEW c \in Call, Callback(c) PROVE Drafted'
  BY <1>a, <1>22, CallAssumption DEF Callback
<1>23. CASE UNCHANGED vars
  BY <1>23 DEF vars
<1> QED
  BY <1>1, <1>2, <1>3, <1>4, <1>5, <1>6, <1>7, <1>8, <1>9, <1>10, <1>11, <1>12,
     <1>13, <1>14, <1>15, <1>16, <1>17, <1>18, <1>19, <1>20, <1>21, <1>22, <1>23
     DEF Next, Handle, SubTimeout, Finished

-----------------------------------------------------------------------------
(***************************************************************************)
(* The history of a document.                                              *)
(***************************************************************************)

\* Only an insertion into the registry and the end of an edit change what is
\* committed, and a call's request never changes.
LEMMA HistoryFrame ==
  [Next]_vars =>
    /\ req' = req
    /\ UNCHANGED <<docs, hist>> \/ \E c \in Call : CreateInsert(c) \/ EditBump(c)
<1> SUFFICES ASSUME [Next]_vars
             PROVE  /\ req' = req
                    /\ UNCHANGED <<docs, hist>> \/ \E c \in Call : CreateInsert(c) \/ EditBump(c)
  OBVIOUS
<1> USE DEF registryVars, docVars, callVars
<1>1. ASSUME NEW c \in Call,
             Arrive(c) \/ Cancel(c) \/ Deliver(c) \/ Callback(c) \/ Start(c)
      PROVE  UNCHANGED <<req, docs, hist>>
  BY <1>1 DEF Arrive, Cancel, Deliver, Callback, Start
<1>2. ASSUME NEW c \in Call,
             CreateReject(c) \/ CreateCheck(c) \/ Lookup(c) \/ GetRead(c)
      PROVE  UNCHANGED <<req, docs, hist>>
  BY <1>2 DEF CreateReject, CreateCheck, Lookup, GetRead
<1>3. ASSUME NEW c \in Call,
             EditReject(c) \/ EditBegin(c) \/ EditWrite(c) \/ EditPut(c) \/ EditReturn(c)
      PROVE  UNCHANGED <<req, docs, hist>>
  BY <1>3 DEF EditReject, EditBegin, EditWrite, EditPut, EditReturn
<1>4. ASSUME NEW c \in Call,
             \/ SubAppend(c) \/ SubSnapshot(c) \/ SubRegister(c) \/ SubGet(c)
             \/ SubLeave(c) \/ SubExit(c)
      PROVE  UNCHANGED <<req, docs, hist>>
  BY <1>4 DEF SubAppend, SubSnapshot, SubRegister, SubGet, SubLeave, SubExit
<1>5. ASSUME NEW c \in Call, CreateInsert(c) \/ EditBump(c) PROVE req' = req
  BY <1>5 DEF CreateInsert, EditBump
<1>6. CASE UNCHANGED vars
  BY <1>6 DEF vars
<1> QED
  BY <1>1, <1>2, <1>3, <1>4, <1>5, <1>6 DEF Next, Handle, SubTimeout, Finished

\* A call that has ended stays ended and keeps its answer, and an edit that
\* has bumped the version can only end.
LEMMA EndFrame ==
  TypeOK /\ [Next]_vars =>
    \A e \in Call :
      /\ pc[e] = "done" => pc'[e] = "done" /\ reply'[e] = reply[e]
      /\ pc[e] = "edit_put" => pc'[e] \in {"edit_put", "done"}
<1> DEFINE Frame(e) == /\ pc[e] = "done" => pc'[e] = "done" /\ reply'[e] = reply[e]
                       /\ pc[e] = "edit_put" => pc'[e] \in {"edit_put", "done"}
<1> SUFFICES ASSUME TypeOK, [Next]_vars, NEW e \in Call PROVE Frame(e)
  OBVIOUS
<1>a. pc \in [Call -> Pcs] /\ reply \in [Call -> Reply]
  BY DEF TypeOK
<1> USE DEF callVars
<1>1. ASSUME NEW c \in Call,
             Arrive(c) \/ Cancel(c) \/ Deliver(c) \/ Callback(c) \/ Start(c)
      PROVE  Frame(e)
  BY <1>a, <1>1 DEF Arrive, Cancel, Deliver, Callback, Start, Goto
<1>2. ASSUME NEW c \in Call,
             CreateReject(c) \/ CreateCheck(c) \/ CreateInsert(c)
      PROVE  Frame(e)
  BY <1>a, <1>2 DEF CreateReject, CreateCheck, CreateInsert, Answer, Goto
<1>3. ASSUME NEW c \in Call, Lookup(c) \/ GetRead(c)
      PROVE  Frame(e)
  BY <1>a, <1>3 DEF Lookup, GetRead, Answer, Goto
<1>4. ASSUME NEW c \in Call,
             \/ EditReject(c) \/ EditBegin(c) \/ EditWrite(c) \/ EditBump(c)
             \/ EditPut(c) \/ EditReturn(c)
      PROVE  Frame(e)
  BY <1>a, <1>4 DEF EditReject, EditBegin, EditWrite, EditBump, EditPut, EditReturn, Answer, Goto
<1>5. ASSUME NEW c \in Call,
             \/ SubAppend(c) \/ SubSnapshot(c) \/ SubRegister(c) \/ SubGet(c)
             \/ SubLeave(c) \/ SubExit(c)
      PROVE  Frame(e)
  BY <1>a, <1>5 DEF SubAppend, SubSnapshot, SubRegister, SubGet, SubLeave, SubExit, Goto
<1>6. CASE UNCHANGED vars
  BY <1>6 DEF vars
<1> QED
  BY <1>1, <1>2, <1>3, <1>4, <1>5, <1>6 DEF Next, Handle, SubTimeout, Finished

\* The entries of a history have their type.
LEMMA HistType ==
  TypeOK => \A d \in Name : \A i \in 1..Len(hist[d]) :
              hist[d][i].by \in Call /\ hist[d][i].content \in Seq(Char)
<1> SUFFICES ASSUME TypeOK, NEW d \in Name, NEW i \in 1..Len(hist[d])
             PROVE  hist[d][i] \in History
  BY DEF History
<1>1. hist[d] \in Seq(History)
  BY DEF TypeOK
<1> QED
  BY <1>1, ElementOfSeq

\* A new document's history is its initial content, and no other changes.
LEMMA InsertHistory ==
  ASSUME TypeOK, Staged, NEW c \in Call, CreateInsert(c)
  PROVE  LET n == Strip[Doc(c)] IN
         /\ n \in Name \ docs /\ docs' = docs \union {n}
         /\ hist'[n] = <<[content |-> req[c].text, by |-> c]>>
         /\ \A d \in Name \ {n} : hist'[d] = hist[d]
         /\ req[c].kind = "create" /\ pc'[c] = "done" /\ pc[c] # "done"
<1>1. Strip[Doc(c)] \in Name
  BY NameAssumption DEF TypeOK, Doc, Request
<1>2. pc[c] = "create_insert" /\ Strip[Doc(c)] \notin docs /\ req[c].kind = "create"
  BY DEF CreateInsert, Staged
<1>3. pc'[c] = "done"
  BY DEF CreateInsert, Answer, Goto, TypeOK
<1>4. /\ hist'[Strip[Doc(c)]] = <<[content |-> req[c].text, by |-> c]>>
      /\ \A d \in Name \ {Strip[Doc(c)]} : hist'[d] = hist[d]
  BY <1>1 DEF CreateInsert, TypeOK
<1> QED
  BY <1>1, <1>2, <1>3, <1>4 DEF CreateInsert

\* An edit's bump appends one version, its own, to one document's history.
LEMMA BumpHistory ==
  ASSUME TypeOK, Staged, Current, Drafted, NEW c \in Call, EditBump(c)
  PROVE  LET d == Doc(c)
             n == Len(hist[d])
         IN
         /\ d \in docs /\ docs' = docs /\ n \in Nat /\ n > 0
         /\ Len(hist'[d]) = n + 1
         /\ \A i \in 1..n : hist'[d][i] = hist[d][i]
         /\ hist'[d][n + 1].by = c
         /\ req[c].position <= Len(hist[d][n].content)
         /\ hist'[d][n + 1].content =
              Insert(hist[d][n].content, req[c].position, req[c].text)
         /\ \A e \in Name \ {d} : hist'[e] = hist[e]
         /\ req[c].kind = "edit" /\ pc[c] = "edit_bump" /\ pc'[c] = "edit_put"
<1> DEFINE d == Doc(c)
           h == [content |-> content[d], by |-> c]
<1>1. pc[c] = "edit_bump" /\ d \in docs /\ req[c].kind = "edit"
  BY DEF EditBump, Staged, EditPcs
<1>2. d \in Name /\ hist[d] \in Seq(History) /\ h \in History /\ version[d] \in Nat
  BY <1>1 DEF TypeOK, Doc, Request, History
<1>3. hist'[d] = Append(hist[d], h) /\ \A e \in Name \ {d} : hist'[e] = hist[e]
  BY <1>2 DEF EditBump, TypeOK
<1>4. /\ Len(hist'[d]) = Len(hist[d]) + 1 /\ hist'[d][Len(hist[d]) + 1] = h
      /\ \A i \in 1..Len(hist[d]) : hist'[d][i] = hist[d][i]
  BY <1>2, <1>3, AppendProperties
<1>5. Len(hist[d]) = version[d] + 1
  BY <1>1 DEF Current
<1>6. /\ req[c].position <= Len(hist[d][Len(hist[d])].content)
      /\ h.content = Insert(hist[d][Len(hist[d])].content, req[c].position, req[c].text)
  BY <1>1 DEF Drafted, Latest
<1>7. docs' = docs /\ pc'[c] = "edit_put"
  BY DEF EditBump, registryVars, Goto, TypeOK
<1> QED
  BY <1>1, <1>2, <1>3, <1>4, <1>5, <1>6, <1>7

\* Every step keeps the authors of the history right.
LEMMA AuthorStep ==
  TypeOK /\ Staged /\ Current /\ Drafted /\ Authored /\ [Next]_vars => Authored'
<1> SUFFICES ASSUME TypeOK, Staged, Current, Drafted, Authored, [Next]_vars,
                    NEW d \in Name, NEW i \in 1..Len(hist'[d])
             PROVE  LET e == hist'[d][i].by IN
                    /\ i = 1 => req'[e].kind = "create" /\ Strip[req'[e].name] = d /\ pc'[e] = "done"
                    /\ i > 1 => req'[e].kind = "edit" /\ req'[e].name = d /\ pc'[e] \in {"edit_put", "done"}
  BY DEF Authored, Doc
<1>1. req' = req /\ \A e \in Call :
        /\ pc[e] = "done" => pc'[e] = "done"
        /\ pc[e] = "edit_put" => pc'[e] \in {"edit_put", "done"}
  BY HistoryFrame, EndFrame
<1>2. ASSUME i \in 1..Len(hist[d]), hist'[d][i] = hist[d][i]
      PROVE  LET e == hist'[d][i].by IN
             /\ i = 1 => req'[e].kind = "create" /\ Strip[req'[e].name] = d /\ pc'[e] = "done"
             /\ i > 1 => req'[e].kind = "edit" /\ req'[e].name = d /\ pc'[e] \in {"edit_put", "done"}
  BY <1>1, <1>2, HistType DEF Authored, Doc
<1>3. CASE UNCHANGED <<docs, hist>>
  BY <1>2, <1>3
<1>4. ASSUME NEW c \in Call, CreateInsert(c)
      PROVE  LET e == hist'[d][i].by IN
             /\ i = 1 => req'[e].kind = "create" /\ Strip[req'[e].name] = d /\ pc'[e] = "done"
             /\ i > 1 => req'[e].kind = "edit" /\ req'[e].name = d /\ pc'[e] \in {"edit_put", "done"}
  <2>a. /\ hist'[Strip[Doc(c)]] = <<[content |-> req[c].text, by |-> c]>>
        /\ \A e \in Name \ {Strip[Doc(c)]} : hist'[e] = hist[e]
        /\ req[c].kind = "create" /\ pc'[c] = "done"
    BY <1>4, InsertHistory
  <2>1. CASE d # Strip[Doc(c)]
    BY <1>2, <2>a, <2>1
  <2>2. CASE d = Strip[Doc(c)]
    <3>1. hist'[d] = <<[content |-> req[c].text, by |-> c]>>
      BY <2>a, <2>2
    <3>2. i = 1 /\ hist'[d][i].by = c
      BY <3>1
    <3>3. req'[c].kind = "create" /\ Strip[req'[c].name] = d /\ pc'[c] = "done"
      BY <1>1, <2>a, <2>2 DEF Doc
    <3> QED
      BY <3>2, <3>3
  <2> QED
    BY <2>1, <2>2
<1>5. ASSUME NEW c \in Call, EditBump(c)
      PROVE  LET e == hist'[d][i].by IN
             /\ i = 1 => req'[e].kind = "create" /\ Strip[req'[e].name] = d /\ pc'[e] = "done"
             /\ i > 1 => req'[e].kind = "edit" /\ req'[e].name = d /\ pc'[e] \in {"edit_put", "done"}
  <2>a. /\ Len(hist[Doc(c)]) \in Nat /\ Len(hist[Doc(c)]) > 0
        /\ Len(hist'[Doc(c)]) = Len(hist[Doc(c)]) + 1
        /\ \A j \in 1..Len(hist[Doc(c)]) : hist'[Doc(c)][j] = hist[Doc(c)][j]
        /\ hist'[Doc(c)][Len(hist[Doc(c)]) + 1].by = c
        /\ \A e \in Name \ {Doc(c)} : hist'[e] = hist[e]
        /\ req[c].kind = "edit" /\ pc'[c] = "edit_put"
    BY <1>5, BumpHistory
  <2>1. CASE d # Doc(c) \/ i <= Len(hist[d])
    BY <1>2, <2>a, <2>1
  <2>2. CASE d = Doc(c) /\ i = Len(hist[d]) + 1
    <3>1. hist'[d][i].by = c /\ i > 1
      BY <2>a, <2>2
    <3>2. req'[c].kind = "edit" /\ req'[c].name = d /\ pc'[c] = "edit_put"
      BY <1>1, <2>a, <2>2 DEF Doc
    <3> QED
      BY <3>1, <3>2
  <2>3. d = Doc(c) => Len(hist'[d]) = Len(hist[d]) + 1 /\ Len(hist[d]) \in Nat
    BY <2>a
  <2> QED
    BY <2>1, <2>2, <2>3
<1> QED
  BY <1>3, <1>4, <1>5, HistoryFrame

\* No step loses or tears an edit.
LEMMA NoLostEditStep ==
  TypeOK /\ Staged /\ Current /\ Drafted /\ Authored /\ NoLostEdit /\ [Next]_vars
    => NoLostEdit'
<1> DEFINE Chained(h, d) ==
             \A i \in 1..(Len(h) - 1) :
               LET c == h[i + 1].by IN
               /\ req[c].kind = "edit" /\ Doc(c) = d
               /\ req[c].position <= Len(h[i].content)
               /\ h[i + 1].content = Insert(h[i].content, req[c].position, req[c].text)
           Once(h) == \A i, j \in 1..Len(h) : h[i].by = h[j].by => i = j
<1> SUFFICES ASSUME TypeOK, Staged, Current, Drafted, Authored, NoLostEdit, [Next]_vars,
                    NEW d \in docs'
             PROVE  Chained(hist'[d], d) /\ Once(hist'[d])
  BY HistoryFrame DEF NoLostEdit, Doc
<1>1. d \in docs => Chained(hist[d], d) /\ Once(hist[d])
  BY DEF NoLostEdit
<1>2. docs \subseteq Name
  BY DEF TypeOK
<1>3. CASE UNCHANGED <<docs, hist>>
  BY <1>1, <1>3
<1>4. ASSUME NEW c \in Call, CreateInsert(c)
      PROVE  Chained(hist'[d], d) /\ Once(hist'[d])
  <2>a. /\ docs' = docs \union {Strip[Doc(c)]}
        /\ hist'[Strip[Doc(c)]] = <<[content |-> req[c].text, by |-> c]>>
        /\ \A e \in Name \ {Strip[Doc(c)]} : hist'[e] = hist[e]
    BY <1>4, InsertHistory
  <2>1. CASE d # Strip[Doc(c)]
    <3>1. d \in docs /\ hist'[d] = hist[d]
      BY <1>2, <2>a, <2>1
    <3> QED
      BY <1>1, <3>1
  <2>2. CASE d = Strip[Doc(c)]
    <3>1. Len(hist'[d]) = 1
      BY <2>a, <2>2
    <3> QED
      BY <3>1
  <2> QED
    BY <2>1, <2>2
<1>5. ASSUME NEW c \in Call, EditBump(c)
      PROVE  Chained(hist'[d], d) /\ Once(hist'[d])
  <2>1. CASE d # Doc(c)
    <3>1. d \in docs
      BY <1>5, BumpHistory
    <3>2. \A e \in Name \ {Doc(c)} : hist'[e] = hist[e]
      BY <1>5, BumpHistory
    <3>3. hist'[d] = hist[d]
      BY <1>2, <2>1, <3>1, <3>2
    <3> QED
      BY <1>1, <3>1, <3>3
  <2>2. CASE d = Doc(c)
    <3> DEFINE n == Len(hist[d])
    <3>1. /\ d \in docs /\ n \in Nat /\ n > 0 /\ Len(hist'[d]) = n + 1
          /\ \A i \in 1..n : hist'[d][i] = hist[d][i]
          /\ hist'[d][n + 1].by = c /\ req[c].kind = "edit" /\ pc[c] = "edit_bump"
          /\ req[c].position <= Len(hist[d][n].content)
          /\ hist'[d][n + 1].content = Insert(hist[d][n].content, req[c].position, req[c].text)
      BY <1>5, <2>2, BumpHistory
    <3>2. \A i \in 1..n : hist[d][i].by # c
      BY <1>2, <3>1 DEF Authored
    <3> HIDE DEF n
    <3>3. Chained(hist'[d], d)
      <4> SUFFICES ASSUME NEW i \in 1..(Len(hist'[d]) - 1)
                   PROVE  LET e == hist'[d][i + 1].by IN
                          /\ req[e].kind = "edit" /\ Doc(e) = d
                          /\ req[e].position <= Len(hist'[d][i].content)
                          /\ hist'[d][i + 1].content =
                               Insert(hist'[d][i].content, req[e].position, req[e].text)
        OBVIOUS
      <4>1. CASE i = n
        BY <2>2, <3>1, <4>1
      <4>2. CASE i < n
        <5>1. i \in 1..(Len(hist[d]) - 1) /\ i \in 1..n /\ i + 1 \in 1..n
          BY <3>1, <4>2 DEF n
        <5> QED
          BY <1>1, <3>1, <5>1
      <4> QED
        BY <3>1, <4>1, <4>2
    <3>4. Once(hist'[d])
      <4>1. \A i, j \in 1..n : hist[d][i].by = hist[d][j].by => i = j
        BY <1>1, <3>1 DEF n
      <4>2. \A i \in 1..Len(hist'[d]) : i \in 1..n \/ i = n + 1
        BY <3>1
      <4> QED
        BY <3>1, <3>2, <4>1, <4>2
    <3> QED
      BY <3>3, <3>4
  <2> QED
    BY <2>1, <2>2
<1> QED
  BY <1>3, <1>4, <1>5, HistoryFrame

-----------------------------------------------------------------------------
(***************************************************************************)
(* The answers.                                                            *)
(***************************************************************************)

\* What is committed stays committed, at its place.
LEMMA HistoryGrows ==
  TypeOK /\ Staged /\ Current /\ Drafted /\ [Next]_vars =>
    \A d \in Name : \A i \in 1..Len(hist[d]) :
      i \in 1..Len(hist'[d]) /\ hist'[d][i] = hist[d][i]
<1> SUFFICES ASSUME TypeOK, Staged, Current, Drafted, [Next]_vars,
                    NEW d \in Name, NEW i \in 1..Len(hist[d])
             PROVE  i \in 1..Len(hist'[d]) /\ hist'[d][i] = hist[d][i]
  OBVIOUS
<1>1. CASE UNCHANGED <<docs, hist>>
  BY <1>1
<1>2. ASSUME NEW c \in Call, CreateInsert(c)
      PROVE  i \in 1..Len(hist'[d]) /\ hist'[d][i] = hist[d][i]
  <2>1. /\ Strip[Doc(c)] \in Name \ docs
        /\ \A e \in Name \ {Strip[Doc(c)]} : hist'[e] = hist[e]
    BY <1>2, InsertHistory
  <2>2. d # Strip[Doc(c)]
    BY <2>1 DEF Current
  <2> QED
    BY <2>1, <2>2
<1>3. ASSUME NEW c \in Call, EditBump(c)
      PROVE  i \in 1..Len(hist'[d]) /\ hist'[d][i] = hist[d][i]
  <2>1. /\ Len(hist[Doc(c)]) \in Nat
        /\ Len(hist'[Doc(c)]) = Len(hist[Doc(c)]) + 1
        /\ \A j \in 1..Len(hist[Doc(c)]) : hist'[Doc(c)][j] = hist[Doc(c)][j]
        /\ \A e \in Name \ {Doc(c)} : hist'[e] = hist[e]
    BY <1>3, BumpHistory
  <2>2. CASE d = Doc(c)
    BY <2>1, <2>2
  <2>3. CASE d # Doc(c)
    BY <2>1, <2>3
  <2> QED
    BY <2>2, <2>3
<1> QED
  BY <1>1, <1>2, <1>3, HistoryFrame

\* Only three steps answer a call with OK, each its own call.
LEMMA ReplyFrame ==
  TypeOK /\ [Next]_vars =>
    \A e \in Call : \/ reply'[e] = reply[e] \/ reply'[e].status # "OK"
                    \/ GetRead(e) \/ EditReturn(e) \/ CreateInsert(e)
<1> DEFINE Frame(e) == \/ reply'[e] = reply[e] \/ reply'[e].status # "OK"
                       \/ GetRead(e) \/ EditReturn(e) \/ CreateInsert(e)
<1> SUFFICES ASSUME TypeOK, [Next]_vars, NEW e \in Call PROVE Frame(e)
  OBVIOUS
<1>a. reply \in [Call -> Reply]
  BY DEF TypeOK
<1> USE DEF callVars
<1>1. ASSUME NEW c \in Call,
             Arrive(c) \/ Cancel(c) \/ Deliver(c) \/ Callback(c) \/ Start(c)
      PROVE  Frame(e)
  BY <1>1 DEF Arrive, Cancel, Deliver, Callback, Start
<1>2. ASSUME NEW c \in Call, CreateReject(c) \/ CreateCheck(c) \/ Lookup(c) \/ EditReject(c)
      PROVE  Frame(e)
  BY <1>a, <1>2 DEF CreateReject, CreateCheck, Lookup, EditReject, Answer, Abort
<1>3. ASSUME NEW c \in Call, GetRead(c) \/ EditReturn(c) \/ CreateInsert(c)
      PROVE  Frame(e)
  <2>1. CASE e = c
    BY <1>3, <2>1
  <2>2. CASE e # c
    BY <1>a, <1>3, <2>2 DEF GetRead, EditReturn, CreateInsert, Answer
  <2> QED
    BY <2>1, <2>2
<1>4. ASSUME NEW c \in Call, EditBegin(c) \/ EditWrite(c) \/ EditBump(c) \/ EditPut(c)
      PROVE  Frame(e)
  BY <1>4 DEF EditBegin, EditWrite, EditBump, EditPut
<1>5. ASSUME NEW c \in Call,
             \/ SubAppend(c) \/ SubSnapshot(c) \/ SubRegister(c) \/ SubGet(c)
             \/ SubLeave(c) \/ SubExit(c)
      PROVE  Frame(e)
  BY <1>5 DEF SubAppend, SubSnapshot, SubRegister, SubGet, SubLeave, SubExit
<1>6. CASE UNCHANGED vars
  BY <1>6 DEF vars
<1> QED
  BY <1>1, <1>2, <1>3, <1>4, <1>5, <1>6 DEF Next, Handle, SubTimeout, Finished

\* Outside the two assignments of an edit of d the content is the latest
\* version's, and the version number is its index.
LEMMA Readable ==
  ASSUME TypeOK, LockOrder, Staged, Current, NEW c \in Call, Doc(c) \in docs,
         lock[Doc(c)] = Nobody \/ (lock[Doc(c)] = c /\ pc[c] # "edit_bump")
  PROVE  /\ content[Doc(c)] = Latest(Doc(c)).content
         /\ version[Doc(c)] = Len(hist[Doc(c)]) - 1
         /\ version[Doc(c)] \in Nat
<1>1. \A e \in Call : pc[e] = "edit_bump" => Doc(e) # Doc(c)
  BY CallAssumption DEF LockOrder, Critical
<1>2. version[Doc(c)] \in Nat /\ Len(hist[Doc(c)]) = version[Doc(c)] + 1
  BY DEF TypeOK, Current
<1> QED
  BY <1>1, <1>2 DEF Current

\* Every OK answer to an open or an edit is a version of the document.
LEMMA AnswerStep ==
  TypeOK /\ LockOrder /\ Staged /\ Current /\ Drafted /\ Authored /\ AnswersAreVersions
    /\ [Next]_vars => AnswersAreVersions'
<1> DEFINE Good(r, h, c) ==
             /\ r.version < Len(h)
             /\ r.content = h[r.version + 1].content
             /\ req[c].kind = "edit" => r.version > 0 /\ h[r.version + 1].by = c
<1> SUFFICES ASSUME TypeOK, LockOrder, Staged, Current, Drafted, Authored,
                    AnswersAreVersions, [Next]_vars,
                    NEW c \in Call, reply'[c].status = "OK", req[c].kind \in {"get", "edit"}
             PROVE  Good(reply'[c], hist'[Doc(c)], c)
  BY HistoryFrame DEF AnswersAreVersions, Doc
<1>a. Doc(c) \in Name /\ reply[c] \in Reply /\ hist[Doc(c)] \in Seq(History)
  BY DEF TypeOK, Doc, Request
<1>1. CASE reply'[c] = reply[c]
  <2>1. Good(reply[c], hist[Doc(c)], c)
    BY <1>1 DEF AnswersAreVersions
  <2>2. reply[c].version \in Nat /\ Len(hist[Doc(c)]) \in Nat
    BY <1>a DEF Reply
  <2>3. /\ reply[c].version + 1 \in 1..Len(hist'[Doc(c)])
        /\ hist'[Doc(c)][reply[c].version + 1] = hist[Doc(c)][reply[c].version + 1]
    BY <1>a, <2>1, <2>2, HistoryGrows
  <2>4. reply[c].version < Len(hist'[Doc(c)])
    BY <2>2, <2>3
  <2> QED
    BY <1>1, <2>1, <2>3, <2>4
<1>2. CASE GetRead(c)
  <2>1. pc[c] = "get" /\ lock[Doc(c)] = Nobody /\ hist' = hist
        /\ reply'[c] = Ok(content[Doc(c)], version[Doc(c)])
    BY <1>2 DEF GetRead, Answer, docVars, TypeOK
  <2>2. Doc(c) \in docs /\ req[c].kind = "get"
    BY <2>1 DEF Staged
  <2> QED
    BY <2>1, <2>2, Readable DEF Ok, Latest
<1>3. CASE EditReturn(c)
  <2>1. pc[c] = "edit_put" /\ hist' = hist
        /\ reply'[c] = Ok(content[Doc(c)], version[Doc(c)])
    BY <1>3 DEF EditReturn, Answer, docVars, TypeOK
  <2>2. Doc(c) \in docs /\ req[c].kind = "edit" /\ lock[Doc(c)] = c
    BY <2>1 DEF Staged, EditPcs, LockOrder, Critical
  <2>3. /\ content[Doc(c)] = Latest(Doc(c)).content
        /\ version[Doc(c)] = Len(hist[Doc(c)]) - 1 /\ version[Doc(c)] \in Nat
    BY <2>1, <2>2, Readable
  <2>4. hist[Doc(c)][Len(hist[Doc(c)])].by = c
    BY <2>1 DEF Drafted, Latest
  <2>5. Len(hist[Doc(c)]) # 1
    BY <1>a, <2>2, <2>4 DEF Authored
  <2>6. Len(hist[Doc(c)]) \in Nat
    BY <1>a
  <2>7. version[Doc(c)] + 1 = Len(hist[Doc(c)]) /\ version[Doc(c)] > 0
    <3> DEFINE v == version[Doc(c)]
               n == Len(hist[Doc(c)])
    <3>1. v = n - 1 /\ v \in Nat /\ n \in Nat /\ n # 1
      BY <2>3, <2>5, <2>6
    <3> HIDE DEF v, n
    <3>2. v + 1 = n /\ v > 0
      BY <3>1
    <3> QED
      BY <3>2 DEF v, n
  <2>8. reply'[c].version = version[Doc(c)] /\ reply'[c].content = content[Doc(c)]
    BY <2>1 DEF Ok
  <2> QED
    BY <2>1, <2>3, <2>4, <2>6, <2>7, <2>8 DEF Latest
<1>4. ~CreateInsert(c)
  BY DEF CreateInsert, Staged
<1> QED
  BY <1>1, <1>2, <1>3, <1>4, ReplyFrame

\* A create that was answered OK made its document's first version.
LEMMA CreatedStep ==
  TypeOK /\ Staged /\ Current /\ Drafted /\ CreatedOnce /\ [Next]_vars => CreatedOnce'
<1> SUFFICES ASSUME TypeOK, Staged, Current, Drafted, CreatedOnce, [Next]_vars,
                    NEW c \in Call, reply'[c].status = "OK", req[c].kind = "create"
             PROVE  Strip[Doc(c)] \in docs' /\ hist'[Strip[Doc(c)]][1].by = c
  BY HistoryFrame DEF CreatedOnce, Doc
<1>a. docs \subseteq docs' /\ docs \subseteq Name
  <2>1. \A e \in Call : CreateInsert(e) \/ EditBump(e) => docs \subseteq docs'
    BY DEF CreateInsert, EditBump, registryVars
  <2> QED
    BY <2>1, HistoryFrame DEF TypeOK
<1>1. CASE reply'[c] = reply[c]
  <2>1. Strip[Doc(c)] \in docs /\ hist[Strip[Doc(c)]][1].by = c
    BY <1>1 DEF CreatedOnce
  <2>2. 1 \in 1..Len(hist[Strip[Doc(c)]])
    BY <2>1 DEF Current, TypeOK
  <2> QED
    BY <1>a, <2>1, <2>2, HistoryGrows
<1>2. CASE CreateInsert(c)
  <2>1. /\ docs' = docs \union {Strip[Doc(c)]}
        /\ hist'[Strip[Doc(c)]] = <<[content |-> req[c].text, by |-> c]>>
    BY <1>2, InsertHistory
  <2> QED
    BY <2>1
<1>3. ~GetRead(c) /\ ~EditReturn(c)
  BY DEF GetRead, EditReturn, Staged, EditPcs
<1> QED
  BY <1>1, <1>2, <1>3, ReplyFrame

-----------------------------------------------------------------------------
(***************************************************************************)
(* The subscriber lists.                                                   *)
(***************************************************************************)

\* A broadcast reaches only queues that are on its document's list.
LEMMA BroadcastStep ==
  TypeOK /\ LockOrder /\ Staged /\ Listed /\ Broadcasting /\ [Next]_vars => Broadcasting'
<1> SUFFICES ASSUME TypeOK, LockOrder, Staged, Listed, Broadcasting, [Next]_vars PROVE Broadcasting'
  OBVIOUS
<1> USE DEF LockOrder, Staged, Listed, ListedPcs, Broadcasting, Critical, EditPcs, SubPcs, Pcs, Doc, Request, registryVars, docVars, lockVars, editVars, streamVars, contextVars, callVars
<1>a. /\ pc \in [Call -> Pcs]
     /\ req \in [Call -> Request]
     /\ lock \in [Name -> Call \union {Nobody}]
     /\ subscribers \in [Name -> SUBSET Call]
     /\ todo \in [Call -> SUBSET Call]
  BY DEF TypeOK
<1>1. ASSUME NEW c \in Call, Arrive(c) PROVE Broadcasting'
  BY <1>a, <1>1, CallAssumption DEF Arrive, Goto
<1>2. ASSUME NEW c \in Call, Start(c) PROVE Broadcasting'
  <2>1. pc[c] = "queued" /\ \E l \in {"create", "lookup"} : pc' = [pc EXCEPT ![c] = l]
    BY <1>2 DEF Start, Goto
  <2> QED
    BY <1>a, <1>2, <2>1 DEF Start
<1>3. ASSUME NEW c \in Call, Cancel(c) PROVE Broadcasting'
  BY <1>a, <1>3, CallAssumption DEF Cancel
<1>4. ASSUME NEW c \in Call, CreateReject(c) PROVE Broadcasting'
  BY <1>a, <1>4, CallAssumption DEF CreateReject, Answer, Goto
<1>5. ASSUME NEW c \in Call, CreateCheck(c) PROVE Broadcasting'
  <2>1. pc[c] = "create" /\ \E l \in {"done", "create_insert"} : pc' = [pc EXCEPT ![c] = l]
    BY <1>5 DEF CreateCheck, Answer, Goto
  <2> QED
    BY <1>a, <1>5, <2>1 DEF CreateCheck
<1>6. ASSUME NEW c \in Call, CreateInsert(c) PROVE Broadcasting'
  BY <1>a, <1>6, CallAssumption DEF CreateInsert, Answer, Goto
<1>7. ASSUME NEW c \in Call, Lookup(c) PROVE Broadcasting'
  <2>1. /\ pc[c] = "lookup"
        /\ \E l \in {"get", "edit", "subscribe", "done"} : pc' = [pc EXCEPT ![c] = l]
    BY <1>7 DEF Lookup, Answer, Goto, AfterLookup
  <2> QED
    BY <1>a, <1>7, <2>1 DEF Lookup
<1>8. ASSUME NEW c \in Call, GetRead(c) PROVE Broadcasting'
  BY <1>a, <1>8, CallAssumption DEF GetRead, Answer, Goto
<1>9. ASSUME NEW c \in Call, EditReject(c) PROVE Broadcasting'
  BY <1>a, <1>9, CallAssumption DEF EditReject, Answer, Goto
<1>10. ASSUME NEW c \in Call, EditBegin(c) PROVE Broadcasting'
  BY <1>a, <1>10, CallAssumption DEF EditBegin, Goto
<1>11. ASSUME NEW c \in Call, EditWrite(c) PROVE Broadcasting'
  BY <1>a, <1>11, CallAssumption DEF EditWrite, Goto
<1>12. ASSUME NEW c \in Call, EditBump(c) PROVE Broadcasting'
  BY <1>a, <1>12, CallAssumption DEF EditBump, Goto
<1>13. ASSUME NEW c \in Call, EditPut(c) PROVE Broadcasting'
  BY <1>a, <1>13, CallAssumption DEF EditPut
<1>14. ASSUME NEW c \in Call, EditReturn(c) PROVE Broadcasting'
  BY <1>a, <1>14, CallAssumption DEF EditReturn, Answer, Goto
<1>15. ASSUME NEW c \in Call, SubAppend(c) PROVE Broadcasting'
  BY <1>a, <1>15, CallAssumption DEF SubAppend, Goto
<1>16. ASSUME NEW c \in Call, SubSnapshot(c) PROVE Broadcasting'
  BY <1>a, <1>16, CallAssumption DEF SubSnapshot, Goto
<1>17. ASSUME NEW c \in Call, SubRegister(c) PROVE Broadcasting'
  BY <1>a, <1>17, CallAssumption DEF SubRegister, Goto
<1>18. ASSUME NEW c \in Call, SubGet(c) PROVE Broadcasting'
  BY <1>a, <1>18, CallAssumption DEF SubGet, Goto
<1>19. ASSUME NEW c \in Call, Deliver(c) PROVE Broadcasting'
  BY <1>a, <1>19, CallAssumption DEF Deliver, Goto
<1>20. ASSUME NEW c \in Call, SubLeave(c) PROVE Broadcasting'
  <2>1. pc[c] \in {"sub_loop", "sub_send"} /\ pc' = [pc EXCEPT ![c] = "sub_exit"]
    BY <1>20 DEF SubLeave, Goto
  <2> QED
    BY <1>a, <1>20, <2>1 DEF SubLeave
<1>21. ASSUME NEW c \in Call, SubExit(c) PROVE Broadcasting'
  BY <1>a, <1>21, CallAssumption DEF SubExit, Goto
<1>22. ASSUME NEW c \in Call, Callback(c) PROVE Broadcasting'
  BY <1>a, <1>22, CallAssumption DEF Callback
<1>23. CASE UNCHANGED vars
  BY <1>23 DEF vars
<1> QED
  BY <1>1, <1>2, <1>3, <1>4, <1>5, <1>6, <1>7, <1>8, <1>9, <1>10, <1>11, <1>12,
     <1>13, <1>14, <1>15, <1>16, <1>17, <1>18, <1>19, <1>20, <1>21, <1>22, <1>23
     DEF Next, Handle, SubTimeout, Finished

\* Only live subscriptions are on a list, and none has anything before its snapshot.
LEMMA ListStep ==
  TypeOK /\ LockOrder /\ Staged /\ Broadcasting /\ Listed /\ [Next]_vars => Listed'
<1> SUFFICES ASSUME TypeOK, LockOrder, Staged, Broadcasting, Listed, [Next]_vars PROVE Listed'
  OBVIOUS
<1> USE DEF LockOrder, Staged, Broadcasting, Listed, ListedPcs, Critical, SubPcs, EditPcs, Pcs, Doc, Request, registryVars, docVars, lockVars, editVars, streamVars, contextVars, callVars
<1>a. /\ pc \in [Call -> Pcs]
     /\ req \in [Call -> Request]
     /\ lock \in [Name -> Call \union {Nobody}]
     /\ subscribers \in [Name -> SUBSET Call]
     /\ todo \in [Call -> SUBSET Call]
     /\ queue \in [Call -> Seq(Update)]
     /\ sending \in [Call -> Seq(Update)]
     /\ received \in [Call -> Seq(Update)]
     /\ callback \in [Call -> BOOLEAN]
  BY DEF TypeOK
<1>1. ASSUME NEW c \in Call, Arrive(c) PROVE Listed'
  BY <1>a, <1>1, CallAssumption DEF Arrive, Goto
<1>2. ASSUME NEW c \in Call, Start(c) PROVE Listed'
  <2>1. pc[c] = "queued" /\ \E l \in {"create", "lookup"} : pc' = [pc EXCEPT ![c] = l]
    BY <1>2 DEF Start, Goto
  <2> QED
    BY <1>a, <1>2, <2>1 DEF Start
<1>3. ASSUME NEW c \in Call, Cancel(c) PROVE Listed'
  BY <1>a, <1>3, CallAssumption DEF Cancel
<1>4. ASSUME NEW c \in Call, CreateReject(c) PROVE Listed'
  BY <1>a, <1>4, CallAssumption DEF CreateReject, Answer, Goto
<1>5. ASSUME NEW c \in Call, CreateCheck(c) PROVE Listed'
  <2>1. pc[c] = "create" /\ \E l \in {"done", "create_insert"} : pc' = [pc EXCEPT ![c] = l]
    BY <1>5 DEF CreateCheck, Answer, Goto
  <2> QED
    BY <1>a, <1>5, <2>1 DEF CreateCheck
<1>6. ASSUME NEW c \in Call, CreateInsert(c) PROVE Listed'
  BY <1>a, <1>6, CallAssumption DEF CreateInsert, Answer, Goto
<1>7. ASSUME NEW c \in Call, Lookup(c) PROVE Listed'
  <2>1. /\ pc[c] = "lookup"
        /\ \E l \in {"get", "edit", "subscribe", "done"} : pc' = [pc EXCEPT ![c] = l]
    BY <1>7 DEF Lookup, Answer, Goto, AfterLookup
  <2> QED
    BY <1>a, <1>7, <2>1 DEF Lookup
<1>8. ASSUME NEW c \in Call, GetRead(c) PROVE Listed'
  BY <1>a, <1>8, CallAssumption DEF GetRead, Answer, Goto
<1>9. ASSUME NEW c \in Call, EditReject(c) PROVE Listed'
  BY <1>a, <1>9, CallAssumption DEF EditReject, Answer, Goto
<1>10. ASSUME NEW c \in Call, EditBegin(c) PROVE Listed'
  BY <1>a, <1>10, CallAssumption DEF EditBegin, Goto
<1>11. ASSUME NEW c \in Call, EditWrite(c) PROVE Listed'
  BY <1>a, <1>11, CallAssumption DEF EditWrite, Goto
<1>12. ASSUME NEW c \in Call, EditBump(c) PROVE Listed'
  BY <1>a, <1>12, CallAssumption DEF EditBump, Goto
<1>13. ASSUME NEW c \in Call, EditPut(c) PROVE Listed'
  BY <1>a, <1>13, CallAssumption DEF EditPut
<1>14. ASSUME NEW c \in Call, EditReturn(c) PROVE Listed'
  BY <1>a, <1>14, CallAssumption DEF EditReturn, Answer, Goto
<1>15. ASSUME NEW c \in Call, SubAppend(c) PROVE Listed'
  BY <1>a, <1>15, CallAssumption DEF SubAppend, Goto
<1>16. ASSUME NEW c \in Call, SubSnapshot(c) PROVE Listed'
  BY <1>a, <1>16, CallAssumption DEF SubSnapshot, Goto
<1>17. ASSUME NEW c \in Call, SubRegister(c) PROVE Listed'
  BY <1>a, <1>17, CallAssumption DEF SubRegister, Goto
<1>18. ASSUME NEW c \in Call, SubGet(c) PROVE Listed'
  BY <1>a, <1>18, CallAssumption DEF SubGet, Goto
<1>19. ASSUME NEW c \in Call, Deliver(c) PROVE Listed'
  BY <1>a, <1>19, CallAssumption DEF Deliver, Goto
<1>20. ASSUME NEW c \in Call, SubLeave(c) PROVE Listed'
  <2>1. pc[c] \in {"sub_loop", "sub_send"} /\ pc' = [pc EXCEPT ![c] = "sub_exit"]
    BY <1>20 DEF SubLeave, Goto
  <2> QED
    BY <1>a, <1>20, <2>1 DEF SubLeave
<1>21. ASSUME NEW c \in Call, SubExit(c) PROVE Listed'
  BY <1>a, <1>21, CallAssumption DEF SubExit, Goto
<1>22. ASSUME NEW c \in Call, Callback(c) PROVE Listed'
  BY <1>a, <1>22, CallAssumption DEF Callback
<1>23. CASE UNCHANGED vars
  BY <1>23 DEF vars
<1> QED
  BY <1>1, <1>2, <1>3, <1>4, <1>5, <1>6, <1>7, <1>8, <1>9, <1>10, <1>11, <1>12,
     <1>13, <1>14, <1>15, <1>16, <1>17, <1>18, <1>19, <1>20, <1>21, <1>22, <1>23
     DEF Next, Handle, SubTimeout, Finished

-----------------------------------------------------------------------------
(***************************************************************************)
(* The streams.                                                            *)
(***************************************************************************)

\* Taking the head of the queue leaves all that was streamed as it was.
LEMMA GetKeepsStream ==
  ASSUME NEW S, NEW r \in Seq(S), NEW q \in Seq(S), q # <<>>
  PROVE  r \o <<Head(q)>> \o Tail(q) = r \o <<>> \o q
<1>1. Head(q) \in S /\ Tail(q) \in Seq(S) /\ Len(Tail(q)) = Len(q) - 1
      /\ \A i \in 1..Len(Tail(q)) : Tail(q)[i] = q[i + 1]
  BY HeadTailProperties
<1>2. <<Head(q)>> \in Seq(S) /\ Len(<<Head(q)>>) = 1 /\ <<Head(q)>>[1] = q[1]
  BY <1>1
<1>3. <<Head(q)>> \o Tail(q) = q
  <2>1. /\ <<Head(q)>> \o Tail(q) \in Seq(S)
        /\ Len(<<Head(q)>> \o Tail(q)) = Len(q)
        /\ \A i \in 1..Len(q) : (<<Head(q)>> \o Tail(q))[i] =
              IF i <= 1 THEN <<Head(q)>>[i] ELSE Tail(q)[i - 1]
    BY <1>1, <1>2, ConcatProperties, LenProperties
  <2>2. \A i \in 1..Len(q) : (<<Head(q)>> \o Tail(q))[i] = q[i]
    BY <1>1, <1>2, <2>1, LenProperties
  <2> QED
    BY <2>1, <2>2, SeqEqual
<1>4. r \o <<>> = r
  BY ConcatEmptySeq
<1> QED
  BY <1>1, <1>2, <1>3, <1>4, ConcatAssociative

\* The sequence longer is old with u behind it.
Extends(longer, old, u) ==
  /\ Len(longer) = Len(old) + 1 /\ Len(old) \in Nat
  /\ longer[Len(old) + 1] = u
  /\ \A i \in 1..Len(old) : longer[i] = old[i]

\* Putting on the queue appends to what is streamed.
LEMMA PutExtendsStream ==
  ASSUME NEW S, NEW r \in Seq(S), NEW m \in Seq(S), NEW q \in Seq(S), NEW u \in S
  PROVE  Extends(r \o m \o Append(q, u), r \o m \o q, u)
<1>1. r \o m \in Seq(S) /\ r \o m \o q \in Seq(S) /\ <<u>> \in Seq(S)
  BY ConcatProperties
<1>2. Append(q, u) = q \o <<u>>
  BY AppendIsConcat
<1>3. r \o m \o Append(q, u) = Append(r \o m \o q, u)
  BY <1>1, <1>2, ConcatAssociative, AppendIsConcat
<1> QED
  BY <1>1, <1>3, AppendProperties, LenProperties DEF Extends

\* The step leaves subscription s as it is: the same stream, the same history
\* behind it, and no new place on the list.
Quiet(s) ==
  /\ received'[s] \o sending'[s] \o queue'[s] = Streamed(s)
  /\ joined'[s] = joined[s]
  /\ todo' = todo /\ hist' = hist
  /\ s \in subscribers'[Doc(s)] /\ pc'[s] # "sub_snap" =>
       s \in subscribers[Doc(s)] /\ pc[s] # "sub_snap"

\* Every step is quiet for every subscription, except its own snapshot, a
\* put, the bump of an edit and the birth of a document.
LEMMA StreamFrame ==
  ASSUME TypeOK, LockOrder, Staged, Listed, [Next]_vars, NEW s \in Call
  PROVE  \/ Quiet(s) \/ SubSnapshot(s)
         \/ \E c \in Call : EditPut(c) \/ EditBump(c) \/ CreateInsert(c)
<1> DEFINE Goal == \/ Quiet(s) \/ SubSnapshot(s)
                   \/ \E c \in Call : EditPut(c) \/ EditBump(c) \/ CreateInsert(c)
<1> SUFFICES Goal
  OBVIOUS
<1>a. /\ pc \in [Call -> Pcs]
      /\ req \in [Call -> Request]
      /\ subscribers \in [Name -> SUBSET Call]
      /\ queue \in [Call -> Seq(Update)]
      /\ sending \in [Call -> Seq(Update)]
      /\ received \in [Call -> Seq(Update)]
      /\ joined \in [Call -> Nat]
  BY DEF TypeOK
<1> USE DEF Quiet, Streamed, registryVars, docVars, lockVars, editVars, streamVars,
            contextVars, callVars
<1>1. ASSUME NEW c \in Call, Arrive(c) \/ Cancel(c) \/ Start(c) \/ Callback(c)
      PROVE  Quiet(s)
  BY <1>a, <1>1 DEF Arrive, Cancel, Start, Callback, Goto, Doc, Request
<1>2. ASSUME NEW c \in Call, CreateReject(c) \/ CreateCheck(c) \/ Lookup(c) \/ GetRead(c)
      PROVE  Quiet(s)
  BY <1>a, <1>2 DEF CreateReject, CreateCheck, Lookup, GetRead, Answer, Goto
<1>3. ASSUME NEW c \in Call, EditReject(c) \/ EditBegin(c) \/ EditWrite(c) \/ EditReturn(c)
      PROVE  Quiet(s)
  BY <1>a, <1>3 DEF EditReject, EditBegin, EditWrite, EditReturn, Answer, Goto
<1>4. ASSUME NEW c \in Call, SubRegister(c) \/ SubLeave(c) \/ SubExit(c)
      PROVE  Quiet(s)
  <2>1. CASE SubRegister(c)
    BY <1>a, <2>1 DEF SubRegister, Goto
  <2>2. CASE SubLeave(c)
    BY <1>a, <2>2 DEF SubLeave, Goto
  <2>3. CASE SubExit(c)
    <3>1. pc' = [pc EXCEPT ![c] = "done"] /\ pc[c] = "sub_exit"
      BY <2>3 DEF SubExit, Goto
    <3>2. subscribers'[Doc(s)] \subseteq subscribers[Doc(s)]
      BY <1>a, <2>3 DEF SubExit, Doc, Request
    <3> QED
      BY <1>a, <2>3, <3>1, <3>2 DEF SubExit
  <2> QED
    BY <1>4, <2>1, <2>2, <2>3
<1>9. ASSUME NEW c \in Call, SubAppend(c)
      PROVE  Quiet(s)
  <2>1. CASE c = s
    BY <1>a, <1>9, <2>1 DEF SubAppend, Goto
  <2>2. CASE c # s
    BY <1>a, <1>9, <2>2 DEF SubAppend, Goto, Doc, Request
  <2> QED
    BY <2>1, <2>2
<1>5. ASSUME NEW c \in Call, SubSnapshot(c)
      PROVE  Goal
  <2>1. CASE c = s
    BY <1>5, <2>1
  <2>2. CASE c # s
    BY <1>a, <1>5, <2>2 DEF SubSnapshot, Goto
  <2> QED
    BY <2>1, <2>2
<1>6. ASSUME NEW c \in Call, SubGet(c)
      PROVE  Quiet(s)
  <2>1. CASE c # s
    BY <1>a, <1>6, <2>1 DEF SubGet, Goto
  <2>2. CASE c = s
    <3>1. /\ received'[s] = received[s] /\ sending'[s] = <<Head(queue[s])>>
          /\ queue'[s] = Tail(queue[s]) /\ queue[s] # <<>> /\ pc[s] = "sub_loop"
      BY <1>a, <1>6, <2>2 DEF SubGet
    <3>2. sending[s] = <<>>
      BY <3>1 DEF Listed
    <3>3. received'[s] \o sending'[s] \o queue'[s] = received[s] \o <<>> \o queue[s]
      <4>1. received[s] \in Seq(Update) /\ queue[s] \in Seq(Update)
        BY <1>a
      <4> QED
        BY <3>1, <4>1, GetKeepsStream
    <3> QED
      BY <1>a, <1>6, <2>2, <3>2, <3>3 DEF SubGet, Goto
  <2> QED
    BY <2>1, <2>2
<1>7. ASSUME NEW c \in Call, Deliver(c)
      PROVE  Quiet(s)
  <2>1. CASE c # s
    BY <1>a, <1>7, <2>1 DEF Deliver, Goto
  <2>2. CASE c = s
    <3>1. /\ received'[s] = received[s] \o sending[s] /\ sending'[s] = <<>>
          /\ queue'[s] = queue[s]
      BY <1>a, <1>7, <2>2 DEF Deliver
    <3>2. received[s] \o sending[s] \in Seq(Update)
      BY <1>a, ConcatProperties
    <3>3. received'[s] \o sending'[s] = received[s] \o sending[s]
      BY <3>1, <3>2, ConcatEmptySeq
    <3> QED
      BY <1>a, <1>7, <2>2, <3>1, <3>3 DEF Deliver, Goto
  <2> QED
    BY <2>1, <2>2
<1>8. CASE UNCHANGED vars
  BY <1>8 DEF vars
<1> QED
  BY <1>1, <1>2, <1>3, <1>4, <1>5, <1>6, <1>7, <1>8, <1>9 DEF Next, Handle, SubTimeout, Finished

-----------------------------------------------------------------------------
(***************************************************************************)
(* The three steps that write to a stream or count against it.             *)
(***************************************************************************)

\* The subscription that a broadcast has still to reach waits for the latest
\* version, and for no other broadcast.
LEMMA UnreachedFacts ==
  ASSUME TypeOK, LockOrder, Staged, Current, Drafted, Broadcasting, Listed, StreamExact,
         NEW c \in Call, NEW s \in todo[c]
  PROVE  /\ s \in Call /\ pc[c] = "edit_put" /\ Doc(s) = Doc(c) /\ Doc(c) \in docs
         /\ lock[Doc(c)] = c
         /\ s \in subscribers[Doc(s)] /\ pc[s] # "sub_snap"
         /\ \A e \in Call : s \in todo[e] => e = c
         /\ Streamed(s) # <<>>
         /\ joined[s] + Len(Streamed(s)) + 1 = Len(hist[Doc(s)])
         /\ draft[c].version = Len(hist[Doc(s)]) - 1
         /\ draft[c].content = Latest(Doc(s)).content
<1>1. s \in Call /\ pc[c] = "edit_put" /\ s \in subscribers[Doc(c)]
  BY DEF TypeOK, Broadcasting
<1>2. Doc(c) \in docs /\ Doc(c) \in Name /\ lock[Doc(c)] = c
  BY <1>1 DEF TypeOK, Staged, EditPcs, LockOrder, Critical
<1>3. Doc(s) = Doc(c)
  BY <1>1, <1>2 DEF Listed
<1>4. pc[s] # "sub_snap"
  BY <1>1, <1>2, <1>3 DEF LockOrder, Critical
<1>5. \A e \in Call : s \in todo[e] => e = c
  <2> SUFFICES ASSUME NEW e \in Call, s \in todo[e] PROVE e = c
    OBVIOUS
  <2>1. pc[e] = "edit_put" /\ s \in subscribers[Doc(e)]
    BY <1>1 DEF Broadcasting
  <2>2. Doc(e) \in Name /\ lock[Doc(e)] = e
    BY <2>1 DEF TypeOK, Doc, Request, LockOrder, Critical
  <2>3. Doc(s) = Doc(e)
    BY <1>1, <2>1, <2>2 DEF Listed
  <2> QED
    BY <1>2, <1>3, <2>2, <2>3
<1>6. s \in Unreached
  BY DEF Unreached
<1>7. /\ Streamed(s) # <<>>
      /\ joined[s] + Len(Streamed(s)) + 1 = Len(hist[Doc(s)])
  BY <1>1, <1>3, <1>4, <1>6 DEF StreamExact
<1>8. /\ draft[c].version = version[Doc(c)] /\ draft[c].content = Latest(Doc(c)).content
      /\ Len(hist[Doc(c)]) = version[Doc(c)] + 1 /\ version[Doc(c)] \in Nat
  BY <1>1, <1>2 DEF Drafted, Current, TypeOK
<1>9. draft[c].version = Len(hist[Doc(s)]) - 1 /\ draft[c].content = Latest(Doc(s)).content
  BY <1>3, <1>8
<1> QED
  BY <1>1, <1>2, <1>3, <1>4, <1>5, <1>7, <1>9

\* A put adds one message to one stream, and takes one queue off the loop.
LEMMA PutFacts ==
  ASSUME TypeOK, NEW c \in Call, EditPut(c)
  PROVE  /\ hist' = hist /\ req' = req /\ joined' = joined /\ pc' = pc
         /\ subscribers' = subscribers
         /\ \E t \in todo[c] :
              /\ t \in Call
              /\ Extends(Streamed(t)', Streamed(t),
                         [content |-> draft[c].content, version |-> draft[c].version,
                          snapshot |-> FALSE])
              /\ \A s \in Call \ {t} : Streamed(s)' = Streamed(s)
              /\ todo' = [todo EXCEPT ![c] = @ \ {t}]
<1>a. /\ queue \in [Call -> Seq(Update)] /\ sending \in [Call -> Seq(Update)]
      /\ received \in [Call -> Seq(Update)] /\ draft \in [Call -> Draft]
      /\ todo \in [Call -> SUBSET Call]
  BY DEF TypeOK
<1> DEFINE u == [content |-> draft[c].content, version |-> draft[c].version,
                 snapshot |-> FALSE]
<1>1. PICK t \in todo[c] : /\ queue' = [queue EXCEPT ![t] = Append(@, u)]
                           /\ todo' = [todo EXCEPT ![c] = @ \ {t}]
  BY DEF EditPut
<1>2. u \in Update
  BY <1>a DEF Update, Draft
<1>3. t \in Call
  BY <1>a
<1>4. received' = received /\ sending' = sending
  BY DEF EditPut
<1> HIDE DEF u
<1>5. Extends(Streamed(t)', Streamed(t), u)
  <2>1. queue'[t] = Append(queue[t], u)
    BY <1>a, <1>1, <1>3
  <2>2. received[t] \in Seq(Update) /\ sending[t] \in Seq(Update) /\ queue[t] \in Seq(Update)
    BY <1>a, <1>3
  <2> DEFINE old == received[t] \o sending[t] \o queue[t]
             new == received[t] \o sending[t] \o Append(queue[t], u)
  <2>3. Extends(new, old, u)
    BY <1>2, <2>2, PutExtendsStream
  <2>4. Streamed(t) = old /\ Streamed(t)' = new
    BY <1>4, <2>1 DEF Streamed
  <2> QED
    BY <2>3, <2>4
<1>6. \A s \in Call \ {t} : Streamed(s)' = Streamed(s)
  BY <1>a, <1>1, <1>4 DEF Streamed
<1> QED
  BY <1>1, <1>3, <1>5, <1>6 DEF EditPut, docVars, lockVars, callVars, u

\* The first message of a subscription is the snapshot.
LEMMA SnapshotFacts ==
  ASSUME TypeOK, LockOrder, Staged, Current, Listed, NEW s \in Call, SubSnapshot(s)
  PROVE  /\ hist' = hist /\ req' = req /\ todo' = todo /\ Doc(s) \in docs
         /\ lock[Doc(s)] = s /\ pc[s] = "sub_snap"
         /\ joined'[s] = Len(hist[Doc(s)]) - 1 /\ joined'[s] \in Nat
         /\ Len(Streamed(s)') = 1 /\ Streamed(s)' # <<>>
         /\ Streamed(s)'[1] = [content |-> Latest(Doc(s)).content,
                               version |-> joined'[s], snapshot |-> TRUE]
<1> DEFINE u == [content |-> content[Doc(s)], version |-> version[Doc(s)],
                 snapshot |-> TRUE]
<1>1. pc[s] = "sub_snap" /\ Doc(s) \in docs /\ Doc(s) \in Name /\ lock[Doc(s)] = s
  BY DEF SubSnapshot, Staged, SubPcs, TypeOK, LockOrder, Critical
<1>2. /\ content[Doc(s)] = Latest(Doc(s)).content
      /\ version[Doc(s)] = Len(hist[Doc(s)]) - 1 /\ version[Doc(s)] \in Nat
  BY <1>1, Readable
<1>3. joined'[s] = version[Doc(s)]
  BY DEF SubSnapshot, TypeOK
<1>4. received[s] = <<>> /\ sending[s] = <<>> /\ queue[s] = <<>>
  BY <1>1 DEF Listed
<1>5. received'[s] = <<>> /\ sending'[s] = <<>> /\ queue'[s] = <<u>>
  <2>1. received' = received /\ sending' = sending
    BY DEF SubSnapshot
  <2>2. queue'[s] = Append(queue[s], u)
    BY DEF SubSnapshot, TypeOK
  <2>3. Append(<<>>, u) = <<u>>
    OBVIOUS
  <2> QED
    BY <1>4, <2>1, <2>2, <2>3
<1>6. Streamed(s)' = <<u>>
  BY <1>5 DEF Streamed
<1>7. hist' = hist /\ req' = req /\ todo' = todo
  BY DEF SubSnapshot, docVars, callVars, editVars
<1> QED
  BY <1>1, <1>2, <1>3, <1>6, <1>7

-----------------------------------------------------------------------------
(***************************************************************************)
(* The streams and the theorems.                                           *)
(***************************************************************************)

\* The messages of a stream are consecutive versions of a history, the first
\* one a snapshot.
Exact(st, j, h) ==
  \A i \in 1..Len(st) :
    /\ st[i].version = j + i - 1
    /\ st[i].version < Len(h)
    /\ st[i].content = h[st[i].version + 1].content
    /\ st[i].snapshot = (i = 1)

\* A history that grows leaves a stream exact.
LEMMA ExactGrows ==
  ASSUME NEW st, NEW j \in Nat, NEW h \in Seq(History), NEW g \in Seq(History),
         Exact(st, j, h), Len(st) \in Nat,
         \A i \in 1..Len(h) : i \in 1..Len(g) /\ g[i] = h[i]
  PROVE  Exact(st, j, g)
<1> SUFFICES ASSUME NEW i \in 1..Len(st)
             PROVE  /\ st[i].version = j + i - 1
                    /\ st[i].version < Len(g)
                    /\ st[i].content = g[st[i].version + 1].content
                    /\ st[i].snapshot = (i = 1)
  BY DEF Exact
<1>1. /\ st[i].version = j + i - 1 /\ st[i].version < Len(h)
      /\ st[i].content = h[st[i].version + 1].content
      /\ st[i].snapshot = (i = 1)
  BY DEF Exact
<1>2. Len(h) \in Nat /\ Len(g) \in Nat
  OBVIOUS
<1>3. st[i].version + 1 \in 1..Len(h)
  BY <1>1, <1>2
<1> QED
  BY <1>1, <1>2, <1>3

\* Every step keeps the messages of every stream exact.
LEMMA ExactStep ==
  ASSUME TypeOK, LockOrder, Staged, Current, Drafted, Broadcasting, Listed, StreamExact,
         [Next]_vars, NEW s \in Call
  PROVE  Exact(Streamed(s)', joined'[s], hist'[Doc(s)])
<1>a. /\ joined[s] \in Nat /\ Doc(s) \in Name /\ hist[Doc(s)] \in Seq(History)
      /\ hist'[Doc(s)] \in Seq(History) /\ req' = req
  <2>1. TypeOK'
    BY TypeStep
  <2> QED
    BY <2>1, HistoryFrame DEF TypeOK, Doc, Request
<1>b. Exact(Streamed(s), joined[s], hist[Doc(s)])
  BY DEF StreamExact, Exact
<1>c. Streamed(s) \in Seq(Update)
  BY ConcatProperties DEF Streamed, TypeOK
<1>d. Len(Streamed(s)) \in Nat
  BY <1>c
<1>e. Exact(Streamed(s), joined[s], hist'[Doc(s)])
  <2>1. \A i \in 1..Len(hist[Doc(s)]) :
          i \in 1..Len(hist'[Doc(s)]) /\ hist'[Doc(s)][i] = hist[Doc(s)][i]
    BY <1>a, HistoryGrows
  <2> QED
    BY <1>a, <1>b, <1>d, <2>1, ExactGrows
<1>1. CASE Streamed(s)' = Streamed(s) /\ joined'[s] = joined[s]
  BY <1>1, <1>e
<1>2. CASE SubSnapshot(s)
  <2>1. /\ hist' = hist /\ joined'[s] = Len(hist[Doc(s)]) - 1 /\ joined'[s] \in Nat
        /\ Len(Streamed(s)') = 1
        /\ Streamed(s)'[1] = [content |-> Latest(Doc(s)).content,
                              version |-> joined'[s], snapshot |-> TRUE]
    BY <1>2, SnapshotFacts
  <2>2. Len(hist[Doc(s)]) \in Nat
    BY <1>a
  <2>3. /\ Streamed(s)'[1].version = joined'[s] + 1 - 1
        /\ Streamed(s)'[1].version < Len(hist'[Doc(s)])
        /\ Streamed(s)'[1].version + 1 = Len(hist'[Doc(s)])
        /\ Streamed(s)'[1].content = hist'[Doc(s)][Len(hist'[Doc(s)])].content
        /\ Streamed(s)'[1].snapshot = TRUE
    BY <2>1, <2>2 DEF Latest
  <2> SUFFICES ASSUME NEW i \in 1..Len(Streamed(s)')
               PROVE  /\ Streamed(s)'[i].version = joined'[s] + i - 1
                      /\ Streamed(s)'[i].version < Len(hist'[Doc(s)])
                      /\ Streamed(s)'[i].content =
                           hist'[Doc(s)][Streamed(s)'[i].version + 1].content
                      /\ Streamed(s)'[i].snapshot = (i = 1)
    BY DEF Exact
  <2>4. i = 1
    BY <2>1
  <2> QED
    BY <2>3, <2>4
<1>3. ASSUME NEW c \in Call, EditPut(c)
      PROVE  Exact(Streamed(s)', joined'[s], hist'[Doc(s)])
  <2>1. PICK t \in todo[c] :
          /\ hist' = hist /\ joined' = joined
          /\ Extends(Streamed(t)', Streamed(t),
                     [content |-> draft[c].content, version |-> draft[c].version,
                      snapshot |-> FALSE])
          /\ \A e \in Call \ {t} : Streamed(e)' = Streamed(e)
    BY <1>3, PutFacts
  <2>2. CASE s # t
    BY <1>1, <2>1, <2>2
  <2>3. CASE s = t
    <3>1. /\ Streamed(s) # <<>>
          /\ joined[s] + Len(Streamed(s)) + 1 = Len(hist[Doc(s)])
          /\ draft[c].version = Len(hist[Doc(s)]) - 1
          /\ draft[c].content = Latest(Doc(s)).content
      BY <2>1, <2>3, UnreachedFacts
    <3>2. Len(Streamed(s)) \in Nat \ {0}
      BY <1>c, <3>1, EmptySeq
    <3> DEFINE n == Len(Streamed(s))
               h == hist[Doc(s)]
               st == Streamed(s)'
    <3>3. /\ Len(st) = n + 1 /\ n \in Nat \ {0}
          /\ \A i \in 1..n : st[i] = Streamed(s)[i]
          /\ st[n + 1] = [content |-> draft[c].content, version |-> draft[c].version,
                          snapshot |-> FALSE]
      BY <2>1, <2>3, <3>2 DEF Extends
    <3>4. Len(h) \in Nat
      BY <1>a
    <3>5. /\ st[n + 1].version = joined[s] + (n + 1) - 1
          /\ st[n + 1].version < Len(h)
          /\ st[n + 1].version + 1 = Len(h)
          /\ st[n + 1].content = h[Len(h)].content
          /\ st[n + 1].snapshot = FALSE
      <4> DEFINE v == draft[c].version
                 x == draft[c].content
      <4>1. /\ v = Len(h) - 1 /\ x = h[Len(h)].content
            /\ joined[s] + n + 1 = Len(h) /\ joined[s] \in Nat
        BY <1>a, <3>1 DEF Latest
      <4>2. st[n + 1].version = v /\ st[n + 1].content = x /\ st[n + 1].snapshot = FALSE
        BY <3>3
      <4>3. n \in Nat
        BY <3>3
      <4> HIDE DEF v, x, n, h, st
      <4> QED
        BY <3>4, <4>1, <4>2, <4>3
    <3>6. \A i \in 1..n : /\ st[i].version = joined[s] + i - 1
                          /\ st[i].version < Len(h)
                          /\ st[i].content = h[st[i].version + 1].content
                          /\ st[i].snapshot = (i = 1)
      BY <1>b, <3>3 DEF Exact
    <3> HIDE DEF n, h, st
    <3>7. Exact(st, joined[s], h)
      <4> SUFFICES ASSUME NEW i \in 1..Len(st)
                   PROVE  /\ st[i].version = joined[s] + i - 1
                          /\ st[i].version < Len(h)
                          /\ st[i].content = h[st[i].version + 1].content
                          /\ st[i].snapshot = (i = 1)
        BY DEF Exact
      <4>1. i \in 1..n \/ i = n + 1
        BY <3>3
      <4>2. CASE i \in 1..n
        BY <3>6, <4>2
      <4>3. CASE i = n + 1
        <5>1. (i = 1) = FALSE
          BY <3>3, <4>3
        <5>2. st[i].snapshot = (i = 1)
          BY <3>5, <4>3, <5>1
        <5> QED
          BY <3>5, <4>3, <5>2
      <4> QED
        BY <4>1, <4>2, <4>3
    <3> QED
      BY <2>1, <3>7 DEF h, st
  <2> QED
    BY <2>2, <2>3
<1>4. ASSUME NEW c \in Call, EditBump(c) \/ CreateInsert(c)
      PROVE  Streamed(s)' = Streamed(s) /\ joined'[s] = joined[s]
  BY <1>4 DEF EditBump, CreateInsert, Streamed, streamVars
<1> QED
  BY <1>1, <1>2, <1>3, <1>4, StreamFrame DEF Quiet, Streamed

\* A subscription on the list has been streamed, or is being put, everything
\* up to the latest version.
Complete(s) ==
  s \in subscribers[Doc(s)] /\ pc[s] # "sub_snap" =>
    /\ Streamed(s) # <<>>
    /\ joined[s] + Len(Streamed(s)) + (IF s \in Unreached THEN 1 ELSE 0)
         = Len(hist[Doc(s)])

\* Every step keeps every subscription on a list complete.
LEMMA CompleteStep ==
  ASSUME TypeOK, LockOrder, Staged, Current, Drafted, Broadcasting, Listed, StreamExact,
         [Next]_vars, NEW s \in Call
  PROVE  Complete(s)'
<1>a. req' = req /\ Doc(s)' = Doc(s) /\ Doc(s) \in Name
  BY HistoryFrame DEF Doc, TypeOK, Request
<1>b. Complete(s)
  BY DEF StreamExact, Complete
<1>c. \A c \in Call : s \in todo[c] => pc[c] = "edit_put" /\ Doc(c) = Doc(s) /\ lock[Doc(s)] = c
  BY UnreachedFacts
<1>d. Len(Streamed(s)) \in Nat /\ joined[s] \in Nat /\ Len(hist[Doc(s)]) \in Nat
  <2>1. Streamed(s) \in Seq(Update)
    BY ConcatProperties DEF Streamed, TypeOK
  <2> QED
    BY <1>a, <2>1 DEF TypeOK
<1>1. CASE Quiet(s)
  <2>1. Unreached' = Unreached
    BY <1>1 DEF Quiet, Unreached
  <2> QED
    BY <1>1, <1>a, <1>b, <2>1 DEF Quiet, Complete, Streamed
<1>2. CASE SubSnapshot(s)
  <2>1. /\ hist' = hist /\ todo' = todo /\ lock[Doc(s)] = s /\ pc[s] = "sub_snap"
        /\ joined'[s] = Len(hist[Doc(s)]) - 1 /\ Len(Streamed(s)') = 1
        /\ Streamed(s)' # <<>>
    BY <1>2, SnapshotFacts
  <2>2. s \notin Unreached'
    BY <1>c, <2>1 DEF Unreached
  <2> QED
    BY <1>a, <1>d, <2>1, <2>2 DEF Complete
<1>3. ASSUME NEW c \in Call, EditPut(c)
      PROVE  Complete(s)'
  <2>1. PICK t \in todo[c] :
          /\ hist' = hist /\ joined' = joined /\ pc' = pc /\ subscribers' = subscribers
          /\ Extends(Streamed(t)', Streamed(t),
                     [content |-> draft[c].content, version |-> draft[c].version,
                      snapshot |-> FALSE])
          /\ \A e \in Call \ {t} : Streamed(e)' = Streamed(e)
          /\ todo' = [todo EXCEPT ![c] = @ \ {t}]
    BY <1>3, PutFacts
  <2>t. todo \in [Call -> SUBSET Call]
    BY DEF TypeOK
  <2>2. CASE s # t
    <3>1. s \in Unreached' <=> s \in Unreached
      BY <2>1, <2>2, <2>t DEF Unreached
    <3> QED
      BY <1>a, <1>b, <2>1, <2>2, <3>1 DEF Complete
  <2>3. CASE s = t
    <3>1. /\ joined[s] + Len(Streamed(s)) + 1 = Len(hist[Doc(s)])
          /\ \A e \in Call : s \in todo[e] => e = c
      BY <2>1, <2>3, UnreachedFacts
    <3>2. s \notin Unreached'
      BY <2>1, <2>3, <2>t, <3>1 DEF Unreached
    <3>3. Len(Streamed(s)') = Len(Streamed(s)) + 1
      BY <2>1, <2>3 DEF Extends
    <3>4. Streamed(s)' # <<>>
      BY <1>d, <3>3
    <3> QED
      BY <1>a, <1>d, <2>1, <3>1, <3>2, <3>3, <3>4 DEF Complete
  <2> QED
    BY <2>2, <2>3
<1>4. ASSUME NEW c \in Call, EditBump(c)
      PROVE  Complete(s)'
  <2>1. /\ subscribers' = subscribers /\ joined' = joined /\ Streamed(s)' = Streamed(s)
        /\ pc[c] = "edit_bump" /\ pc' = [pc EXCEPT ![c] = "edit_put"]
        /\ todo' = [todo EXCEPT ![c] = subscribers[Doc(c)]]
    BY <1>4 DEF EditBump, lockVars, streamVars, Streamed, Goto
  <2>2. /\ Len(hist'[Doc(c)]) = Len(hist[Doc(c)]) + 1
        /\ \A d \in Name \ {Doc(c)} : hist'[d] = hist[d]
    BY <1>4, BumpHistory
  <2>3. lock[Doc(c)] = c /\ Doc(c) \in Name
    BY <2>1 DEF LockOrder, Critical, TypeOK, Doc, Request
  <2>4. pc \in [Call -> Pcs] /\ todo \in [Call -> SUBSET Call]
    BY DEF TypeOK
  <2> SUFFICES ASSUME s \in subscribers[Doc(s)], pc'[s] # "sub_snap"
               PROVE  /\ Streamed(s) # <<>>
                      /\ joined[s] + Len(Streamed(s)) + (IF s \in Unreached' THEN 1 ELSE 0)
                           = Len(hist'[Doc(s)])
    BY <1>a, <2>1 DEF Complete
  <2>5. pc[s] # "sub_snap"
    BY <2>1, <2>4
  <2>6. CASE Doc(s) = Doc(c)
    <3>1. s \notin Unreached
      BY <1>c, <2>1, <2>3, <2>6 DEF Unreached
    <3>2. s \in Unreached'
      BY <2>1, <2>4, <2>6 DEF Unreached
    <3> QED
      BY <1>b, <1>d, <2>2, <2>5, <2>6, <3>1, <3>2 DEF Complete
  <2>7. CASE Doc(s) # Doc(c)
    <3>1. s \notin subscribers[Doc(c)]
      BY <2>3, <2>7 DEF Listed
    <3>2. s \notin todo[c]
      BY <1>c, <2>7
    <3>3. s \in Unreached' <=> s \in Unreached
      BY <2>1, <2>4, <3>1, <3>2 DEF Unreached
    <3> QED
      BY <1>a, <1>b, <2>2, <2>5, <2>7, <3>3 DEF Complete
  <2> QED
    BY <2>6, <2>7
<1>5. ASSUME NEW c \in Call, CreateInsert(c)
      PROVE  Complete(s)'
  <2>1. /\ subscribers' = [subscribers EXCEPT ![Strip[Doc(c)]] = {}]
        /\ joined' = joined /\ todo' = todo /\ Streamed(s)' = Streamed(s)
        /\ pc' = [pc EXCEPT ![c] = "done"]
    BY <1>5 DEF CreateInsert, streamVars, editVars, Streamed, Answer, Goto
  <2>2. /\ Strip[Doc(c)] \in Name \ docs
        /\ \A d \in Name \ {Strip[Doc(c)]} : hist'[d] = hist[d]
        /\ req[c].kind = "create"
    BY <1>5, InsertHistory
  <2>3. subscribers \in [Name -> SUBSET Call] /\ pc \in [Call -> Pcs]
    BY DEF TypeOK
  <2>4. Unreached' = Unreached
    BY <2>1 DEF Unreached
  <2>5. CASE Doc(s) = Strip[Doc(c)]
    BY <1>a, <2>1, <2>2, <2>3, <2>5 DEF Complete
  <2>6. CASE Doc(s) # Strip[Doc(c)]
    <3>1. subscribers'[Doc(s)] = subscribers[Doc(s)] /\ hist'[Doc(s)] = hist[Doc(s)]
      BY <1>a, <2>1, <2>2, <2>3, <2>6
    <3>2. pc'[s] # "sub_snap" /\ s \in subscribers[Doc(s)] => pc[s] # "sub_snap"
      <4>1. pc[s] = "sub_snap" => req[s].kind = "subscribe"
        BY DEF Staged, SubPcs
      <4> QED
        BY <2>1, <2>2, <2>3, <4>1
    <3> QED
      BY <1>a, <1>b, <2>1, <2>4, <3>1, <3>2 DEF Complete
  <2> QED
    BY <2>5, <2>6
<1> QED
  BY <1>1, <1>2, <1>3, <1>4, <1>5, StreamFrame

-----------------------------------------------------------------------------
(***************************************************************************)
(* The theorems.                                                           *)
(***************************************************************************)

\* The inductive invariant holds initially.
LEMMA InitIInv == Init => IInv
<1> SUFFICES ASSUME Init PROVE IInv
  OBVIOUS
<1>1. TypeOK
  BY TypeInit
<1>2. LockOrder /\ Staged /\ Broadcasting
  BY <1>1, CallAssumption DEF Init, LockOrder, Critical, Staged, EditPcs, SubPcs, Broadcasting, NoReply, TypeOK
<1>3. Current /\ Drafted /\ Authored /\ NoLostEdit
  BY <1>1 DEF Init, Current, Drafted, Authored, NoLostEdit
<1>4. AnswersAreVersions /\ CreatedOnce
  BY DEF Init, AnswersAreVersions, CreatedOnce, NoReply
<1>5. Listed
  BY DEF Init, Listed
<1>6. StreamExact
  <2>1. \A c \in Call : Streamed(c) = <<>>
    BY DEF Init, Streamed
  <2>2. \A c \in Call : c \notin subscribers[Doc(c)]
    BY <1>1 DEF Init, TypeOK, Doc, Request
  <2> QED
    BY <2>1, <2>2 DEF StreamExact
<1> QED
  BY <1>1, <1>2, <1>3, <1>4, <1>5, <1>6 DEF IInv

\* Every step keeps the inductive invariant.
LEMMA NextIInv == IInv /\ [Next]_vars => IInv'
<1> SUFFICES ASSUME IInv, [Next]_vars PROVE IInv'
  OBVIOUS
<1>1. TypeOK' /\ LockOrder' /\ Staged'
  BY TypeStep, LockStep, StageStep DEF IInv
<1>2. Current' /\ Drafted' /\ Authored' /\ NoLostEdit'
  BY CurrentStep, DraftStep, AuthorStep, NoLostEditStep DEF IInv
<1>3. AnswersAreVersions' /\ CreatedOnce'
  BY AnswerStep, CreatedStep DEF IInv
<1>4. Broadcasting' /\ Listed'
  BY BroadcastStep, ListStep DEF IInv
<1>5. StreamExact'
  <2>1. \A s \in Call : Exact(Streamed(s)', joined'[s], hist'[Doc(s)])
    BY ExactStep DEF IInv
  <2>2. \A s \in Call : Complete(s)'
    BY CompleteStep DEF IInv
  <2>3. req' = req
    BY HistoryFrame
  <2> QED
    BY <2>1, <2>2, <2>3 DEF StreamExact, Exact, Complete, Doc
<1> QED
  BY <1>1, <1>2, <1>3, <1>4, <1>5 DEF IInv

\* The inductive invariant holds in every reachable state.
THEOREM Invariance == Spec => []IInv
BY InitIInv, NextIInv, PTL DEF Spec

\* A call in a document's critical section is the only holder of its lock, and
\* no call holds the registry lock and a document lock together.
THEOREM LocksInOrder == Spec => []LockOrder
<1>1. IInv => LockOrder
  BY DEF IInv
<1> QED
  BY <1>1, Invariance, PTL

\* However edits of one document interleave, none is lost, torn or applied
\* twice.
THEOREM EditsAreSerial == Spec => []NoLostEdit
<1>1. IInv => NoLostEdit
  BY DEF IInv
<1> QED
  BY <1>1, Invariance, PTL

\* Every answer to an open or an edit is a version the document really had.
THEOREM AnswersAreTrue == Spec => []AnswersAreVersions
<1>1. IInv => AnswersAreVersions
  BY DEF IInv
<1> QED
  BY <1>1, Invariance, PTL

\* A subscriber's stream is a snapshot and then every later version, once, in
\* order, and nothing is missing while it is on the list.
THEOREM StreamsAreExact == Spec => []StreamExact
<1>1. IInv => StreamExact
  BY DEF IInv
<1> QED
  BY <1>1, Invariance, PTL

\* A subscription that has ended is on no list.
THEOREM NoGhosts == Spec => []NoGhostSubscriber
<1>1. IInv => NoGhostSubscriber
  BY DEF IInv, Listed, NoGhostSubscriber, ListedPcs, SubPcs
<1> QED
  BY <1>1, Invariance, PTL

\* A name is created at most once.
THEOREM NamesAreUnique == Spec => []CreatedOnce
<1>1. IInv => CreatedOnce
  BY DEF IInv
<1> QED
  BY <1>1, Invariance, PTL

\* What has been committed is never rewritten, and a free document shows its
\* latest version.
THEOREM CommitsAreFinal == Spec => NeverRewritten
<1>1. IInv /\ IInv' /\ [Next]_vars =>
        \A d \in docs :
          /\ \A i \in 1..Len(hist[d]) : i <= Len(hist'[d]) /\ hist'[d][i] = hist[d][i]
          /\ lock'[d] = Nobody =>
               /\ version'[d] = Len(hist'[d]) - 1
               /\ content'[d] = hist'[d][Len(hist'[d])].content
  <2> SUFFICES ASSUME IInv, IInv', [Next]_vars, NEW d \in docs
               PROVE  /\ \A i \in 1..Len(hist[d]) : i <= Len(hist'[d]) /\ hist'[d][i] = hist[d][i]
                      /\ lock'[d] = Nobody =>
                           /\ version'[d] = Len(hist'[d]) - 1
                           /\ content'[d] = hist'[d][Len(hist'[d])].content
    OBVIOUS
  <2>1. d \in Name /\ d \in docs' /\ version'[d] \in Nat
    <3>1. docs \subseteq docs'
      <4>1. \A e \in Call : CreateInsert(e) \/ EditBump(e) => docs \subseteq docs'
        BY DEF CreateInsert, EditBump, registryVars
      <4> QED
        BY <4>1, HistoryFrame
    <3> QED
      BY <3>1 DEF IInv, TypeOK
  <2>2. \A i \in 1..Len(hist[d]) : i \in 1..Len(hist'[d]) /\ hist'[d][i] = hist[d][i]
    BY <2>1, HistoryGrows DEF IInv
  <2>3. lock'[d] = Nobody => \A e \in Call : pc'[e] = "edit_bump" => Doc(e)' # d
    BY CallAssumption DEF IInv, LockOrder, Critical
  <2>4. Len(hist'[d]) = version'[d] + 1
    BY <2>1 DEF IInv, Current
  <2>5. lock'[d] = Nobody => content'[d] = hist'[d][Len(hist'[d])].content
    BY <2>1, <2>3 DEF IInv, Current, Latest
  <2> QED
    BY <2>1, <2>2, <2>4, <2>5
<1> QED
  BY <1>1, Invariance, PTL DEF Spec, NeverRewritten

-----------------------------------------------------------------------------
(***************************************************************************)
(* The server implements the atomic service: the initial states map to     *)
(* initial states of DocAbstract, and each step maps to one step of the    *)
(* service or to none.                                                     *)
(***************************************************************************)

\* Nothing is ready initially.
LEMMA InitEntering == Init => Entering
BY DEF Init, Entering

\* Every step keeps what the two waiting calls rely on.
LEMMA EnteringStep == IInv /\ Entering /\ [Next]_vars => Entering'
<1> SUFFICES ASSUME IInv, Entering, [Next]_vars, NEW e \in Call
             PROVE  /\ pc'[e] = "create_insert" => Strip[req'[e].name] # Blank
                    /\ pc'[e] = "sub_snap" => e \in subscribers'[req'[e].name]
  BY DEF Entering, Doc
<1> DEFINE Goal == /\ pc'[e] = "create_insert" => Strip[req'[e].name] # Blank
                   /\ pc'[e] = "sub_snap" => e \in subscribers'[req'[e].name]
<1>a. /\ pc \in [Call -> Pcs] /\ req \in [Call -> Request]
      /\ subscribers \in [Name -> SUBSET Call]
  BY DEF IInv, TypeOK
<1>b. /\ pc[e] = "create_insert" => Strip[Doc(e)] # Blank
      /\ pc[e] = "sub_snap" => e \in subscribers[Doc(e)]
      /\ pc[e] = "sub_snap" => Doc(e) \in docs /\ ~callback[e]
  BY DEF Entering, IInv, Staged, SubPcs, Listed
<1>c. req' = req /\ Doc(e) \in Name
  BY <1>a, HistoryFrame DEF Doc, Request
<1> USE DEF Doc, Goto, lockVars
<1>1. ASSUME NEW c \in Call,
             Arrive(c) \/ Cancel(c) \/ Deliver(c) \/ CreateReject(c)
      PROVE  Goal
  BY <1>a, <1>b, <1>c, <1>1 DEF Arrive, Cancel, Deliver, CreateReject, Answer, callVars
<1>2. ASSUME NEW c \in Call, Start(c) PROVE Goal
  <2>1. PICK l \in {"create", "lookup"} : pc' = [pc EXCEPT ![c] = l]
    BY <1>2 DEF Start
  <2> QED
    BY <1>a, <1>b, <1>c, <1>2, <2>1 DEF Start
<1>3. ASSUME NEW c \in Call, CreateCheck(c) PROVE Goal
  BY <1>a, <1>b, <1>c, <1>3 DEF CreateCheck, Answer
<1>4. ASSUME NEW c \in Call, CreateInsert(c) PROVE Goal
  <2>1. Strip[Doc(c)] \notin docs
    BY <1>4, InsertHistory DEF IInv
  <2> QED
    BY <1>a, <1>b, <1>c, <1>4, <2>1 DEF CreateInsert, Answer
<1>5. ASSUME NEW c \in Call, Lookup(c) PROVE Goal
  <2>1. PICK l \in {"get", "edit", "subscribe", "done"} : pc' = [pc EXCEPT ![c] = l]
    BY <1>5 DEF Lookup, AfterLookup, Answer
  <2> QED
    BY <1>a, <1>b, <1>c, <1>5, <2>1 DEF Lookup
<1>6. ASSUME NEW c \in Call, GetRead(c) \/ EditReject(c) \/ EditReturn(c)
      PROVE  Goal
  BY <1>a, <1>b, <1>c, <1>6 DEF GetRead, EditReject, EditReturn, Answer
<1>7. ASSUME NEW c \in Call, EditBegin(c) \/ EditWrite(c) \/ EditBump(c) \/ EditPut(c)
      PROVE  Goal
  BY <1>a, <1>b, <1>c, <1>7 DEF EditBegin, EditWrite, EditBump, EditPut
<1>8. ASSUME NEW c \in Call, SubAppend(c) PROVE Goal
  BY <1>a, <1>b, <1>c, <1>8 DEF SubAppend, callVars
<1>9. ASSUME NEW c \in Call,
             SubSnapshot(c) \/ SubRegister(c) \/ SubGet(c) \/ SubLeave(c)
      PROVE  Goal
  BY <1>a, <1>b, <1>c, <1>9 DEF SubSnapshot, SubRegister, SubGet, SubLeave
<1>10. ASSUME NEW c \in Call, SubExit(c) PROVE Goal
  BY <1>a, <1>b, <1>c, <1>10 DEF SubExit
<1>11. ASSUME NEW c \in Call, Callback(c) PROVE Goal
  BY <1>a, <1>b, <1>c, <1>11 DEF Callback
<1>12. CASE UNCHANGED vars
  BY <1>b, <1>c, <1>12 DEF vars
<1> QED
  BY <1>1, <1>2, <1>3, <1>4, <1>5, <1>6, <1>7, <1>8, <1>9, <1>10, <1>11, <1>12
     DEF Next, Handle, SubTimeout, Finished

\* The invariant of the refinement holds in every reachable state.
LEMMA AlwaysEntering == Spec => [](IInv /\ Entering)
<1>1. Init => IInv /\ Entering
  BY InitIInv, InitEntering
<1>2. IInv /\ Entering /\ [Next]_vars => (IInv /\ Entering)'
  BY NextIInv, EnteringStep
<1> QED
  BY <1>1, <1>2, PTL DEF Spec

-----------------------------------------------------------------------------
(***************************************************************************)
(* What the mapped variables depend on.                                    *)
(***************************************************************************)

\* The message under way to s, for a broadcast td with the updates dr.
UnderWay(td, dr, s) ==
  LET editors == {e \in Call : s \in td[e]} IN
  IF editors = {} THEN <<>>
  ELSE LET e == CHOOSE e \in editors : TRUE
       IN <<[content |-> dr[e].content, version |-> dr[e].version,
             snapshot |-> FALSE]>>

\* No broadcast has s to reach: nothing is under way.
LEMMA NoneUnderWay ==
  ASSUME NEW td, NEW dr, NEW s, \A e \in Call : s \notin td[e]
  PROVE  UnderWay(td, dr, s) = <<>>
BY DEF UnderWay

\* One broadcast has s to reach: its update is under way.
LEMMA OneUnderWay ==
  ASSUME NEW td, NEW dr, NEW s, NEW e \in Call, s \in td[e],
         \A f \in Call : s \in td[f] => f = e
  PROVE  UnderWay(td, dr, s) =
           <<[content |-> dr[e].content, version |-> dr[e].version, snapshot |-> FALSE]>>
<1> DEFINE editors == {f \in Call : s \in td[f]}
<1>1. editors = {e}
  OBVIOUS
<1>2. (CHOOSE f \in {e} : TRUE) = e
  OBVIOUS
<1>3. (CHOOSE f \in editors : TRUE) = e
  BY <1>1, <1>2
<1> QED
  BY <1>1, <1>3 DEF UnderWay

\* Whatever a change of td and dr leaves alone for s stays under way.
LEMMA SameUnderWay ==
  ASSUME NEW td, NEW dr, NEW tn, NEW dn, NEW s,
         \A e \in Call : (s \in tn[e]) <=> (s \in td[e]),
         \A e \in Call : s \in td[e] => dn[e] = dr[e]
  PROVE  UnderWay(tn, dn, s) = UnderWay(td, dr, s)
<1> DEFINE before == {e \in Call : s \in td[e]}
           after  == {e \in Call : s \in tn[e]}
           f == CHOOSE e \in before : TRUE
           g == CHOOSE e \in after : TRUE
<1>1. before = after
  OBVIOUS
<1>2. CASE before = {}
  BY <1>1, <1>2 DEF UnderWay
<1>3. CASE before # {}
  <2>1. f \in before
    BY <1>3
  <2>2. dn[f] = dr[f]
    BY <2>1
  <2>3. UnderWay(td, dr, s) =
          <<[content |-> dr[f].content, version |-> dr[f].version, snapshot |-> FALSE]>>
    BY <1>3 DEF UnderWay
  <2>4. UnderWay(tn, dn, s) =
          <<[content |-> dn[g].content, version |-> dn[g].version, snapshot |-> FALSE]>>
    BY <1>1, <1>3 DEF UnderWay
  <2>5. f = g
    <3> HIDE DEF before, after
    <3> QED
      BY <1>1
  <2> HIDE DEF f, g
  <2> QED
    BY <2>2, <2>3, <2>4, <2>5
<1> QED
  BY <1>2, <1>3

\* What is announced to s is its stream and what is under way to it.
LEMMA AnnouncedIs ==
  \A s \in Call : Announced[s] = Streamed(s) \o UnderWay(todo, draft, s)
BY DEF Announced, InFlight, UnderWay

\* The same for the state after a step.
LEMMA AnnouncedNext ==
  \A s \in Call : Announced'[s] = Streamed(s)' \o UnderWay(todo', draft', s)
BY DEF Announced, InFlight, UnderWay

\* A step that changes no stream, no broadcast and no update of one leaves
\* what is announced alone.
LEMMA AnnouncedSame ==
  ASSUME \A s \in Call : Streamed(s)' = Streamed(s), todo' = todo,
         \A e \in Call : todo[e] # {} => draft'[e] = draft[e]
  PROVE  Announced' = Announced
<1>1. \A s \in Call : UnderWay(todo', draft', s) = UnderWay(todo, draft, s)
  <2> TAKE s \in Call
  <2>1. /\ \A e \in Call : (s \in todo'[e]) <=> (s \in todo[e])
        /\ \A e \in Call : s \in todo[e] => draft'[e] = draft[e]
    OBVIOUS
  <2> QED
    BY <2>1, SameUnderWay
<1>2. \A s \in Call : Announced'[s] = Announced[s]
  BY <1>1, AnnouncedIs, AnnouncedNext
<1> QED
  BY <1>2 DEF Announced

\* An audience changes only with the list or with a snapshot.
LEMMA AudienceSame ==
  ASSUME TypeOK, TypeOK',
         \A d \in Name : \A s \in Call :
           (s \in subscribers'[d] /\ pc'[s] # "sub_snap")
             <=> (s \in subscribers[d] /\ pc[s] # "sub_snap")
  PROVE  Audience' = Audience
<1>1. \A d \in Name : Audience'[d] = Audience[d]
  BY DEF Audience, TypeOK
<1> QED
  BY <1>1 DEF Audience

\* An answer is settled only by answering or by the bump of an edit.
LEMMA SettledSame ==
  ASSUME \A e \in Call : (pc'[e] = "edit_put") <=> (pc[e] = "edit_put"),
         \A e \in Call : pc[e] = "edit_put" => draft'[e] = draft[e],
         \A e \in Call : pc[e] # "edit_put" => reply'[e] = reply[e]
  PROVE  Settled' = Settled
BY DEF Settled

\* A step that none of the mapped variables notices is a stutter.
LEMMA StutterIs ==
  ASSUME req' = req, hist' = hist, Audience' = Audience, Announced' = Announced,
         Settled' = Settled
  PROVE  UNCHANGED Abs!avars
BY DEF Abs!avars

-----------------------------------------------------------------------------
(***************************************************************************)
(* The steps that the atomic service does not see.                         *)
(***************************************************************************)

\* A call that is not broadcasting has no queue left to reach.
LEMMA IdleBroadcast ==
  ASSUME IInv, NEW c \in Call, pc[c] # "edit_put"
  PROVE  todo[c] = {}
BY DEF IInv, TypeOK, Broadcasting

\* The steps of the pool, of the registry's tests and of an edit before its
\* bump change nothing that a client could notice.
LEMMA QuietHandler ==
  ASSUME IInv, TypeOK', NEW c \in Call,
         \/ Arrive(c) \/ Cancel(c) \/ Start(c) \/ EditBegin(c) \/ EditWrite(c)
         \/ SubAppend(c) \/ SubRegister(c) \/ SubLeave(c)
         \/ CreateCheck(c) /\ reply' = reply
         \/ Lookup(c) /\ reply' = reply
  PROVE  UNCHANGED Abs!avars
<1>a. /\ pc \in [Call -> Pcs] /\ req \in [Call -> Request]
      /\ subscribers \in [Name -> SUBSET Call] /\ draft \in [Call -> Draft]
  BY DEF IInv, TypeOK
<1>b. /\ pc' = [pc EXCEPT ![c] = pc'[c]]
      /\ pc[c] \notin {"edit_put", "sub_snap"} \/ pc' = pc
      /\ pc'[c] # "edit_put" \/ pc' = pc
      /\ pc'[c] # "sub_snap" \/ SubAppend(c) \/ pc' = pc
      /\ reply' = reply /\ req' = req /\ hist' = hist /\ todo' = todo
      /\ UNCHANGED streamVars
      /\ subscribers' = subscribers \/ SubAppend(c)
      /\ draft' = draft \/ EditBegin(c)
  <2> USE DEF Goto, Answer, callVars, docVars, editVars, lockVars
  <2>1. CASE Arrive(c) \/ Cancel(c)
    BY <1>a, <2>1 DEF Arrive, Cancel
  <2>2. CASE Start(c)
    <3>1. PICK l \in {"create", "lookup"} : pc' = [pc EXCEPT ![c] = l]
      BY <2>2 DEF Start
    <3> QED
      BY <1>a, <2>2, <3>1 DEF Start
  <2>3. CASE EditBegin(c) \/ EditWrite(c)
    BY <1>a, <2>3 DEF EditBegin, EditWrite
  <2>4. CASE SubAppend(c) \/ SubRegister(c) \/ SubLeave(c)
    BY <1>a, <2>4 DEF SubAppend, SubRegister, SubLeave
  <2>5. CASE CreateCheck(c) /\ reply' = reply
    BY <1>a, <2>5 DEF CreateCheck
  <2>6. CASE Lookup(c) /\ reply' = reply
    <3>1. PICK l \in {"get", "edit", "subscribe", "done"} : pc' = [pc EXCEPT ![c] = l]
      BY <2>6 DEF Lookup, AfterLookup
    <3> QED
      BY <1>a, <2>6, <3>1 DEF Lookup
  <2> QED
    BY <2>1, <2>2, <2>3, <2>4, <2>5, <2>6
<1>1. \A s \in Call : Streamed(s)' = Streamed(s)
  BY <1>b DEF Streamed, streamVars
<1>2. Announced' = Announced
  <2>1. \A e \in Call : todo[e] # {} => draft'[e] = draft[e]
    <3> SUFFICES ASSUME NEW e \in Call, todo[e] # {}, EditBegin(c) PROVE draft'[e] = draft[e]
      BY <1>b
    <3>1. pc[e] = "edit_put" /\ pc[c] = "edit"
      BY IdleBroadcast DEF EditBegin
    <3> QED
      BY <1>a, <3>1 DEF EditBegin
  <2> QED
    BY <1>1, <1>b, <2>1, AnnouncedSame
<1>3. Audience' = Audience
  <2> SUFFICES ASSUME NEW d \in Name, NEW s \in Call
               PROVE  (s \in subscribers'[d] /\ pc'[s] # "sub_snap")
                        <=> (s \in subscribers[d] /\ pc[s] # "sub_snap")
    BY AudienceSame DEF IInv
  <2>1. CASE SubAppend(c)
    <3>1. pc[c] = "subscribe" /\ c \notin subscribers[d]
      BY <2>1 DEF SubAppend, IInv, Listed, ListedPcs
    <3> QED
      BY <1>a, <2>1, <3>1 DEF SubAppend, Goto, Doc, Request
  <2>2. CASE ~SubAppend(c)
    BY <1>a, <1>b, <2>2
  <2> QED
    BY <2>1, <2>2
<1>4. Settled' = Settled
  <2>1. \A e \in Call : pc[e] = "edit_put" => draft'[e] = draft[e]
    <3> SUFFICES ASSUME NEW e \in Call, pc[e] = "edit_put", EditBegin(c)
                 PROVE  draft'[e] = draft[e]
      BY <1>b
    <3> QED
      BY <1>a DEF EditBegin
  <2>2. \A e \in Call : (pc'[e] = "edit_put") <=> (pc[e] = "edit_put")
    BY <1>a, <1>b
  <2> QED
    BY <1>b, <2>1, <2>2, SettledSame
<1> QED
  BY <1>b, <1>2, <1>3, <1>4, StutterIs

\* Handing a message to gRPC or to the client changes nothing announced.
LEMMA QuietStream ==
  ASSUME IInv, TypeOK', [Next]_vars, NEW c \in Call, SubGet(c) \/ Deliver(c)
  PROVE  UNCHANGED Abs!avars
<1>a. pc \in [Call -> Pcs] /\ reply \in [Call -> Reply]
  BY DEF IInv, TypeOK
<1>b. /\ pc[c] \in {"sub_loop", "sub_send"}
      /\ pc' = [pc EXCEPT ![c] = pc'[c]] /\ pc'[c] \in {"sub_loop", "sub_send"}
      /\ reply' = reply /\ req' = req /\ hist' = hist /\ todo' = todo
      /\ draft' = draft /\ subscribers' = subscribers /\ docs' = docs
  BY <1>a DEF SubGet, Deliver, Goto, callVars, docVars, editVars, lockVars, registryVars
<1>1. ASSUME NEW s \in Call PROVE Streamed(s)' = Streamed(s)
  <2>1. ~SubSnapshot(s)
    BY <1>a, <1>b DEF SubSnapshot, Goto
  <2>2. ASSUME NEW e \in Call, EditPut(e) \/ EditBump(e) \/ CreateInsert(e) PROVE FALSE
    <3>1. EditPut(e) => FALSE
      <4> SUFFICES ASSUME EditPut(e) PROVE FALSE
        OBVIOUS
      <4>1. PICK t \in todo[e] : todo' = [todo EXCEPT ![e] = @ \ {t}]
        BY DEF EditPut
      <4> QED
        BY <1>b, <4>1 DEF IInv, TypeOK
    <3>2. EditBump(e) => FALSE
      BY <1>a, <1>b DEF EditBump, Goto
    <3>3. CreateInsert(e) => FALSE
      BY <1>a, <1>b DEF CreateInsert, Answer, Goto
    <3> QED
      BY <2>2, <3>1, <3>2, <3>3
  <2> QED
    BY <2>1, <2>2, StreamFrame DEF IInv, Quiet, Streamed
<1>2. Announced' = Announced
  BY <1>1, <1>b, AnnouncedSame
<1>3. Audience' = Audience
  BY <1>a, <1>b, AudienceSame DEF IInv
<1>4. Settled' = Settled
  BY <1>a, <1>b, SettledSame
<1> QED
  BY <1>b, <1>2, <1>3, <1>4, StutterIs

\* A sequence that extends another is that one with the new element behind it.
LEMMA ExtendsIsAppend ==
  ASSUME NEW S, NEW old \in Seq(S), NEW longer \in Seq(S), NEW u \in S,
         Extends(longer, old, u)
  PROVE  longer = old \o <<u>>
<1>1. /\ Append(old, u) \in Seq(S) /\ Len(Append(old, u)) = Len(old) + 1
      /\ Append(old, u)[Len(old) + 1] = u
      /\ \A i \in 1..Len(old) : Append(old, u)[i] = old[i]
  BY AppendProperties
<1>2. \A i \in 1..Len(longer) : longer[i] = Append(old, u)[i]
  BY <1>1 DEF Extends
<1>3. longer = Append(old, u)
  BY <1>1, <1>2, SeqEqual DEF Extends
<1> QED
  BY <1>3, AppendIsConcat

\* All that a subscription was sent is a sequence of updates.
LEMMA StreamType == TypeOK => \A s \in Call : Streamed(s) \in Seq(Update)
BY ConcatProperties DEF TypeOK, Streamed

\* The same for the state after a step.
LEMMA StreamTypeNext == TypeOK' => \A s \in Call : Streamed(s)' \in Seq(Update)
BY ConcatProperties DEF TypeOK, Streamed

\* The put moves the update from under way to the queue: what is announced
\* stays the same.
LEMMA QuietPut ==
  ASSUME IInv, TypeOK', NEW c \in Call, EditPut(c)
  PROVE  UNCHANGED Abs!avars
<1> DEFINE u == [content |-> draft[c].content, version |-> draft[c].version,
                 snapshot |-> FALSE]
<1>a. /\ TypeOK /\ draft' = draft /\ reply' = reply
      /\ todo \in [Call -> SUBSET Call]
  BY DEF IInv, TypeOK, EditPut, callVars
<1>b. u \in Update
  BY <1>a DEF TypeOK, Draft, Update
<1>1. /\ hist' = hist /\ req' = req /\ pc' = pc /\ subscribers' = subscribers
      /\ \E t \in todo[c] :
           /\ t \in Call
           /\ Extends(Streamed(t)', Streamed(t), u)
           /\ \A s \in Call \ {t} : Streamed(s)' = Streamed(s)
           /\ todo' = [todo EXCEPT ![c] = @ \ {t}]
  BY <1>a, PutFacts
<1> HIDE DEF u
<1>2. PICK t \in todo[c] :
        /\ t \in Call
        /\ Extends(Streamed(t)', Streamed(t), u)
        /\ \A s \in Call \ {t} : Streamed(s)' = Streamed(s)
        /\ todo' = [todo EXCEPT ![c] = @ \ {t}]
  BY <1>1
<1>3. \A e \in Call : t \in todo[e] => e = c
  BY UnreachedFacts DEF IInv
<1>4. Announced'[t] = Announced[t]
  <2>1. UnderWay(todo, draft, t) = <<u>>
    BY <1>3, OneUnderWay DEF u
  <2>2. UnderWay(todo', draft', t) = <<>>
    <3>1. \A e \in Call : t \notin todo'[e]
      BY <1>a, <1>2, <1>3
    <3> QED
      BY <3>1, NoneUnderWay
  <2>3. Streamed(t) \in Seq(Update) /\ Streamed(t)' \in Seq(Update)
    BY <1>a, <1>2, StreamType, StreamTypeNext
  <2>4. Streamed(t)' = Streamed(t) \o <<u>>
    BY <1>b, <1>2, <2>3, ExtendsIsAppend
  <2>5. Streamed(t)' \o <<>> = Streamed(t)'
    BY <2>3, ConcatEmptySeq
  <2> QED
    BY <1>2, <2>1, <2>2, <2>4, <2>5, AnnouncedIs, AnnouncedNext
<1>5. ASSUME NEW s \in Call, s # t PROVE Announced'[s] = Announced[s]
  <2>1. \A e \in Call : (s \in todo'[e]) <=> (s \in todo[e])
    BY <1>a, <1>2, <1>5
  <2>2. UnderWay(todo', draft', s) = UnderWay(todo, draft, s)
    BY <1>a, <2>1, SameUnderWay
  <2> QED
    BY <1>2, <1>5, <2>2, AnnouncedIs, AnnouncedNext
<1>6. Announced' = Announced
  BY <1>4, <1>5 DEF Announced
<1>7. Audience' = Audience
  BY <1>1 DEF Audience
<1>8. Settled' = Settled
  BY <1>1, <1>a, SettledSame
<1> QED
  BY <1>1, <1>6, <1>7, <1>8, StutterIs

\* The response of an edit is the answer settled by its bump.
LEMMA QuietReturn ==
  ASSUME IInv, TypeOK', NEW c \in Call, EditReturn(c)
  PROVE  UNCHANGED Abs!avars
<1>a. /\ TypeOK /\ pc \in [Call -> Pcs] /\ reply \in [Call -> Reply]
  BY DEF IInv, TypeOK
<1>b. /\ pc[c] = "edit_put" /\ pc' = [pc EXCEPT ![c] = "done"]
      /\ reply' = [reply EXCEPT ![c] = Ok(content[Doc(c)], version[Doc(c)])]
      /\ UNCHANGED <<req, hist, todo, draft, subscribers>> /\ UNCHANGED streamVars
  BY DEF EditReturn, Answer, Goto, docVars, editVars
<1>1. \A s \in Call : Streamed(s)' = Streamed(s)
  BY <1>b DEF Streamed, streamVars
<1>2. Announced' = Announced
  BY <1>1, <1>b, AnnouncedSame
<1>3. Audience' = Audience
  BY <1>a, <1>b, AudienceSame
<1>4. Ok(content[Doc(c)], version[Doc(c)]) = Ok(draft[c].content, draft[c].version)
  <2>1. Doc(c) \in docs /\ lock[Doc(c)] = c
    BY <1>b DEF IInv, Staged, EditPcs, LockOrder, Critical
  <2>2. /\ draft[c].content = Latest(Doc(c)).content
        /\ draft[c].version = version[Doc(c)]
    BY <1>b DEF IInv, Drafted
  <2>3. content[Doc(c)] = Latest(Doc(c)).content
    BY <1>b, <2>1, Readable DEF IInv
  <2> QED
    BY <2>2, <2>3
<1>5. Settled' = Settled
  <2>1. reply'[c] = Ok(draft[c].content, draft[c].version)
    BY <1>a, <1>b, <1>4
  <2>2. \A e \in Call \ {c} : pc'[e] = pc[e] /\ reply'[e] = reply[e]
    BY <1>a, <1>b
  <2>3. pc'[c] = "done"
    BY <1>a, <1>b
  <2>4. \A e \in Call : Settled'[e] = Settled[e]
    BY <1>b, <2>1, <2>2, <2>3 DEF Settled
  <2> QED
    BY <2>4 DEF Settled
<1> QED
  BY <1>b, <1>2, <1>3, <1>5, StutterIs

-----------------------------------------------------------------------------
(***************************************************************************)
(* The steps that the atomic service takes.                                *)
(***************************************************************************)

\* A document of the service exists when it is in the registry, and its text
\* and version are those of the latest version.
LEMMA ServiceState ==
  ASSUME IInv, NEW d \in Name
  PROVE  /\ Abs!Exists(d) <=> d \in docs
         /\ Abs!Text(d) = Latest(d).content
         /\ Abs!Now(d) = Len(hist[d]) - 1
<1>1. /\ d \in docs => Len(hist[d]) = version[d] + 1 /\ version[d] \in Nat
      /\ d \notin docs => hist[d] = <<>>
  BY DEF IInv, Current, TypeOK
<1> QED
  BY <1>1 DEF Abs!Exists, Abs!Text, Abs!Now, Latest

\* A call that has not ended and is not broadcasting is pending.
LEMMA Waiting ==
  ASSUME IInv, NEW c \in Call, pc[c] \notin {"done", "edit_put"}
  PROVE  Settled[c].status = "none"
BY DEF IInv, Staged, Settled

\* The step only answers call c, by r, and ends it.
OnlyAnswers(c, r) ==
  /\ pc[c] \notin {"done", "edit_put", "sub_snap"}
  /\ pc' = [pc EXCEPT ![c] = "done"]
  /\ reply' = [reply EXCEPT ![c] = r]
  /\ UNCHANGED <<req, hist, subscribers, todo, draft>> /\ UNCHANGED streamVars

\* Such a step is seen as that answer alone, unless c is on a list.
LEMMA AnswerSeen ==
  ASSUME IInv, TypeOK', NEW c \in Call, NEW r, OnlyAnswers(c, r)
  PROVE  /\ Settled' = [Settled EXCEPT ![c] = r]
         /\ Announced' = Announced /\ Audience' = Audience
         /\ req' = req /\ hist' = hist
<1>a. TypeOK /\ pc \in [Call -> Pcs] /\ reply \in [Call -> Reply]
  BY DEF IInv, TypeOK
<1>1. \A s \in Call : Streamed(s)' = Streamed(s)
  BY DEF Streamed, streamVars, OnlyAnswers
<1>2. Announced' = Announced
  BY <1>1, AnnouncedSame DEF OnlyAnswers
<1>3. Audience' = Audience
  BY <1>a, AudienceSame DEF OnlyAnswers
<1>4. Settled' = [Settled EXCEPT ![c] = r]
  <2>1. Settled'[c] = r
    BY <1>a DEF OnlyAnswers, Settled
  <2>2. \A e \in Call \ {c} : Settled'[e] = Settled[e]
    BY <1>a DEF OnlyAnswers, Settled
  <2> QED
    BY <2>1, <2>2 DEF Settled
<1> QED
  BY <1>2, <1>3, <1>4 DEF OnlyAnswers

\* The four aborts are refusals of the service.
LEMMA RefuseSeen ==
  ASSUME IInv, TypeOK', NEW c \in Call,
         \/ CreateReject(c) \/ EditReject(c)
         \/ CreateCheck(c) /\ Strip[Doc(c)] \in docs
         \/ Lookup(c) /\ Doc(c) \notin docs
  PROVE  Abs!Refuse(c)
<1>a. Doc(c) \in Name /\ Strip[Doc(c)] \in Name
  BY NameAssumption DEF IInv, TypeOK, Doc, Request
<1> USE DEF Answer, Goto, docVars, lockVars, editVars
<1>1. CASE CreateReject(c)
  <2>1. OnlyAnswers(c, Abort("INVALID_ARGUMENT"))
    BY <1>1 DEF CreateReject, OnlyAnswers
  <2>2. req[c].kind = "create" /\ Settled[c].status = "none" /\ Strip[Doc(c)] = Blank
    BY <1>1, Waiting DEF CreateReject, IInv, Staged
  <2> QED
    BY <2>1, <2>2, AnswerSeen DEF Abs!Refuse, Abs!Pending, Abs!Answered, Abort, Doc
<1>2. CASE CreateCheck(c) /\ Strip[Doc(c)] \in docs
  <2>1. OnlyAnswers(c, Abort("ALREADY_EXISTS"))
    BY <1>2 DEF CreateCheck, OnlyAnswers
  <2>2. req[c].kind = "create" /\ Settled[c].status = "none" /\ Strip[Doc(c)] # Blank
    BY <1>2, Waiting DEF CreateCheck, IInv, Staged
  <2>3. Abs!Exists(Strip[Doc(c)])
    BY <1>a, <1>2, ServiceState
  <2> QED
    BY <2>1, <2>2, <2>3, AnswerSeen DEF Abs!Refuse, Abs!Pending, Abs!Answered, Abort, Doc
<1>3. CASE Lookup(c) /\ Doc(c) \notin docs
  <2>1. OnlyAnswers(c, Abort("NOT_FOUND"))
    BY <1>3 DEF Lookup, OnlyAnswers
  <2>2. req[c].kind # "create" /\ Settled[c].status = "none"
    BY <1>3, Waiting DEF Lookup, IInv, Staged
  <2>3. ~Abs!Exists(Doc(c))
    BY <1>a, <1>3, ServiceState
  <2> QED
    BY <2>1, <2>2, <2>3, AnswerSeen DEF Abs!Refuse, Abs!Pending, Abs!Answered, Abort, Doc
<1>4. CASE EditReject(c)
  <2>1. OnlyAnswers(c, Abort("OUT_OF_RANGE"))
    BY <1>4 DEF EditReject, OnlyAnswers
  <2>2. req[c].kind = "edit" /\ Doc(c) \in docs /\ Settled[c].status = "none"
    BY <1>4, Waiting DEF EditReject, IInv, Staged, EditPcs
  <2>3. Abs!Exists(Doc(c))
    BY <1>a, <2>2, ServiceState
  <2>4. content[Doc(c)] = Latest(Doc(c)).content
    BY <1>4, <2>2, Readable DEF EditReject, IInv
  <2>5. req[c].position > Len(Abs!Text(Doc(c)))
    BY <1>a, <1>4, <2>4, ServiceState DEF EditReject
  <2> QED
    BY <2>1, <2>2, <2>3, <2>5, AnswerSeen DEF Abs!Refuse, Abs!Pending, Abs!Answered, Abort, Doc
<1> QED
  BY <1>1, <1>2, <1>3, <1>4

\* An open reads the latest version.
LEMMA GetSeen ==
  ASSUME IInv, TypeOK', NEW c \in Call, GetRead(c)
  PROVE  Abs!Get(c)
<1>1. Doc(c) \in Name
  BY DEF IInv, TypeOK, Doc, Request
<1>2. OnlyAnswers(c, Ok(content[Doc(c)], version[Doc(c)]))
  BY DEF GetRead, OnlyAnswers, Answer, Goto, docVars, lockVars, editVars
<1>3. req[c].kind = "get" /\ Doc(c) \in docs /\ Settled[c].status = "none"
  BY Waiting DEF GetRead, IInv, Staged
<1>4. /\ content[Doc(c)] = Latest(Doc(c)).content
      /\ version[Doc(c)] = Len(hist[Doc(c)]) - 1
  BY <1>3, Readable DEF GetRead, IInv
<1>5. /\ Abs!Exists(Doc(c)) /\ content[Doc(c)] = Abs!Text(Doc(c))
      /\ version[Doc(c)] = Abs!Now(Doc(c))
  BY <1>1, <1>3, <1>4, ServiceState
<1> QED
  BY <1>2, <1>3, <1>5, AnswerSeen DEF Abs!Get, Abs!Pending, Abs!Answered, Ok, Doc

\* The insertion into the registry creates the document.
LEMMA CreateSeen ==
  ASSUME IInv, Entering, TypeOK', NEW c \in Call, CreateInsert(c)
  PROVE  Abs!Create(c)
<1> DEFINE n == Strip[Doc(c)]
<1>a. /\ TypeOK /\ pc \in [Call -> Pcs] /\ reply \in [Call -> Reply]
      /\ subscribers \in [Name -> SUBSET Call]
  BY DEF IInv, TypeOK
<1>b. /\ pc[c] = "create_insert" /\ pc' = [pc EXCEPT ![c] = "done"]
      /\ reply' = [reply EXCEPT ![c] = Ok(<<>>, 0)]
      /\ hist' = [hist EXCEPT ![n] = <<[content |-> req[c].text, by |-> c]>>]
      /\ subscribers' = [subscribers EXCEPT ![n] = {}]
      /\ UNCHANGED <<req, todo, draft>> /\ UNCHANGED streamVars
  BY DEF CreateInsert, Answer, Goto, editVars
<1>1. n \in Name \ docs /\ req[c].kind = "create" /\ n # Blank
  BY <1>b, InsertHistory DEF IInv, Entering
<1>2. \A s \in Call : s \notin subscribers[n]
  <2> SUFFICES ASSUME NEW s \in Call, s \in subscribers[n] PROVE FALSE
    OBVIOUS
  <2>1. n = Doc(s) /\ pc[s] \in SubPcs
    BY <1>1 DEF IInv, Listed, ListedPcs
  <2> QED
    BY <1>1, <2>1 DEF IInv, Staged
<1>3. subscribers' = subscribers
  BY <1>a, <1>b, <1>1, <1>2
<1>4. Audience' = Audience
  BY <1>a, <1>b, <1>3, AudienceSame
<1>5. \A s \in Call : Streamed(s)' = Streamed(s)
  BY <1>b DEF Streamed, streamVars
<1>6. Announced' = Announced
  BY <1>5, <1>b, AnnouncedSame
<1>7. Settled' = [Settled EXCEPT ![c] = Ok(<<>>, 0)]
  <2>1. Settled'[c] = Ok(<<>>, 0)
    BY <1>a, <1>b DEF Settled
  <2>2. \A e \in Call \ {c} : Settled'[e] = Settled[e]
    BY <1>a, <1>b DEF Settled
  <2> QED
    BY <2>1, <2>2 DEF Settled
<1>8. Settled[c].status = "none" /\ ~Abs!Exists(n)
  BY <1>b, <1>1, Waiting, ServiceState
<1> QED
  BY <1>b, <1>1, <1>4, <1>6, <1>7, <1>8 DEF Abs!Create, Abs!Pending, Abs!Answered, Ok, Doc

\* Leaving the list, by the finally or by the callback, parts the
\* subscription from its audience; the second of the two is not seen.
LEMMA PartSeen ==
  ASSUME IInv, TypeOK', NEW c \in Call, SubExit(c) \/ Callback(c)
  PROVE  Abs!Part(c) \/ UNCHANGED Abs!avars
<1> DEFINE d == Doc(c)
<1>a. /\ TypeOK /\ pc \in [Call -> Pcs] /\ reply \in [Call -> Reply] /\ d \in Name
      /\ subscribers \in [Name -> SUBSET Call] /\ subscribers' \in [Name -> SUBSET Call]
  BY DEF IInv, TypeOK, Doc, Request
<1>b. /\ subscribers' = [subscribers EXCEPT ![d] = @ \ {c}]
      /\ \A e \in Call : (pc'[e] = "edit_put" <=> pc[e] = "edit_put")
                         /\ (pc'[e] = "sub_snap" <=> pc[e] = "sub_snap")
      /\ UNCHANGED <<req, hist, todo, draft, reply>> /\ UNCHANGED streamVars
  <2> USE DEF docVars, editVars, callVars, Goto
  <2>1. CASE SubExit(c)
    BY <1>a, <2>1 DEF SubExit
  <2>2. CASE Callback(c)
    BY <2>2 DEF Callback
  <2> QED
    BY <2>1, <2>2
<1>1. \A s \in Call : Streamed(s)' = Streamed(s)
  BY <1>b DEF Streamed, streamVars
<1>2. Announced' = Announced
  BY <1>1, <1>b, AnnouncedSame
<1>3. Settled' = Settled
  BY <1>b, SettledSame
<1>4. Audience' = [Audience EXCEPT ![d] = @ \ {c}]
  <2>1. Audience'[d] = Audience[d] \ {c}
    BY <1>a, <1>b DEF Audience
  <2>2. \A e \in Name \ {d} : Audience'[e] = Audience[e]
    BY <1>a, <1>b DEF Audience
  <2> QED
    BY <1>a, <2>1, <2>2 DEF Audience
<1>5. CASE c \in Audience[d]
  <2>1. req' = req /\ hist' = hist /\ d = req[c].name
    BY <1>b DEF Doc
  <2> HIDE DEF d
  <2> QED
    BY <1>2, <1>3, <1>4, <1>5, <2>1 DEF Abs!Part
<1>6. CASE c \notin Audience[d]
  <2>1. Audience[d] \ {c} = Audience[d]
    BY <1>6
  <2>2. Audience' = [Audience EXCEPT ![d] = Audience[d]]
    BY <1>4, <2>1
  <2>3. \A e \in Name : Audience'[e] = Audience[e]
    <3> HIDE DEF d
    <3> QED
      BY <1>a, <2>2 DEF Audience
  <2>4. Audience' = Audience
    BY <2>3 DEF Audience
  <2> QED
    BY <1>b, <1>2, <1>3, <2>4, StutterIs
<1> QED
  BY <1>5, <1>6

\* No broadcast has a subscription of d to reach while another call holds the
\* lock of d.
LEMMA NobodyReaches ==
  ASSUME IInv, NEW c \in Call, pc[c] # "edit_put", lock[Doc(c)] = c,
         NEW s \in Call, Doc(s) = Doc(c)
  PROVE  \A e \in Call : s \notin todo[e]
<1> SUFFICES ASSUME NEW e \in Call, s \in todo[e] PROVE FALSE
  OBVIOUS
<1>1. pc[e] = "edit_put" /\ Doc(s) = Doc(e) /\ lock[Doc(e)] = e
  BY UnreachedFacts DEF IInv
<1> QED
  BY <1>1

\* The snapshot joins the subscription to the audience.
LEMMA JoinSeen ==
  ASSUME IInv, Entering, TypeOK', NEW c \in Call, SubSnapshot(c)
  PROVE  Abs!Join(c)
<1> DEFINE d == Doc(c)
           u == [content |-> content[d], version |-> version[d], snapshot |-> TRUE]
<1>a. /\ TypeOK /\ pc \in [Call -> Pcs] /\ d \in Name /\ queue \in [Call -> Seq(Update)]
      /\ subscribers \in [Name -> SUBSET Call]
  BY DEF IInv, TypeOK, Doc, Request
<1>b. /\ pc[c] = "sub_snap" /\ pc' = [pc EXCEPT ![c] = "sub_register"]
      /\ queue' = [queue EXCEPT ![c] = Append(@, u)]
      /\ UNCHANGED <<req, hist, todo, draft, reply, subscribers, received, sending>>
  BY DEF SubSnapshot, Goto, docVars, editVars, callVars
<1>c. /\ d \in docs /\ lock[d] = c /\ req[c].kind = "subscribe"
      /\ received[c] = <<>> /\ sending[c] = <<>> /\ queue[c] = <<>>
      /\ c \in subscribers[d]
  BY <1>b DEF IInv, Staged, SubPcs, LockOrder, Critical, Listed, Entering
<1>1. content[d] = Abs!Text(d) /\ version[d] = Abs!Now(d) /\ Abs!Exists(d)
  BY <1>a, <1>b, <1>c, Readable, ServiceState DEF IInv
<1>2. UnderWay(todo, draft, c) = <<>> /\ UnderWay(todo', draft', c) = <<>>
  BY <1>b, <1>c, NobodyReaches, NoneUnderWay
<1>3. Announced[c] = <<>>
  <2>1. Streamed(c) = <<>>
    BY <1>c DEF Streamed
  <2> QED
    BY <1>2, <2>1, AnnouncedIs
<1>4. Announced'[c] = <<u>>
  <2>1. queue'[c] = <<u>>
    <3> HIDE DEF u
    <3> QED
      BY <1>a, <1>b, <1>c
  <2>2. Streamed(c)' = <<u>>
    BY <1>b, <1>c, <2>1 DEF Streamed
  <2>3. <<u>> \o <<>> = <<u>>
    <3>1. content[d] \in Seq(Char) /\ version[d] \in Nat
      BY <1>a DEF TypeOK
    <3>2. u \in Update
      BY <3>1 DEF Update
    <3> HIDE DEF u
    <3>3. <<u>> \in Seq(Update)
      BY <3>2
    <3> QED
      BY <3>3, ConcatEmptySeq
  <2> HIDE DEF u
  <2> QED
    BY <1>2, <2>2, <2>3, AnnouncedNext
<1>5. ASSUME NEW s \in Call, s # c PROVE Announced'[s] = Announced[s]
  <2>1. Streamed(s)' = Streamed(s)
    BY <1>a, <1>b, <1>5 DEF Streamed
  <2>2. UnderWay(todo', draft', s) = UnderWay(todo, draft, s)
    BY <1>b
  <2> QED
    BY <2>1, <2>2, AnnouncedIs, AnnouncedNext
<1>6. Announced' = [Announced EXCEPT ![c] = <<u>>]
  BY <1>4, <1>5 DEF Announced
<1>7. Audience' = [Audience EXCEPT ![d] = @ \union {c}]
  <2>1. Audience'[d] = Audience[d] \union {c}
    BY <1>a, <1>b, <1>c DEF Audience
  <2>2. ASSUME NEW e \in Name, e # d PROVE Audience'[e] = Audience[e]
    <3>1. c \notin subscribers[e]
      BY <2>2 DEF IInv, Listed
    <3> QED
      BY <1>a, <1>b, <3>1 DEF Audience
  <2> QED
    BY <1>a, <2>1, <2>2 DEF Audience
<1>8. Settled' = Settled
  BY <1>a, <1>b, SettledSame
<1>9. Settled[c].status = "none"
  BY <1>b, Waiting
<1>10. d = req[c].name
  BY DEF Doc
<1>11. Announced' = [Announced EXCEPT ![c] =
          <<[content |-> Abs!Text(d), version |-> Abs!Now(d), snapshot |-> TRUE]>>]
  BY <1>1, <1>6
<1> HIDE DEF d, u
<1> QED
  BY <1>b, <1>c, <1>1, <1>3, <1>7, <1>8, <1>9, <1>10, <1>11 DEF Abs!Join, Abs!Pending

\* The bump of an edit is the edit: the next version, announced to the whole
\* audience of the document and to nobody else, and the answer settled.
LEMMA EditSeen ==
  ASSUME IInv, TypeOK', NEW c \in Call, EditBump(c)
  PROVE  Abs!Edit(c)
<1> DEFINE d == Doc(c)
           x == content[d]
           v == version[d] + 1
           u == [content |-> x, version |-> v, snapshot |-> FALSE]
<1>a. /\ TypeOK /\ pc \in [Call -> Pcs] /\ reply \in [Call -> Reply] /\ d \in Name
      /\ subscribers \in [Name -> SUBSET Call] /\ todo \in [Call -> SUBSET Call]
      /\ draft \in [Call -> Draft]
  BY DEF IInv, TypeOK, Doc, Request
<1>b. /\ pc[c] = "edit_bump" /\ pc' = [pc EXCEPT ![c] = "edit_put"]
      /\ hist' = [hist EXCEPT ![d] = Append(@, [content |-> x, by |-> c])]
      /\ draft' = [draft EXCEPT ![c] = [content |-> x, version |-> v]]
      /\ todo' = [todo EXCEPT ![c] = subscribers[d]]
      /\ UNCHANGED <<req, reply, subscribers>> /\ UNCHANGED streamVars
  BY DEF EditBump, Goto, lockVars, callVars
<1>c. /\ d \in docs /\ lock[d] = c /\ req[c].kind = "edit" /\ todo[c] = {}
      /\ Settled[c].status = "none"
  BY <1>b, IdleBroadcast, Waiting DEF IInv, Staged, EditPcs, LockOrder, Critical
<1>1. /\ req[c].position <= Len(Abs!Text(d))
      /\ x = Insert(Abs!Text(d), req[c].position, req[c].text)
      /\ v = Abs!Now(d) + 1 /\ Abs!Exists(d)
  <2>1. /\ req[c].position <= Len(Latest(d).content) /\ x = draft[c].content
        /\ draft[c].content = Insert(Latest(d).content, req[c].position, req[c].text)
    BY <1>b DEF IInv, Drafted
  <2>2. Len(hist[d]) = version[d] + 1 /\ version[d] \in Nat
    BY <1>a, <1>c DEF IInv, Current, TypeOK
  <2> QED
    BY <1>a, <1>c, <2>1, <2>2, ServiceState
<1>2. Abs!Insert(Abs!Text(d), req[c].position, req[c].text)
        = Insert(Abs!Text(d), req[c].position, req[c].text)
  BY DEF Abs!Insert, Insert
<1>3. \A s \in Call : Streamed(s)' = Streamed(s) /\ Streamed(s) \in Seq(Update)
  BY <1>a, <1>b, StreamType DEF Streamed, streamVars
<1>4. Audience[d] = subscribers[d]
  <2>1. \A s \in subscribers[d] : pc[s] # "sub_snap"
    BY <1>a, <1>b, <1>c DEF IInv, Listed, LockOrder, Critical
  <2> QED
    BY <1>a, <2>1 DEF Audience
<1>t. x \in Seq(Char) /\ v \in Nat
  <2>1. content[d] \in Seq(Char) /\ version[d] \in Nat
    BY <1>a DEF TypeOK
  <2> HIDE DEF d
  <2> QED
    BY <2>1
<1>u. u \in Update
  <2> HIDE DEF x, v
  <2> QED
    BY <1>t DEF Update
<1>5. ASSUME NEW s \in Audience[d] PROVE s \in Call /\ Announced'[s] = Append(Announced[s], u)
  <2>1. s \in Call /\ s \in subscribers[d] /\ Doc(s) = d
    BY <1>a, <1>4 DEF IInv, Listed
  <2>2. \A e \in Call : s \notin todo[e]
    BY <1>b, <1>c, <2>1, NobodyReaches
  <2>3. UnderWay(todo, draft, s) = <<>>
    BY <2>2, NoneUnderWay
  <2>4. UnderWay(todo', draft', s) = <<u>>
    <3>1. s \in todo'[c] /\ \A e \in Call : s \in todo'[e] => e = c
      BY <1>a, <1>b, <2>1, <2>2
    <3>2. draft'[c] = [content |-> x, version |-> v]
      BY <1>a, <1>b
    <3>3. UnderWay(todo', draft', s) =
            <<[content |-> draft'[c].content, version |-> draft'[c].version,
               snapshot |-> FALSE]>>
      BY <3>1, OneUnderWay
    <3> QED
      BY <3>2, <3>3
  <2>5. Announced'[s] = Streamed(s) \o <<u>>
    BY <1>3, <2>1, <2>4, AnnouncedNext
  <2>6. Announced[s] = Streamed(s)
    BY <1>3, <2>1, <2>3, AnnouncedIs, ConcatEmptySeq
  <2>7. Streamed(s) \in Seq(Update)
    BY <1>3, <2>1
  <2> HIDE DEF u
  <2> QED
    BY <1>u, <2>1, <2>5, <2>6, <2>7, AppendIsConcat
<1>6. ASSUME NEW s \in Call, s \notin Audience[d] PROVE Announced'[s] = Announced[s]
  <2>1. \A e \in Call : (s \in todo'[e]) <=> (s \in todo[e])
    BY <1>a, <1>b, <1>c, <1>4, <1>6
  <2>2. \A e \in Call : s \in todo[e] => draft'[e] = draft[e]
    BY <1>a, <1>b, <1>c
  <2>3. UnderWay(todo', draft', s) = UnderWay(todo, draft, s)
    BY <2>1, <2>2, SameUnderWay
  <2> QED
    BY <1>3, <2>3, AnnouncedIs, AnnouncedNext
<1>7. Announced' = [s \in Call |->
        IF s \in Audience[d] THEN Append(Announced[s], u) ELSE Announced[s]]
  <2> HIDE DEF d, u
  <2>1. \A s \in Call : Announced'[s] =
          IF s \in Audience[d] THEN Append(Announced[s], u) ELSE Announced[s]
    BY <1>5, <1>6
  <2> QED
    BY <2>1 DEF Announced
<1>8. Audience' = Audience
  BY <1>a, <1>b, AudienceSame
<1>9. Settled' = [Settled EXCEPT ![c] = Ok(x, v)]
  <2>1. draft'[c] = [content |-> x, version |-> v]
    BY <1>a, <1>b
  <2>2. Settled'[c] = Ok(x, v)
    BY <1>a, <1>b, <2>1 DEF Settled
  <2>3. \A e \in Call \ {c} : Settled'[e] = Settled[e]
    BY <1>a, <1>b DEF Settled
  <2> QED
    BY <2>2, <2>3 DEF Settled
<1>10. d = req[c].name /\ Ok(x, v) = [status |-> "OK", content |-> x, version |-> v]
  BY DEF Doc, Ok
<1>11. /\ hist' = [hist EXCEPT ![d] = Append(@, [content |-> x, by |-> c])]
       /\ req' = req
       /\ u = [content |-> x, version |-> v, snapshot |-> FALSE]
  BY <1>b
<1> HIDE DEF d, x, v, u
<1> QED
  BY <1>c, <1>1, <1>2, <1>7, <1>8, <1>9, <1>10, <1>11
     DEF Abs!Edit, Abs!Pending, Abs!Answered

-----------------------------------------------------------------------------
(***************************************************************************)
(* The theorem.                                                            *)
(***************************************************************************)

\* The initial states of the server are initial states of the service.
LEMMA InitSeen == Init => Abs!Init
<1> SUFFICES ASSUME Init PROVE Abs!Init
  OBVIOUS
<1>1. Audience = [d \in Name |-> {}]
  BY DEF Init, Audience
<1>2. Announced = [c \in Call |-> <<>>]
  <2>1. \A c \in Call : Streamed(c) = <<>>
    BY DEF Init, Streamed
  <2>2. \A c, e \in Call : c \notin todo[e]
    BY DEF Init
  <2>3. \A c \in Call : UnderWay(todo, draft, c) = <<>>
    BY <2>2, NoneUnderWay
  <2>4. \A c \in Call : Announced[c] = <<>>
    BY <2>1, <2>3, AnnouncedIs
  <2> QED
    BY <2>4 DEF Announced
<1>3. Settled = [c \in Call |-> [status |-> "none", content |-> <<>>, version |-> 0]]
  BY DEF Init, Settled, NoReply
<1> QED
  BY <1>1, <1>2, <1>3 DEF Init, Abs!Init

\* Every step of the server is a step of the service, or none.
LEMMA StepSeen == IInv /\ Entering /\ [Next]_vars => [Abs!Next]_(Abs!avars)
<1> SUFFICES ASSUME IInv, Entering, [Next]_vars PROVE Abs!Next \/ UNCHANGED Abs!avars
  OBVIOUS
<1>a. TypeOK'
  BY TypeStep DEF IInv
<1>1. ASSUME NEW c \in Call,
             \/ Arrive(c) \/ Cancel(c) \/ Start(c) \/ EditBegin(c) \/ EditWrite(c)
             \/ SubAppend(c) \/ SubRegister(c) \/ SubLeave(c)
      PROVE  UNCHANGED Abs!avars
  BY <1>a, <1>1, QuietHandler
<1>2. ASSUME NEW c \in Call, SubGet(c) \/ Deliver(c)
      PROVE  UNCHANGED Abs!avars
  BY <1>a, <1>2, QuietStream
<1>3. ASSUME NEW c \in Call, EditPut(c) \/ EditReturn(c)
      PROVE  UNCHANGED Abs!avars
  BY <1>a, <1>3, QuietPut, QuietReturn
<1>4. ASSUME NEW c \in Call, CreateCheck(c)
      PROVE  Abs!Refuse(c) \/ UNCHANGED Abs!avars
  <2>1. CASE Strip[Doc(c)] \in docs
    BY <1>a, <1>4, <2>1, RefuseSeen
  <2>2. CASE Strip[Doc(c)] \notin docs
    <3>1. reply' = reply
      BY <1>4, <2>2 DEF CreateCheck
    <3> QED
      BY <1>a, <1>4, <3>1, QuietHandler
  <2> QED
    BY <2>1, <2>2
<1>5. ASSUME NEW c \in Call, Lookup(c)
      PROVE  Abs!Refuse(c) \/ UNCHANGED Abs!avars
  <2>1. CASE Doc(c) \notin docs
    BY <1>a, <1>5, <2>1, RefuseSeen
  <2>2. CASE Doc(c) \in docs
    <3>1. reply' = reply
      BY <1>5, <2>2 DEF Lookup
    <3> QED
      BY <1>a, <1>5, <3>1, QuietHandler
  <2> QED
    BY <2>1, <2>2
<1>6. ASSUME NEW c \in Call, CreateReject(c) \/ EditReject(c)
      PROVE  Abs!Refuse(c)
  BY <1>a, <1>6, RefuseSeen
<1>7. ASSUME NEW c \in Call, GetRead(c) PROVE Abs!Get(c)
  BY <1>a, <1>7, GetSeen
<1>8. ASSUME NEW c \in Call, CreateInsert(c) PROVE Abs!Create(c)
  BY <1>a, <1>8, CreateSeen
<1>9. ASSUME NEW c \in Call, EditBump(c) PROVE Abs!Edit(c)
  BY <1>a, <1>9, EditSeen
<1>10. ASSUME NEW c \in Call, SubSnapshot(c) PROVE Abs!Join(c)
  BY <1>a, <1>10, JoinSeen
<1>11. ASSUME NEW c \in Call, SubExit(c) \/ Callback(c)
       PROVE  Abs!Part(c) \/ UNCHANGED Abs!avars
  BY <1>a, <1>11, PartSeen
<1>12. CASE UNCHANGED vars
  <2>1. \A s \in Call : Streamed(s)' = Streamed(s)
    BY <1>12 DEF vars, streamVars, Streamed
  <2>2. /\ UNCHANGED <<req, hist, todo, draft, reply, subscribers, pc>>
    BY <1>12 DEF vars, docVars, lockVars, editVars, callVars
  <2>3. Announced' = Announced
    BY <2>1, <2>2, AnnouncedSame
  <2>4. Audience' = Audience /\ Settled' = Settled
    BY <2>2 DEF Audience, Settled
  <2> QED
    BY <2>2, <2>3, <2>4, StutterIs
<1>13. \A c \in Call :
         Abs!Create(c) \/ Abs!Get(c) \/ Abs!Edit(c) \/ Abs!Join(c) \/ Abs!Part(c) \/ Abs!Refuse(c)
           => Abs!Next
  BY DEF Abs!Next
<1> QED
  BY <1>1, <1>2, <1>3, <1>4, <1>5, <1>6, <1>7, <1>8, <1>9, <1>10, <1>11, <1>12, <1>13
     DEF Next, Handle, SubTimeout, Finished

\* The server implements the atomic service: every RPC takes effect in one
\* indivisible step, an edit reaches its whole audience in that step, and a
\* subscription starts with the snapshot taken when it joins.
THEOREM ServerImplementsService == Spec => ImplementsAbstract
<1>1. Spec => [](IInv /\ Entering)
  BY AlwaysEntering
<1>2. Init => Abs!Init
  BY InitSeen
<1>3. IInv /\ Entering /\ [Next]_vars => [Abs!Next]_(Abs!avars)
  BY StepSeen
<1> QED
  BY <1>1, <1>2, <1>3, PTL DEF Spec, ImplementsAbstract, Abs!Spec

-----------------------------------------------------------------------------
(***************************************************************************)
(* The demo passes its own checks, for any number of editors, any texts    *)
(* and any clients of other documents beside them.  It and they run        *)
(* against the server as it is.                                            *)
(***************************************************************************)
LEMMA DemoCallsAre ==
  /\ Creator \in Call /\ Observer \in Call /\ Getter \in Call
  /\ Editor \subseteq Call /\ Foreign \subseteq Call
  /\ Document \in Name /\ Position \in Nat
BY DemoAssumption DEF DemoCalls

LEMMA ServerStep == [DemoNext]_allVars => [Next]_vars
<1> SUFFICES ASSUME [DemoNext]_allVars PROVE [Next]_vars
  OBVIOUS
<1>1. CASE UNCHANGED allVars
  BY <1>1 DEF allVars
<1>2. CASE Demo
  BY <1>2, DemoCallsAre
     DEF Demo, DemoCreate, DemoObserve, DemoStart, Gate, DemoGet, DemoCheck, Next
<1>3. CASE \E e \in Editor : DemoEdit(e)
  BY <1>3, DemoCallsAre DEF DemoEdit, Next
<1>4. CASE DemoCancel
  BY <1>4, DemoCallsAre DEF DemoCancel, Next
<1>5. CASE \E c \in Foreign : Arrive(c) \/ Cancel(c)
  BY <1>5, DemoCallsAre DEF Next
<1>6. CASE \E c \in Call : Deliver(c) \/ Callback(c) \/ Handle(c)
  BY <1>6 DEF Next
<1> QED
  BY <1>1, <1>2, <1>3, <1>4, <1>5, <1>6 DEF DemoNext

\* Only its arrival ends a call's waiting to be made.
LEMMA Waits ==
  ASSUME TypeOK, NEW c \in Call, Cancel(c) \/ Deliver(c) \/ Callback(c) \/ Handle(c)
  PROVE  \A e \in Call : pc'[e] = "idle" <=> pc[e] = "idle"
<1> SUFFICES ASSUME NEW e \in Call PROVE pc'[e] = "idle" <=> pc[e] = "idle"
  OBVIOUS
<1>a. pc \in [Call -> Pcs]
  BY DEF TypeOK
<1>1. CASE Cancel(c) \/ Deliver(c) \/ Callback(c) \/ Start(c)
  BY <1>a, <1>1 DEF Cancel, Deliver, Callback, Start, Goto
<1>2. CASE CreateReject(c) \/ CreateCheck(c) \/ CreateInsert(c) \/ Lookup(c) \/ GetRead(c)
  BY <1>a, <1>2 DEF CreateReject, CreateCheck, CreateInsert, Lookup, GetRead, Answer, Goto,
                    AfterLookup
<1>3. CASE \/ EditReject(c) \/ EditBegin(c) \/ EditWrite(c) \/ EditBump(c)
           \/ EditPut(c) \/ EditReturn(c)
  BY <1>a, <1>3 DEF EditReject, EditBegin, EditWrite, EditBump, EditPut, EditReturn, Answer, Goto
<1>4. CASE \/ SubAppend(c) \/ SubSnapshot(c) \/ SubRegister(c) \/ SubGet(c)
           \/ SubLeave(c) \/ SubExit(c)
  BY <1>a, <1>4 DEF SubAppend, SubSnapshot, SubRegister, SubGet, SubLeave, SubExit, Goto
<1>5. CASE SubTimeout(c)
  BY <1>5 DEF SubTimeout, vars
<1> QED
  BY <1>1, <1>2, <1>3, <1>4, <1>5 DEF Handle

LEMMA ArrivalIs ==
  ASSUME TypeOK, NEW c \in Call, Arrive(c)
  PROVE  /\ pc[c] = "idle" /\ pc'[c] = "queued"
         /\ \A e \in Call : e # c => pc'[e] = pc[e]
         /\ received' = received /\ joined' = joined /\ reply' = reply
  BY DEF Arrive, Goto, TypeOK, streamVars

\* What a client has received it keeps.
LEMMA ReceivedGrows ==
  ASSUME TypeOK, [Next]_vars, NEW s \in Call, received[s] # <<>>
  PROVE  received'[s] # <<>>
<1>a. received \in [Call -> Seq(Update)] /\ sending \in [Call -> Seq(Update)]
  BY DEF TypeOK
<1> USE DEF streamVars
<1>1. ASSUME NEW c \in Call, Deliver(c)
      PROVE  received'[s] # <<>>
  <2>1. CASE c = s
    <3>1. received'[s] = received[s] \o sending[s]
      BY <1>a, <1>1, <2>1 DEF Deliver
    <3>2. Len(received[s]) > 0 /\ Len(sending[s]) >= 0
      BY <1>a
    <3>3. Len(received'[s]) > 0
      BY <1>a, <3>1, <3>2, ConcatProperties
    <3> QED
      BY <3>3
  <2>2. CASE c # s
    BY <1>a, <1>1, <2>2 DEF Deliver
  <2> QED
    BY <2>1, <2>2
<1>2. ASSUME NEW c \in Call, Arrive(c) \/ Cancel(c) \/ Callback(c) \/ Start(c)
      PROVE  received' = received
  BY <1>2 DEF Arrive, Cancel, Callback, Start
<1>3. ASSUME NEW c \in Call,
             CreateReject(c) \/ CreateCheck(c) \/ CreateInsert(c) \/ Lookup(c) \/ GetRead(c)
      PROVE  received' = received
  BY <1>3 DEF CreateReject, CreateCheck, CreateInsert, Lookup, GetRead
<1>4. ASSUME NEW c \in Call,
             \/ EditReject(c) \/ EditBegin(c) \/ EditWrite(c) \/ EditBump(c)
             \/ EditPut(c) \/ EditReturn(c)
      PROVE  received' = received
  BY <1>4 DEF EditReject, EditBegin, EditWrite, EditBump, EditPut, EditReturn
<1>5. ASSUME NEW c \in Call,
             \/ SubAppend(c) \/ SubSnapshot(c) \/ SubRegister(c) \/ SubGet(c)
             \/ SubLeave(c) \/ SubExit(c)
      PROVE  received' = received
  BY <1>5 DEF SubAppend, SubSnapshot, SubRegister, SubGet, SubLeave, SubExit
<1>6. CASE UNCHANGED vars
  BY <1>6 DEF vars
<1> QED
  BY <1>1, <1>2, <1>3, <1>4, <1>5, <1>6 DEF Next, Handle, SubTimeout, Finished

\* A subscription's version is noted with its snapshot.
LEMMA JoinsOnce ==
  ASSUME TypeOK, [Next]_vars, NEW s \in Call
  PROVE  joined'[s] = joined[s] \/ SubSnapshot(s)
<1>a. joined \in [Call -> Nat]
  BY DEF TypeOK
<1> USE DEF streamVars
<1>1. ASSUME NEW c \in Call, SubSnapshot(c), c # s
      PROVE  joined'[s] = joined[s]
  BY <1>a, <1>1 DEF SubSnapshot
<1>2. ASSUME NEW c \in Call, Arrive(c) \/ Cancel(c) \/ Deliver(c) \/ Callback(c) \/ Start(c)
      PROVE  joined' = joined
  BY <1>2 DEF Arrive, Cancel, Deliver, Callback, Start
<1>3. ASSUME NEW c \in Call,
             CreateReject(c) \/ CreateCheck(c) \/ CreateInsert(c) \/ Lookup(c) \/ GetRead(c)
      PROVE  joined' = joined
  BY <1>3 DEF CreateReject, CreateCheck, CreateInsert, Lookup, GetRead
<1>4. ASSUME NEW c \in Call,
             \/ EditReject(c) \/ EditBegin(c) \/ EditWrite(c) \/ EditBump(c)
             \/ EditPut(c) \/ EditReturn(c)
      PROVE  joined' = joined
  BY <1>4 DEF EditReject, EditBegin, EditWrite, EditBump, EditPut, EditReturn
<1>5. ASSUME NEW c \in Call,
             SubAppend(c) \/ SubRegister(c) \/ SubGet(c) \/ SubLeave(c) \/ SubExit(c)
      PROVE  joined' = joined
  BY <1>5 DEF SubAppend, SubRegister, SubGet, SubLeave, SubExit
<1>6. CASE UNCHANGED vars
  BY <1>6 DEF vars
<1> QED
  BY <1>1, <1>2, <1>3, <1>4, <1>5, <1>6 DEF Next, Handle, SubTimeout, Finished

\* A call ends with OK, or for one of these reasons.
LEMMA Ends ==
  ASSUME TypeOK, [Next]_vars, NEW e \in Call, pc[e] # "done", pc'[e] = "done"
  PROVE  \/ reply'[e].status = "OK"
         \/ CreateReject(e) \/ (CreateCheck(e) /\ Strip[Doc(e)] \in docs)
         \/ (Lookup(e) /\ Doc(e) \notin docs) \/ EditReject(e) \/ SubExit(e)
<1> DEFINE Goal == \/ reply'[e].status = "OK"
                   \/ CreateReject(e) \/ (CreateCheck(e) /\ Strip[Doc(e)] \in docs)
                   \/ (Lookup(e) /\ Doc(e) \notin docs) \/ EditReject(e) \/ SubExit(e)
<1> SUFFICES Goal
  OBVIOUS
<1>a. pc \in [Call -> Pcs] /\ reply \in [Call -> Reply]
  BY DEF TypeOK
<1>1. ASSUME NEW c \in Call,
             Arrive(c) \/ Cancel(c) \/ Deliver(c) \/ Callback(c) \/ Start(c)
      PROVE  Goal
  BY <1>a, <1>1 DEF Arrive, Cancel, Deliver, Callback, Start, Goto
<1>2. ASSUME NEW c \in Call, CreateReject(c) \/ CreateCheck(c) \/ Lookup(c) \/ EditReject(c)
      PROVE  Goal
  <2>1. CASE c = e
    BY <1>a, <1>2, <2>1 DEF CreateCheck, Lookup, Goto, AfterLookup
  <2>2. CASE c # e
    BY <1>a, <1>2, <2>2 DEF CreateReject, CreateCheck, Lookup, EditReject, Answer, Goto
  <2> QED
    BY <2>1, <2>2
<1>3. ASSUME NEW c \in Call, CreateInsert(c) \/ GetRead(c) \/ EditReturn(c)
      PROVE  Goal
  BY <1>a, <1>3 DEF CreateInsert, GetRead, EditReturn, Answer, Goto, Ok
<1>4. ASSUME NEW c \in Call, EditBegin(c) \/ EditWrite(c) \/ EditBump(c) \/ EditPut(c)
      PROVE  Goal
  BY <1>a, <1>4 DEF EditBegin, EditWrite, EditBump, EditPut, Goto
<1>5. ASSUME NEW c \in Call,
             SubAppend(c) \/ SubSnapshot(c) \/ SubRegister(c) \/ SubGet(c) \/ SubLeave(c)
      PROVE  Goal
  BY <1>a, <1>5 DEF SubAppend, SubSnapshot, SubRegister, SubGet, SubLeave, Goto
<1>6. ASSUME NEW c \in Call, SubExit(c) PROVE Goal
  BY <1>a, <1>6 DEF SubExit, Goto
<1>7. CASE UNCHANGED vars
  BY <1>7 DEF vars
<1> QED
  BY <1>1, <1>2, <1>3, <1>4, <1>5, <1>6, <1>7 DEF Next, Handle, SubTimeout, Finished

-----------------------------------------------------------------------------
(***************************************************************************)
(* The steps.                                                              *)
(***************************************************************************)

\* The demo's calls are different ones.
LEMMA Different ==
  /\ Creator # Observer /\ Creator # Getter /\ Observer # Getter
  /\ \A e \in Editor : e # Creator /\ e # Observer /\ e # Getter /\ e \in DemoCalls
  /\ Creator \in DemoCalls /\ Observer \in DemoCalls /\ Getter \in DemoCalls
  /\ \A c \in Foreign : c \notin DemoCalls
  /\ \A c \in DemoCalls : c = Creator \/ c = Observer \/ c = Getter \/ c \in Editor
BY DemoAssumption DEF DemoCalls

\* A step of the server, or of another client, on calls that have been made.
LEMMA ScriptServer ==
  ASSUME TypeOK, Script, [Next]_vars, UNCHANGED demoVars,
         \A e \in Call : pc'[e] # "idle" => pc[e] # "idle" \/ e \in Foreign
  PROVE  Script'
<1>1. req' = req /\ demo' = demo /\ editor' = editor
  BY HistoryFrame DEF demoVars
<1>2. \A e \in Call : pc[e] = "done" => pc'[e] = "done"
  BY EndFrame
<1>3. received[Observer] # <<>> => received'[Observer] # <<>>
  BY ReceivedGrows, DemoCallsAre
<1>4. \A e \in DemoCalls : pc[e] = "idle" => pc'[e] = "idle"
  BY Different, DemoCallsAre
<1> QED
  BY <1>1, <1>2, <1>3, <1>4, Different, DemoCallsAre DEF Script

LEMMA ScriptStep ==
  ASSUME TypeOK, Script, [DemoNext]_allVars
  PROVE  Script'
<1>1. [Next]_vars /\ req' = req
  BY ServerStep, HistoryFrame
<1>2. CASE UNCHANGED allVars
  BY <1>2 DEF allVars, demoVars, vars, callVars, streamVars, Script
<1>3. CASE \E c \in Call : (Deliver(c) \/ Callback(c) \/ Handle(c)) /\ UNCHANGED demoVars
  BY <1>1, <1>3, Waits, ScriptServer
<1>4. CASE \E c \in Foreign : (Arrive(c) \/ Cancel(c)) /\ UNCHANGED demoVars
  <2>1. PICK c \in Foreign : (Arrive(c) \/ Cancel(c)) /\ UNCHANGED demoVars
    BY <1>4
  <2>2. c \in Call
    BY DemoCallsAre
  <2>3. \A e \in Call : pc'[e] # "idle" => pc[e] # "idle" \/ e \in Foreign
    BY <2>1, <2>2, Waits, ArrivalIs
  <2> QED
    BY <1>1, <2>1, <2>3, ScriptServer
<1>5. CASE DemoCancel
  <2>1. Cancel(Observer) /\ UNCHANGED demoVars /\ Observer \in Call
    BY <1>5, DemoCallsAre DEF DemoCancel
  <2> QED
    BY <1>1, <2>1, Waits, ScriptServer
<1>6. CASE DemoCreate
  <2>1. Arrive(Creator) /\ demo = "create" /\ demo' = "observe" /\ editor' = editor
    BY <1>6 DEF DemoCreate, MainStep
  <2>2. /\ \A e \in Call : e # Creator => pc'[e] = pc[e]
        /\ received' = received
    BY <2>1, DemoCallsAre, ArrivalIs
  <2> QED
    BY <1>1, <2>1, <2>2, Different, DemoCallsAre DEF Script
<1>7. CASE DemoObserve
  <2>1. /\ Arrive(Observer) /\ demo = "observe" /\ demo' = "wait" /\ editor' = editor
        /\ pc[Creator] = "done"
    BY <1>7 DEF DemoObserve, MainStep
  <2>2. /\ \A e \in Call : e # Observer => pc'[e] = pc[e]
        /\ received' = received
    BY <2>1, DemoCallsAre, ArrivalIs
  <2> QED
    BY <1>1, <2>1, <2>2, Different, DemoCallsAre DEF Script
<1>8. CASE DemoStart
  <2>1. /\ demo = "wait" /\ demo' = "join" /\ editor' = [e \in Editor |-> "gate"]
        /\ pc' = pc /\ received' = received /\ received[Observer] # <<>>
    BY <1>8 DEF DemoStart, Ready, vars, streamVars
  <2>2. \A e \in Editor : pc[e] = "idle"
    BY <2>1 DEF Script
  <2> QED
    BY <1>1, <2>1, <2>2 DEF Script
<1>9. CASE Gate
  <2>1. /\ editor' = [e \in Editor |-> "edit"] /\ demo' = demo
        /\ pc' = pc /\ received' = received /\ \E e \in Editor : editor[e] = "gate"
    BY <1>9, DemoAssumption DEF Gate, vars, streamVars
  <2>2. demo \notin {"create", "observe", "wait"}
    BY <2>1 DEF Script
  <2> QED
    BY <1>1, <2>1, <2>2 DEF Script
<1>10. CASE DemoGet
  <2>1. /\ Arrive(Getter) /\ demo = "join" /\ demo' = "sleep" /\ editor' = editor
        /\ \A e \in Editor : pc[e] = "done"
    BY <1>10 DEF DemoGet, MainStep, Joined
  <2>2. /\ \A e \in Call : e # Getter => pc'[e] = pc[e]
        /\ received' = received
    BY <2>1, DemoCallsAre, ArrivalIs
  <2> QED
    BY <1>1, <2>1, <2>2, Different, DemoCallsAre DEF Script
<1>11. CASE DemoCheck
  <2>1. /\ demo = "sleep" /\ demo' = "exit" /\ editor' = editor /\ pc[Getter] = "done"
        /\ pc' = pc /\ received' = received
    BY <1>11 DEF DemoCheck, MainStep, vars, streamVars
  <2> QED
    BY <1>1, <2>1 DEF Script
<1>12. CASE \E e \in Editor : DemoEdit(e)
  <2>1. PICK x \in Editor : Arrive(x) /\ editor[x] = "edit" /\ demo' = demo /\ editor' = editor
    BY <1>12 DEF DemoEdit, demoVars
  <2>2. /\ pc[x] = "idle" /\ \A e \in Call : e # x => pc'[e] = pc[e]
        /\ received' = received
    BY <2>1, DemoCallsAre, ArrivalIs
  <2>3. demo \notin {"create", "observe", "wait", "sleep", "exit"}
    BY <2>1, <2>2 DEF Script
  <2> QED
    BY <1>1, <2>1, <2>2, <2>3, Different, DemoCallsAre DEF Script
<1> QED
  BY <1>2, <1>3, <1>4, <1>5, <1>6, <1>7, <1>8, <1>9, <1>10, <1>11, <1>12 DEF DemoNext, Demo

-----------------------------------------------------------------------------
(***************************************************************************)
(* Insertions: what edits at one position make of a text.                  *)
(***************************************************************************)

\* A text is longer by what is inserted, which is found where it was put.
LEMMA InsertedIs ==
  ASSUME NEW s \in Seq(Char), NEW t \in Seq(Char), NEW p \in Nat, p <= Len(s)
  PROVE  LET r == Insert(s, p, t) IN
         /\ r \in Seq(Char) /\ Len(r) = Len(s) + Len(t)
         /\ \A i \in 1..Len(r) :
              r[i] = IF i <= p THEN s[i] ELSE IF i <= p + Len(t) THEN t[i - p]
                     ELSE s[i - Len(t)]
<1> DEFINE a == SubSeq(s, 1, p)
           b == SubSeq(s, p + 1, Len(s))
<1>1. /\ a \in Seq(Char) /\ Len(a) = p /\ \A i \in 1..p : a[i] = s[i]
  BY SubSeqProperties
<1>2. /\ b \in Seq(Char) /\ Len(b) = Len(s) - p /\ \A i \in 1..Len(b) : b[i] = s[p + i]
  BY SubSeqProperties
<1> HIDE DEF a, b
<1>3. /\ a \o t \in Seq(Char) /\ Len(a \o t) = p + Len(t)
      /\ \A i \in 1..(p + Len(t)) : (a \o t)[i] = IF i <= p THEN a[i] ELSE t[i - p]
  BY <1>1, ConcatProperties
<1>4. /\ (a \o t) \o b \in Seq(Char) /\ Len((a \o t) \o b) = Len(s) + Len(t)
      /\ \A i \in 1..(Len(s) + Len(t)) :
           ((a \o t) \o b)[i] = IF i <= p + Len(t) THEN (a \o t)[i] ELSE b[i - (p + Len(t))]
  <2> DEFINE x == a \o t
  <2>1. x \in Seq(Char) /\ Len(x) = p + Len(t)
    BY <1>3
  <2> HIDE DEF x
  <2>a. x \in Seq(Char) /\ b \in Seq(Char)
    BY <1>2, <2>1
  <2>2. /\ x \o b \in Seq(Char) /\ Len(x \o b) = Len(x) + Len(b)
        /\ \A i \in 1..(Len(x) + Len(b)) :
             (x \o b)[i] = IF i <= Len(x) THEN x[i] ELSE b[i - Len(x)]
    BY <2>a, ConcatProperties, ZenonT(20)
  <2>3. Len(x) + Len(b) = Len(s) + Len(t)
    <3>1. Len(s) \in Nat /\ Len(t) \in Nat
      OBVIOUS
    <3> QED
      BY <1>2, <2>1, <3>1
  <2>4. /\ x \o b \in Seq(Char) /\ Len(x \o b) = Len(s) + Len(t)
        /\ \A i \in 1..(Len(s) + Len(t)) :
             (x \o b)[i] = IF i <= p + Len(t) THEN x[i] ELSE b[i - (p + Len(t))]
    BY <2>1, <2>2, <2>3
  <2> QED
    BY <2>4 DEF x
<1>5. Insert(s, p, t) = (a \o t) \o b
  BY DEF Insert, a, b
<1>6. \A i \in 1..(Len(s) + Len(t)) :
        ((a \o t) \o b)[i] = IF i <= p THEN s[i] ELSE IF i <= p + Len(t) THEN t[i - p]
                             ELSE s[i - Len(t)]
  <2> SUFFICES ASSUME NEW i \in 1..(Len(s) + Len(t))
               PROVE  ((a \o t) \o b)[i] = IF i <= p THEN s[i]
                        ELSE IF i <= p + Len(t) THEN t[i - p] ELSE s[i - Len(t)]
    OBVIOUS
  <2>0. Len(s) \in Nat /\ Len(t) \in Nat
    OBVIOUS
  <2>1. CASE i <= p + Len(t)
    BY <1>1, <1>3, <1>4, <2>0, <2>1
  <2>2. CASE i > p + Len(t)
    <3>1. i - (p + Len(t)) \in 1..Len(b) /\ p + (i - (p + Len(t))) = i - Len(t) /\ i > p
      BY <1>2, <2>0, <2>2
    <3>2. ~(i <= p) /\ ~(i <= p + Len(t))
      BY <2>0, <2>2, <3>1
    <3>3. ((a \o t) \o b)[i] = b[i - (p + Len(t))]
      BY <1>4, <3>2
    <3>4. b[i - (p + Len(t))] = s[i - Len(t)]
      BY <1>2, <3>1
    <3> QED
      BY <3>2, <3>3, <3>4
  <2>3. i <= p + Len(t) \/ i > p + Len(t)
    BY <2>0
  <2> QED
    BY <2>1, <2>2, <2>3, ZenonT(20)
<1> QED
  BY <1>4, <1>5, <1>6

\* u stands in s, its first character being the one after i.
At(u, s, i) == SubSeq(s, i + 1, i + Len(u)) = u

\* Where a text stands, character by character.
LEMMA AtIs ==
  ASSUME NEW s \in Seq(Char), NEW u \in Seq(Char), NEW i \in Nat, i + Len(u) <= Len(s)
  PROVE  At(u, s, i) <=> \A k \in 1..Len(u) : s[i + k] = u[k]
<1>0. Len(u) \in Nat /\ Len(s) \in Nat
  OBVIOUS
<1> DEFINE a == SubSeq(s, i + 1, i + Len(u))
<1>1. /\ a \in Seq(Char) /\ Len(a) = Len(u)
      /\ \A k \in 1..Len(u) : a[k] = s[i + k]
  <2>1. CASE Len(u) = 0
    BY <1>0, <2>1, SubSeqProperties
  <2>2. CASE Len(u) > 0
    <3>1. i + 1 \in 1..Len(s) /\ i + Len(u) \in i + 1..Len(s)
      BY <1>0, <2>2
    <3>2. /\ a \in Seq(Char) /\ Len(a) = (i + Len(u)) - (i + 1) + 1
          /\ \A k \in 1..((i + Len(u)) - (i + 1) + 1) : a[k] = s[(i + 1) + k - 1]
      BY <1>0, <3>1, SubSeqProperties
    <3>3. (i + Len(u)) - (i + 1) + 1 = Len(u) /\ \A k \in 1..Len(u) : (i + 1) + k - 1 = i + k
      BY <1>0
    <3> QED
      BY <3>2, <3>3
  <2> QED
    BY <1>0, <2>1, <2>2
<1> HIDE DEF a
<1>2. (\A k \in 1..Len(u) : a[k] = u[k]) => a = u
  BY <1>1, SeqEqual
<1> QED
  BY <1>1, <1>2 DEF At, a

\* An insertion stands at its position, and moves what stood behind it.
LEMMA InsertKeeps ==
  ASSUME NEW s \in Seq(Char), NEW t \in Seq(Char), NEW p \in Nat, p <= Len(s)
  PROVE  LET r == Insert(s, p, t) IN
         /\ At(t, r, p)
         /\ \A u \in Seq(Char), i \in Nat :
              p <= i /\ i + Len(u) <= Len(s) /\ At(u, s, i) => At(u, r, i + Len(t))
<1> DEFINE r == Insert(s, p, t)
<1>0. Len(t) \in Nat /\ Len(s) \in Nat
  OBVIOUS
<1>1. /\ r \in Seq(Char) /\ Len(r) = Len(s) + Len(t)
      /\ \A i \in 1..Len(r) :
           r[i] = IF i <= p THEN s[i] ELSE IF i <= p + Len(t) THEN t[i - p]
                  ELSE s[i - Len(t)]
  BY InsertedIs
<1> HIDE DEF r
<1>2. At(t, r, p)
  <2>1. \A k \in 1..Len(t) : r[p + k] = t[k]
    <3> SUFFICES ASSUME NEW k \in 1..Len(t) PROVE r[p + k] = t[k]
      OBVIOUS
    <3>1. p + k \in 1..Len(r) /\ ~(p + k <= p) /\ p + k <= p + Len(t) /\ (p + k) - p = k
      BY <1>0, <1>1
    <3> QED
      BY <1>1, <3>1
  <2>2. p + Len(t) <= Len(r)
    BY <1>0, <1>1
  <2> QED
    BY <1>1, <2>1, <2>2, AtIs
<1>3. ASSUME NEW u \in Seq(Char), NEW i \in Nat, p <= i, i + Len(u) <= Len(s), At(u, s, i)
      PROVE  At(u, r, i + Len(t))
  <2>1. Len(u) \in Nat /\ \A k \in 1..Len(u) : s[i + k] = u[k]
    BY <1>3, AtIs
  <2>2. \A k \in 1..Len(u) : r[(i + Len(t)) + k] = u[k]
    <3> SUFFICES ASSUME NEW k \in 1..Len(u) PROVE r[(i + Len(t)) + k] = u[k]
      OBVIOUS
    <3> DEFINE x == (i + Len(t)) + k
    <3>1. x \in 1..Len(r) /\ ~(x <= p) /\ ~(x <= p + Len(t)) /\ x - Len(t) = i + k
      BY <1>0, <1>1, <1>3, <2>1
    <3> QED
      BY <1>1, <2>1, <3>1
  <2>3. i + Len(t) \in Nat /\ (i + Len(t)) + Len(u) <= Len(r)
    BY <1>0, <1>1, <1>3, <2>1
  <2> QED
    BY <1>1, <2>2, <2>3, AtIs
<1> QED
  BY <1>2, <1>3 DEF r

-----------------------------------------------------------------------------
(***************************************************************************)
(* A history of edits at one position.                                     *)
(***************************************************************************)

\* h is a document's history, each version after the first being made by an
\* editor of its own, which inserts its text t[e] at Position.
Edits(h, t) ==
  /\ h \in Seq(History) /\ Len(h) > 0 /\ Position <= Len(h[1].content)
  /\ \A i \in 2..Len(h) :
       /\ h[i].by \in Editor
       /\ h[i].content = Insert(h[i - 1].content, Position, t[h[i].by])
  /\ \A i, j \in 1..Len(h) : h[i].by = h[j].by => i = j

\* The editors of the versions up to k, and what each inserts.
Authors(h, k) == {h[i].by : i \in 2..k}
Lengths(t)    == [e \in Editor |-> Len(t[e])]

\* Version k has the initial content and all inserted so far, each in one piece.
Untorn(h, t, k) ==
  /\ Len(h[k].content) =
       Len(h[1].content) + SumFunctionOnSet(Lengths(t), Authors(h, k))
  /\ \A e \in Authors(h, k) : \E i \in Nat :
       Position <= i /\ i + Len(t[e]) <= Len(h[k].content) /\ At(t[e], h[k].content, i)

\* The authors of a history are the editors whose texts it has.
LEMMA AuthorsAre ==
  ASSUME NEW h, NEW t, Edits(h, t), NEW k \in 1..Len(h)
  PROVE  Authors(h, k) \subseteq Editor /\ IsFiniteSet(Authors(h, k))
<1>1. Authors(h, k) \subseteq Editor
  BY DEF Edits, Authors
<1> QED
  BY <1>1, FS_Subset, DemoAssumption

LEMMA AlwaysUntorn ==
  ASSUME NEW h, NEW t \in [Editor -> Seq(Char)], Edits(h, t)
  PROVE  \A k \in 1..Len(h) : Untorn(h, t, k) /\ Len(h[k].content) >= Len(h[1].content)
<1>a. Position \in Nat /\ IsFiniteSet(Editor) /\ Lengths(t) \in [Editor -> Nat]
  BY DemoAssumption DEF Lengths
<1>b. /\ h \in Seq(History) /\ Len(h) \in Nat /\ Len(h) > 0 /\ Position <= Len(h[1].content)
      /\ \A i \in 1..Len(h) : h[i].content \in Seq(Char) /\ Len(h[i].content) \in Nat
  <2>1. h \in Seq(History) /\ Len(h) > 0 /\ Position <= Len(h[1].content)
    BY DEF Edits
  <2>2. \A i \in 1..Len(h) : h[i] \in History
    BY <2>1
  <2> QED
    BY <2>1, <2>2 DEF History
<1>c. \A k \in 1..Len(h) : /\ Authors(h, k) \in SUBSET Editor /\ IsFiniteSet(Authors(h, k))
                           /\ SumFunctionOnSet(Lengths(t), Authors(h, k)) \in Nat
  BY <1>a, AuthorsAre, SumNat
<1>d. \A D \in SUBSET Editor :
        /\ D = {} => SumFunctionOnSet(Lengths(t), D) = 0
        /\ \A x \in D : SumFunctionOnSet(Lengths(t), D) =
                       Lengths(t)[x] + SumFunctionOnSet(Lengths(t), D \ {x})
  BY <1>a, SumFacts
<1> DEFINE G == {k \in Nat : k \in 1..Len(h) => Untorn(h, t, k)}
<1>1. 0 \in G
  OBVIOUS
<1>2. ASSUME NEW k \in Nat, k \in G PROVE k + 1 \in G
  <2> SUFFICES ASSUME k + 1 \in 1..Len(h) PROVE Untorn(h, t, k + 1)
    OBVIOUS
  <2>1. CASE k = 0
    <3>1. Authors(h, 1) = {}
      BY DEF Authors
    <3>2. SumFunctionOnSet(Lengths(t), {}) = 0
      BY <1>d
    <3>3. Untorn(h, t, 1)
      <4>1. Len(h[1].content) \in Nat
        BY <1>b
      <4>2. Len(h[1].content) = Len(h[1].content) + SumFunctionOnSet(Lengths(t), Authors(h, 1))
        <5> DEFINE n == Len(h[1].content)
                   m == SumFunctionOnSet(Lengths(t), Authors(h, 1))
        <5>1. m = 0 /\ n \in Nat
          BY <3>1, <3>2, <4>1
        <5> HIDE DEF n, m
        <5>2. n = n + m
          BY <5>1
        <5> QED
          BY <5>2 DEF n, m
      <4> QED
        BY <3>1, <4>2, Zenon DEF Untorn
    <3> QED
      BY <2>1, <3>3
  <2>2. CASE k > 0
    <3> DEFINE e == h[k + 1].by
               x == h[k].content
               r == h[k + 1].content
               A == Authors(h, k)
               B == Authors(h, k + 1)
    <3>1. k \in 1..Len(h) /\ k + 1 \in 2..Len(h) /\ (k + 1) - 1 = k
      BY <1>b, <2>2
    <3>2. e \in Editor /\ r = Insert(x, Position, t[e])
      BY <3>1 DEF Edits
    <3>3. Untorn(h, t, k)
      BY <1>2, <3>1
    <3>4. /\ x \in Seq(Char) /\ Len(x) \in Nat /\ t[e] \in Seq(Char) /\ Len(t[e]) \in Nat
          /\ Len(h[1].content) \in Nat
      BY <1>b, <3>1, <3>2
    <3>5. Len(x) = Len(h[1].content) + SumFunctionOnSet(Lengths(t), A)
      BY <3>3 DEF Untorn
    <3>6. SumFunctionOnSet(Lengths(t), A) \in Nat
      BY <1>c, <3>1
    <3>7. Position <= Len(x)
      BY <1>a, <1>b, <3>4, <3>5, <3>6
    <3>8. /\ Len(r) = Len(x) + Len(t[e])
          /\ At(t[e], r, Position)
          /\ \A u \in Seq(Char), i \in Nat :
               Position <= i /\ i + Len(u) <= Len(x) /\ At(u, x, i) => At(u, r, i + Len(t[e]))
      <4>1. Position \in Nat /\ t[e] \in Seq(Char) /\ x \in Seq(Char) /\ Position <= Len(x)
            /\ r = Insert(x, Position, t[e])
        BY <1>a, <3>2, <3>4, <3>7
      <4> HIDE DEF e, x, r
      <4>2. Len(r) = Len(x) + Len(t[e])
        BY <4>1, InsertedIs
      <4> QED
        BY <4>1, <4>2, InsertKeeps
    <3>9. B = A \union {e} /\ e \notin A
      <4>1. \A i \in 2..k : i \in 1..Len(h) /\ i # k + 1
        BY <1>b, <3>1
      <4>2. e \notin A
        BY <3>1, <4>1 DEF Edits, Authors
      <4>3. 2..(k + 1) = (2..k) \union {k + 1}
        BY <3>1
      <4> QED
        BY <4>2, <4>3 DEF Authors
    <3>10. Len(r) = Len(h[1].content) + SumFunctionOnSet(Lengths(t), B)
      <4>1. B \in SUBSET Editor /\ IsFiniteSet(B) /\ e \in B /\ B \ {e} = A
        BY <1>c, <3>1, <3>9
      <4>2. SumFunctionOnSet(Lengths(t), B) = Lengths(t)[e] + SumFunctionOnSet(Lengths(t), A)
        BY <1>d, <4>1
      <4>3. Lengths(t)[e] = Len(t[e])
        BY <3>2 DEF Lengths
      <4> DEFINE n == Len(h[1].content)
                 m == SumFunctionOnSet(Lengths(t), A)
                 l == Len(t[e])
                 s == SumFunctionOnSet(Lengths(t), B)
      <4>4. /\ n \in Nat /\ m \in Nat /\ l \in Nat
            /\ Len(x) = n + m /\ Len(r) = Len(x) + l /\ s = l + m
        BY <3>4, <3>5, <3>6, <3>8, <4>2, <4>3
      <4> HIDE DEF n, m, l, s
      <4>5. Len(r) = n + s
        BY <4>4
      <4> QED
        BY <4>5 DEF n, s
    <3>11. ASSUME NEW f \in B
           PROVE  \E i \in Nat : Position <= i /\ i + Len(t[f]) <= Len(r) /\ At(t[f], r, i)
      <4>1. CASE f = e
        BY <1>a, <3>4, <3>7, <3>8, <4>1
      <4>2. CASE f # e
        <5>1. f \in A /\ f \in Editor
          BY <1>c, <3>1, <3>9, <4>2
        <5>2. PICK i \in Nat : Position <= i /\ i + Len(t[f]) <= Len(x) /\ At(t[f], x, i)
          BY <3>3, <5>1 DEF Untorn
        <5>3. t[f] \in Seq(Char) /\ Len(t[f]) \in Nat
          BY <5>1
        <5>4. At(t[f], r, i + Len(t[e]))
          BY <3>8, <5>2, <5>3
        <5>5. /\ i + Len(t[e]) \in Nat /\ Position <= i + Len(t[e])
              /\ (i + Len(t[e])) + Len(t[f]) <= Len(r)
          <6>1. Len(r) = Len(x) + Len(t[e])
            BY <3>8
          <6> DEFINE n == Len(x)
                     a == Len(t[e])
                     b == Len(t[f])
          <6>2. /\ Position \in Nat /\ n \in Nat /\ a \in Nat /\ b \in Nat
                /\ Len(r) = n + a /\ Position <= i /\ i + b <= n
            BY <1>a, <3>4, <5>2, <5>3, <6>1
          <6> HIDE DEF n, a, b
          <6>3. i + a \in Nat /\ Position <= i + a /\ (i + a) + b <= n + a
            BY <6>2
          <6> QED
            BY <6>2, <6>3 DEF n, a, b
        <5> QED
          BY <5>4, <5>5
      <4> QED
        BY <4>1, <4>2
    <3> QED
      BY <3>10, <3>11 DEF Untorn
  <2> QED
    BY <2>1, <2>2
<1> HIDE DEF G
<1>3. Nat \subseteq G
  BY <1>1, <1>2, NatSet
<1>4. \A k \in 1..Len(h) : Untorn(h, t, k)
  BY <1>3 DEF G
<1>5. \A k \in 1..Len(h) : Len(h[k].content) >= Len(h[1].content)
  <2> SUFFICES ASSUME NEW k \in 1..Len(h) PROVE Len(h[k].content) >= Len(h[1].content)
    OBVIOUS
  <2>1. Len(h[k].content) = Len(h[1].content) + SumFunctionOnSet(Lengths(t), Authors(h, k))
    BY <1>4 DEF Untorn
  <2>2. Len(h[1].content) \in Nat /\ SumFunctionOnSet(Lengths(t), Authors(h, k)) \in Nat
    BY <1>b, <1>c
  <2> QED
    BY <2>1, <2>2
<1> QED
  BY <1>4, <1>5

-----------------------------------------------------------------------------
(***************************************************************************)
(* The document is the demo's own, and its calls succeed.                  *)
(***************************************************************************)

\* What the calls ask for.
LEMMA Requests ==
  ASSUME Script
  PROVE  /\ req[Creator].kind = "create" /\ Doc(Creator) = Document
         /\ Position <= Len(Initial)
         /\ req[Observer].kind = "subscribe" /\ Doc(Observer) = Document
         /\ req[Getter].kind = "get" /\ Doc(Getter) = Document
         /\ \A e \in Editor :
              req[e].kind = "edit" /\ Doc(e) = Document /\ req[e].position = Position
         /\ \A c \in Call : pc[c] # "idle" =>
              /\ req[c].kind = "create" /\ Strip[Doc(c)] = Document => c = Creator
              /\ req[c].kind = "edit" /\ Doc(c) = Document => c \in Editor
<1>1. \A c \in Call : req[c] \in Menu[c]
  BY DEF Script
<1>2. /\ req[Creator].kind = "create" /\ Doc(Creator) = Document
      /\ Position <= Len(Initial)
      /\ req[Observer].kind = "subscribe" /\ Doc(Observer) = Document
      /\ req[Getter].kind = "get" /\ Doc(Getter) = Document
  BY <1>1, DemoAssumption, DemoCallsAre DEF Doc, Initial
<1>3. \A e \in Editor :
        req[e].kind = "edit" /\ Doc(e) = Document /\ req[e].position = Position
  BY <1>1, DemoAssumption, DemoCallsAre DEF Doc
<1>4. \A c \in Foreign :
        /\ req[c].kind = "create" => Strip[Doc(c)] # Document
        /\ req[c].kind = "edit" => Doc(c) # Document
  BY <1>1, DemoAssumption, DemoCallsAre DEF Doc
<1>5. ASSUME NEW c \in Call, pc[c] # "idle"
      PROVE  /\ req[c].kind = "create" /\ Strip[Doc(c)] = Document => c = Creator
             /\ req[c].kind = "edit" /\ Doc(c) = Document => c \in Editor
  <2>1. c \in DemoCalls \/ c \in Foreign
    BY <1>5 DEF Script
  <2> QED
    BY <1>2, <1>3, <1>4, <2>1, Different
<1> QED
  BY <1>2, <1>3, <1>5

\* Only the demo's call creates the document.
LEMMA CreatesIt ==
  ASSUME TypeOK, Staged, Script, NEW c \in Call, CreateInsert(c), Strip[Doc(c)] = Document
  PROVE  c = Creator
<1>1. pc[c] = "create_insert" /\ req[c].kind = "create"
  BY DEF CreateInsert, Staged
<1> QED
  BY <1>1, Requests

LEMMA FoundedStep ==
  ASSUME TypeOK, Staged, Current, Drafted, Script, Founded, [Next]_vars
  PROVE  Founded'
<1> SUFFICES ASSUME Document \in docs'
             PROVE  hist'[Document][1] = [content |-> req[Creator].text, by |-> Creator]
  BY HistoryFrame DEF Founded, Initial
<1>0. Document \in Name
  BY DemoCallsAre
<1>1. CASE Document \in docs
  <2>1. 1 \in 1..Len(hist[Document])
    BY <1>1 DEF Current, TypeOK
  <2>2. hist'[Document][1] = hist[Document][1]
    BY <1>0, <2>1, HistoryGrows
  <2> QED
    BY <1>1, <2>2 DEF Founded, Initial
<1>2. CASE Document \notin docs
  <2>1. PICK c \in Call : CreateInsert(c)
    <3>1. \A c \in Call : ~EditBump(c) \/ docs' = docs
      BY BumpHistory
    <3>2. docs' # docs
      BY <1>2
    <3>3. UNCHANGED <<docs, hist>> \/ \E c \in Call : CreateInsert(c) \/ EditBump(c)
      BY HistoryFrame
    <3>4. PICK e \in Call : CreateInsert(e) \/ EditBump(e)
      <4>1. ~UNCHANGED <<docs, hist>>
        BY <3>2
      <4> QED
        BY <3>3, <4>1
    <3>5. CreateInsert(e)
      BY <3>1, <3>2, <3>4
    <3> QED
      BY <3>4, <3>5
  <2>2. Strip[Doc(c)] = Document
    <3>1. docs' = docs \union {Strip[Doc(c)]}
      BY <2>1, InsertHistory
    <3> QED
      BY <1>2, <3>1
  <2>3. c = Creator
    BY <2>1, <2>2, CreatesIt
  <2>4. hist'[Document] = <<[content |-> req[c].text, by |-> c]>>
    BY <2>1, <2>2, InsertHistory
  <2> QED
    BY <2>3, <2>4
<1> QED
  BY <1>1, <1>2

\* Once created the document is there.
LEMMA DocumentIs ==
  ASSUME IInv, Script, Succeeded, pc[Creator] = "done"
  PROVE  Document \in docs
<1>1. reply[Creator].status = "OK"
  BY DEF Succeeded
<1>2. Strip[Doc(Creator)] = Document /\ req[Creator].kind = "create"
  BY Requests, DemoAssumption
<1> QED
  BY <1>1, <1>2, DemoCallsAre DEF IInv, CreatedOnce

\* What the editors insert.
Texts == [e \in Editor |-> req[e].text]

LEMMA TextsAre ==
  ASSUME TypeOK
  PROVE  Texts \in [Editor -> Seq(Char)]
<1>1. \A e \in Editor : req[e].text \in Seq(Char)
  BY DemoCallsAre DEF TypeOK, Request
<1> QED
  BY <1>1 DEF Texts

\* The document's history is one of the editors' insertions.
LEMMA DocumentEdits ==
  ASSUME IInv, Script, Founded, Document \in docs
  PROVE  Edits(hist[Document], Texts)
<1> DEFINE h == hist[Document]
<1>1. h \in Seq(History) /\ Len(h) \in Nat /\ Len(h) > 0
  <2>1. h \in Seq(History)
    BY DemoCallsAre DEF IInv, TypeOK
  <2>2. Len(h) = version[Document] + 1 /\ version[Document] \in Nat
    BY DemoCallsAre DEF IInv, Current, TypeOK
  <2> QED
    BY <2>1, <2>2
<1>2. h[1].content = Initial /\ Position <= Len(h[1].content)
  BY Requests DEF Founded
<1>3. ASSUME NEW i \in 2..Len(h)
      PROVE  /\ h[i].by \in Editor
             /\ h[i].content = Insert(h[i - 1].content, Position, Texts[h[i].by])
  <2> DEFINE c == h[i].by
             k == i - 1
  <2>1. k \in 1..(Len(h) - 1) /\ k + 1 = i /\ i \in 1..Len(h)
    BY <1>1
  <2>2. /\ req[c].kind = "edit" /\ Doc(c) = Document
        /\ h[k + 1].content = Insert(h[k].content, req[c].position, req[c].text)
    <3>1. /\ req[h[k + 1].by].kind = "edit" /\ Doc(h[k + 1].by) = Document
          /\ h[k + 1].content = Insert(h[k].content, req[h[k + 1].by].position, req[h[k + 1].by].text)
      BY <2>1, Zenon DEF IInv, NoLostEdit
    <3> QED
      BY <2>1, <3>1
  <2>3. c \in Call /\ pc[c] # "idle"
    <3>1. h[i] \in History
      BY <1>1, <2>1
    <3>2. pc[c] \in {"edit_put", "done"}
      BY <2>1, DemoCallsAre DEF IInv, Authored
    <3> QED
      BY <3>1, <3>2 DEF History
  <2>4. c \in Editor
    BY <2>2, <2>3, Requests
  <2>5. req[c].position = Position /\ Texts[c] = req[c].text
    BY <2>4, Requests DEF Texts
  <2> QED
    BY <2>1, <2>2, <2>4, <2>5
<1>4. \A i, j \in 1..Len(h) : h[i].by = h[j].by => i = j
  BY DEF IInv, NoLostEdit
<1> QED
  BY <1>1, <1>2, <1>3, <1>4 DEF Edits

\* A call after the first is made once that one has succeeded.
LEMMA AfterCreator ==
  ASSUME Script, NEW c \in Editor \union {Getter}, pc[c] # "idle"
  PROVE  pc[Creator] = "done"
<1>1. CASE c = Getter
  BY <1>1 DEF Script
<1>2. CASE c \in Editor
  <2>1. editor[c] = "edit"
    BY <1>2 DEF Script
  <2>2. demo \notin {"create", "observe", "wait"}
    BY <1>2, <2>1 DEF Script
  <2> QED
    BY <2>2 DEF Script
<1> QED
  BY <1>1, <1>2

LEMMA SucceededStep ==
  ASSUME IInv, Script, Founded, Succeeded, [Next]_vars
  PROVE  Succeeded'
<1> SUFFICES ASSUME NEW c \in {Creator, Getter} \union Editor, pc'[c] = "done"
             PROVE  reply'[c].status = "OK"
  BY DEF Succeeded
<1>0. c \in Call /\ TypeOK /\ Document \in Name
  BY DemoCallsAre DEF IInv
<1>1. CASE pc[c] = "done"
  <2>1. reply'[c] = reply[c]
    BY <1>0, <1>1, EndFrame
  <2> QED
    BY <1>1, <2>1 DEF Succeeded
<1>2. CASE pc[c] # "done"
  <2>1. ~CreateReject(c)
    <3>1. SUFFICES ASSUME CreateReject(c) PROVE FALSE
      OBVIOUS
    <3>2. pc[c] = "create" /\ Strip[Doc(c)] = Blank
      BY <3>1 DEF CreateReject
    <3>3. c = Creator
      BY <1>0, <3>2, Requests DEF IInv, Staged
    <3> QED
      BY <3>2, <3>3, Requests, DemoAssumption
  <2>2. ~(CreateCheck(c) /\ Strip[Doc(c)] \in docs)
    <3>1. SUFFICES ASSUME CreateCheck(c), Strip[Doc(c)] \in docs PROVE FALSE
      OBVIOUS
    <3>2. pc[c] = "create"
      BY <3>1 DEF CreateCheck
    <3>3. c = Creator /\ Document \in docs
      BY <1>0, <3>1, <3>2, Requests, DemoAssumption DEF IInv, Staged
    <3>4. hist[Document][1].by = Creator /\ 1 \in 1..Len(hist[Document])
      <4>1. Len(hist[Document]) = version[Document] + 1 /\ version[Document] \in Nat
        BY <1>0, <3>3 DEF IInv, Current, TypeOK
      <4> QED
        BY <3>3, <4>1 DEF Founded
    <3>5. pc[Creator] = "done"
      BY <1>0, <3>4 DEF IInv, Authored
    <3> QED
      BY <1>2, <3>3, <3>5
  <2>3. ~(Lookup(c) /\ Doc(c) \notin docs)
    <3>1. SUFFICES ASSUME Lookup(c), Doc(c) \notin docs PROVE FALSE
      OBVIOUS
    <3>2. pc[c] = "lookup"
      BY <3>1 DEF Lookup
    <3>3. c \in Editor \union {Getter} /\ Doc(c) = Document
      BY <1>0, <3>2, Requests DEF IInv, Staged
    <3> QED
      BY <3>1, <3>2, <3>3, AfterCreator, DocumentIs
  <2>4. ~EditReject(c)
    <3>1. SUFFICES ASSUME EditReject(c) PROVE FALSE
      OBVIOUS
    <3>2. pc[c] = "edit" /\ lock[Doc(c)] = Nobody /\ req[c].position > Len(content[Doc(c)])
      BY <3>1 DEF EditReject
    <3>3. req[c].kind = "edit" /\ Doc(c) \in docs
      BY <1>0, <3>2 DEF IInv, Staged, EditPcs
    <3>4. c \in Editor /\ Doc(c) = Document /\ req[c].position = Position
      BY <3>3, Requests
    <3> DEFINE h == hist[Document]
    <3>5. Edits(h, Texts) /\ h[1].content = Initial
      BY <3>3, <3>4, DocumentEdits DEF Founded
    <3>6. content[Document] = h[Len(h)].content /\ Len(h) \in 1..Len(h)
      <4>1. content[Document] = Latest(Document).content
        BY <1>0, <3>2, <3>3, <3>4, Readable DEF IInv
      <4>2. Len(h) = version[Document] + 1 /\ version[Document] \in Nat
        BY <1>0, <3>3, <3>4 DEF IInv, Current, TypeOK
      <4> QED
        BY <4>1, <4>2 DEF Latest
    <3>7. Len(h[Len(h)].content) >= Len(Initial)
      BY <1>0, <3>5, <3>6, AlwaysUntorn, TextsAre
    <3>8. Position <= Len(Initial) /\ Position \in Nat
      BY Requests, DemoAssumption
    <3>9. Len(Initial) \in Nat /\ Len(content[Document]) \in Nat
      <4>1. Initial \in Seq(Char) /\ content[Document] \in Seq(Char)
        BY <1>0, DemoCallsAre DEF TypeOK, Request, Initial
      <4> QED
        BY <4>1
    <3> DEFINE n == Len(content[Document])
               m == Len(Initial)
    <3>10. Position > n /\ n >= m /\ Position <= m /\ n \in Nat /\ m \in Nat /\ Position \in Nat
      BY <3>2, <3>4, <3>6, <3>7, <3>8, <3>9
    <3> HIDE DEF n, m
    <3> QED
      BY <3>10
  <2>5. ~SubExit(c)
    <3>1. SUFFICES ASSUME SubExit(c) PROVE FALSE
      OBVIOUS
    <3>2. req[c].kind = "subscribe"
      BY <1>0, <3>1 DEF SubExit, IInv, Staged, SubPcs
    <3> QED
      BY <3>2, Requests
  <2> QED
    BY <1>0, <1>2, <2>1, <2>2, <2>3, <2>4, <2>5, Ends
<1> QED
  BY <1>1, <1>2

\* As long as no editor is started the document has its first version.
LEMMA Unedited ==
  ASSUME IInv, Script, Founded, Document \in docs, demo \in {"create", "observe", "wait"}
  PROVE  Len(hist[Document]) = 1
<1> DEFINE h == hist[Document]
<1>1. Edits(h, Texts) /\ Len(h) \in Nat /\ Len(h) > 0
  <2>1. h \in Seq(History)
    BY DemoCallsAre DEF IInv, TypeOK
  <2> QED
    BY <2>1, DocumentEdits DEF Edits
<1>2. SUFFICES ASSUME Len(hist[Document]) # 1 PROVE FALSE
  OBVIOUS
<1>3. 2 \in 2..Len(h) /\ 2 \in 1..Len(h)
  <2> DEFINE n == Len(h)
  <2>1. n \in Nat /\ n > 0 /\ n # 1
    BY <1>1, <1>2
  <2> HIDE DEF n
  <2>2. 2 \in 2..n /\ 2 \in 1..n
    BY <2>1
  <2> QED
    BY <2>2 DEF n
<1>4. h[2].by \in Editor
  BY <1>1, <1>3 DEF Edits
<1>5. pc[h[2].by] \in {"edit_put", "done"}
  BY <1>3, DemoCallsAre DEF IInv, Authored
<1>6. editor[h[2].by] = "none"
  BY <1>4 DEF Script
<1> QED
  BY <1>4, <1>5, <1>6 DEF Script

LEMMA JoinedFirstStep ==
  ASSUME IInv, Script, Founded, JoinedFirst, [Next]_vars
  PROVE  JoinedFirst'
<1>0. TypeOK /\ Observer \in Call /\ Doc(Observer) = Document
  BY DemoCallsAre, Requests DEF IInv
<1>1. CASE joined'[Observer] = joined[Observer]
  BY <1>1 DEF JoinedFirst
<1>2. CASE SubSnapshot(Observer)
  <2>1. /\ joined'[Observer] = Len(hist[Document]) - 1 /\ Document \in docs
        /\ pc[Observer] = "sub_snap"
    BY <1>0, <1>2, SnapshotFacts DEF IInv
  <2>2. received[Observer] = <<>>
    BY <1>0, <2>1 DEF IInv, Listed
  <2>3. demo \in {"create", "observe", "wait"}
    BY <2>2 DEF Script
  <2>4. Len(hist[Document]) = 1
    BY <2>1, <2>3, Unedited
  <2> QED
    BY <2>1, <2>4 DEF JoinedFirst
<1> QED
  BY <1>0, <1>1, <1>2, JoinsOnce

\* Once all editors have their answers the document does not change any more.
LEMMA Settles ==
  ASSUME IInv, Script, [Next]_vars, Document \in docs, \A e \in Editor : pc[e] = "done"
  PROVE  Document \in docs' /\ hist'[Document] = hist[Document]
<1>0. TypeOK /\ Staged /\ Current /\ Drafted /\ Document \in Name
  BY DemoCallsAre DEF IInv
<1>1. CASE UNCHANGED <<docs, hist>>
  BY <1>1
<1>2. ASSUME NEW c \in Call, CreateInsert(c)
      PROVE  Document \in docs' /\ hist'[Document] = hist[Document]
  BY <1>0, <1>2, InsertHistory
<1>3. ASSUME NEW c \in Call, EditBump(c)
      PROVE  Document \in docs' /\ hist'[Document] = hist[Document]
  <2>1. /\ docs' = docs /\ req[c].kind = "edit" /\ pc[c] = "edit_bump"
        /\ \A e \in Name \ {Doc(c)} : hist'[e] = hist[e]
    BY <1>0, <1>3, BumpHistory
  <2>2. Doc(c) # Document
    BY <2>1, Requests
  <2> QED
    BY <1>0, <2>1, <2>2
<1> QED
  BY <1>1, <1>2, <1>3, HistoryFrame

LEMMA ReadLastStep ==
  ASSUME IInv, IInv', Script, Script', Succeeded, Succeeded', ReadLast, [Next]_vars
  PROVE  ReadLast'
<1> SUFFICES ASSUME pc'[Getter] = "done"
             PROVE  reply'[Getter].version = version'[Document]
  BY DEF ReadLast, Final
<1>0. TypeOK /\ Staged /\ Getter \in Call /\ Document \in Name
  BY DemoCallsAre DEF IInv
<1>1. CASE pc[Getter] = "done"
  <2>1. demo \in {"sleep", "exit"}
    BY <1>1 DEF Script
  <2>2. (\A e \in Editor : pc[e] = "done") /\ Document \in docs
    BY <1>1, <2>1, AfterCreator, DocumentIs DEF Script
  <2>3. Document \in docs' /\ hist'[Document] = hist[Document]
    BY <2>2, Settles
  <2>4. /\ Len(hist[Document]) = version[Document] + 1 /\ version[Document] \in Nat
        /\ Len(hist'[Document]) = version'[Document] + 1 /\ version'[Document] \in Nat
    BY <1>0, <2>2, <2>3 DEF IInv, Current, TypeOK
  <2>5. version'[Document] = version[Document]
    BY <2>3, <2>4
  <2>6. reply'[Getter] = reply[Getter]
    BY <1>0, <1>1, EndFrame
  <2> QED
    BY <1>1, <2>5, <2>6 DEF ReadLast, Final
<1>2. CASE pc[Getter] # "done"
  <2>1. reply'[Getter].status = "OK" /\ reply[Getter].status = "none"
    BY <1>0, <1>2 DEF Succeeded, Staged
  <2>2. req[Getter].kind = "get" /\ Doc(Getter) = Document
    BY Requests
  <2>3. ~EditReturn(Getter) /\ ~CreateInsert(Getter)
    BY <1>0, <2>2 DEF EditReturn, CreateInsert, Staged, EditPcs
  <2>4. GetRead(Getter)
    BY <1>0, <2>1, <2>3, ReplyFrame
  <2>5. reply'[Getter] = Ok(content[Document], version[Document]) /\ version' = version
    BY <1>0, <2>2, <2>4 DEF GetRead, Answer, docVars, TypeOK
  <2> QED
    BY <2>5 DEF Ok
<1> QED
  BY <1>1, <1>2

LEMMA InitDemo == DemoInit => DemoInv
<1> SUFFICES ASSUME DemoInit PROVE DemoInv
  OBVIOUS
<1>1. IInv
  BY InitIInv DEF DemoInit
<1>2. Script
  BY DemoCallsAre DEF DemoInit, Init, Script
<1>3. Founded /\ Succeeded /\ JoinedFirst /\ ReadLast
  BY DemoCallsAre DEF DemoInit, Init, Founded, Succeeded, JoinedFirst, ReadLast
<1> QED
  BY <1>1, <1>2, <1>3 DEF DemoInv

LEMMA DemoStep == DemoInv /\ [DemoNext]_allVars => DemoInv'
<1> SUFFICES ASSUME DemoInv, [DemoNext]_allVars PROVE DemoInv'
  OBVIOUS
<1>0. [Next]_vars /\ IInv /\ TypeOK /\ Staged /\ Current /\ Drafted
  BY ServerStep DEF DemoInv, IInv
<1>1. IInv'
  BY <1>0, NextIInv
<1>2. Script'
  BY <1>0, ScriptStep DEF DemoInv
<1>3. Founded' /\ Succeeded' /\ JoinedFirst'
  BY <1>0, FoundedStep, SucceededStep, JoinedFirstStep DEF DemoInv
<1>4. ReadLast'
  BY <1>0, <1>1, <1>2, <1>3, ReadLastStep DEF DemoInv
<1> QED
  BY <1>1, <1>2, <1>3, <1>4 DEF DemoInv

\* The inductive invariant of the demo with the server holds throughout.
THEOREM DemoInvariance == DemoSpec => []DemoInv
BY InitDemo, DemoStep, PTL DEF DemoSpec

-----------------------------------------------------------------------------
(***************************************************************************)
(* The checks of the program.                                              *)
(***************************************************************************)

\* The versions that the editors are told are those of the document after the
\* first, one each.
LEMMA VersionsAre ==
  ASSUME DemoInv, Document \in docs, \A e \in Editor : pc[e] = "done"
  PROVE  LET h == hist[Document]
             n == Len(h) - 1
         IN  /\ n \in Nat /\ n = N /\ version[Document] = n
             /\ {reply[e].version : e \in Editor} = 1..n
             /\ Authors(h, Len(h)) = Editor
<1> DEFINE h == hist[Document]
           n == Len(h) - 1
           v == [e \in Editor |-> reply[e].version]
<1>0. TypeOK /\ Document \in Name /\ IsFiniteSet(Editor)
  BY DemoCallsAre, DemoAssumption DEF DemoInv, IInv
<1>1. version[Document] = n /\ n \in Nat /\ Len(h) = n + 1
  <2> DEFINE k == version[Document]
             l == Len(h)
  <2>1. k \in Nat /\ l = k + 1
    BY <1>0 DEF DemoInv, IInv, Current, TypeOK
  <2> HIDE DEF k, l
  <2>2. k = l - 1 /\ l - 1 \in Nat /\ l = (l - 1) + 1
    BY <2>1
  <2> QED
    BY <2>2 DEF k, l
<1>2. Edits(h, Texts)
  BY DocumentEdits DEF DemoInv
<1>3. ASSUME NEW e \in Editor
      PROVE  v[e] \in 1..n /\ h[v[e] + 1].by = e
  <2>1. reply[e].status = "OK" /\ req[e].kind = "edit" /\ Doc(e) = Document
    BY Requests DEF DemoInv, Succeeded
  <2>2. /\ reply[e].version < Len(h) /\ reply[e].version > 0
        /\ h[reply[e].version + 1].by = e
    BY <2>1, DemoCallsAre DEF DemoInv, IInv, AnswersAreVersions
  <2>3. reply[e].version \in Nat
    BY <1>0, DemoCallsAre DEF TypeOK, Reply
  <2> QED
    BY <1>1, <2>2, <2>3
<1>4. ASSUME NEW k \in 1..n
      PROVE  h[k + 1].by \in Editor /\ v[h[k + 1].by] = k
  <2>1. k + 1 \in 2..Len(h) /\ k + 1 \in 1..Len(h)
    BY <1>1
  <2>2. h[k + 1].by \in Editor
    BY <1>2, <2>1 DEF Edits
  <2> DEFINE w == v[h[k + 1].by]
  <2>3. w \in 1..n /\ h[w + 1].by = h[k + 1].by
    BY <1>3, <2>2
  <2> HIDE DEF w
  <2>4. w + 1 \in 1..Len(h)
    BY <1>1, <2>3
  <2>5. w + 1 = k + 1
    BY <1>2, <2>1, <2>3, <2>4 DEF Edits
  <2>6. w = k
    BY <2>3, <2>5
  <2> QED
    BY <2>2, <2>6 DEF w
<1>5. {reply[e].version : e \in Editor} = 1..n
  BY <1>3, <1>4
<1>6. n = N
  <2>1. v \in Bijection(Editor, 1..n)
    <3>1. v \in [Editor -> 1..n]
      BY <1>3
    <3>2. \A a, b \in Editor : v[a] = v[b] => a = b
      BY <1>3
    <3>3. \A k \in 1..n : \E e \in Editor : v[e] = k
      BY <1>4
    <3> HIDE DEF v
    <3> QED
      BY <3>1, <3>2, <3>3 DEF Bijection, Injection, Surjection, IsInjective
  <2>2. Cardinality(1..n) = Cardinality(Editor)
    BY <1>0, <2>1, FS_Bijection DEF ExistsBijection
  <2>3. Cardinality(1..n) = n
    BY <1>1, FS_Interval
  <2> QED
    BY <2>2, <2>3 DEF N
<1>7. Authors(h, Len(h)) = Editor
  <2>1. \A e \in Editor : v[e] + 1 \in 2..Len(h)
    BY <1>1, <1>3
  <2>2. \A e \in Editor : e \in Authors(h, Len(h))
    BY <1>3, <2>1 DEF Authors
  <2>3. Authors(h, Len(h)) \subseteq Editor
    BY <1>2 DEF Edits, Authors
  <2> QED
    BY <2>2, <2>3
<1> HIDE DEF v
<1> QED
  BY <1>1, <1>5, <1>6, <1>7

LEMMA ServerChecksHold ==
  ASSUME DemoInv, demo = "exit"
  PROVE  ServerChecks
<1> DEFINE h == hist[Document]
           n == Len(h)
<1>0. TypeOK /\ Document \in Name
  BY DemoCallsAre DEF DemoInv, IInv
<1>1. (\A e \in Editor : pc[e] = "done") /\ pc[Getter] = "done" /\ pc[Creator] = "done"
  BY DEF DemoInv, Script
<1>2. Document \in docs
  BY <1>1, DocumentIs DEF DemoInv
<1>3. /\ n - 1 \in Nat /\ n - 1 = N /\ version[Document] = n - 1
      /\ {reply[e].version : e \in Editor} = 1..(n - 1)
      /\ Authors(h, n) = Editor
  BY <1>1, <1>2, VersionsAre
<1>4. Final.version = N /\ {reply[e].version : e \in Editor} = 1..N
  BY <1>1, <1>3 DEF DemoInv, ReadLast
<1>5. h \in Seq(History) /\ n \in Nat /\ n \in 1..n
  <2>1. h \in Seq(History) /\ Len(h) \in Nat
    BY <1>0 DEF TypeOK
  <2>2. n = version[Document] + 1 /\ version[Document] \in Nat
    BY <1>0, <1>2 DEF TypeOK, DemoInv, IInv, Current
  <2> QED
    BY <2>1, <2>2
<1>6. Final.content = h[n].content
  <2>1. reply[Getter].status = "OK" /\ req[Getter].kind = "get" /\ Doc(Getter) = Document
    BY <1>1, Requests DEF DemoInv, Succeeded
  <2>2. Final.content = h[Final.version + 1].content
    BY <2>1, DemoCallsAre DEF DemoInv, IInv, AnswersAreVersions, Final
  <2>3. Final.version + 1 = n
    BY <1>3, <1>4, <1>5
  <2> QED
    BY <2>2, <2>3
<1>7. Untorn(h, Texts, n)
  BY <1>0, <1>2, <1>5, DocumentEdits, AlwaysUntorn, TextsAre DEF DemoInv
<1>8. h[1].content = Initial
  BY <1>2 DEF DemoInv, Founded
<1>9. Len(Final.content) = Len(Initial) + SumFunction([e \in Editor |-> Len(req[e].text)])
  <2>1. Lengths(Texts) = [e \in Editor |-> Len(req[e].text)]
    BY DEF Lengths, Texts
  <2>2. SumFunction(Lengths(Texts)) = SumFunctionOnSet(Lengths(Texts), Editor)
    <3>1. DOMAIN Lengths(Texts) = Editor
      BY DEF Lengths
    <3> QED
      BY <3>1 DEF SumFunction
  <2>3. Len(h[n].content) = Len(Initial) + SumFunctionOnSet(Lengths(Texts), Editor)
    BY <1>3, <1>7, <1>8 DEF Untorn
  <2> QED
    BY <1>6, <2>1, <2>2, <2>3
<1>10. ASSUME NEW e \in Editor PROVE In(req[e].text, Final.content)
  <2> DEFINE x == h[n].content
  <2>1. PICK i \in Nat : i + Len(Texts[e]) <= Len(x) /\ At(Texts[e], x, i)
    BY <1>3, <1>7 DEF Untorn
  <2>2. Texts[e] = req[e].text /\ Len(req[e].text) \in Nat
    <3>1. Texts[e] \in Seq(Char) /\ Texts[e] = req[e].text
      BY <1>0, TextsAre DEF Texts
    <3> QED
      BY <3>1
  <2>3. Len(x) \in Nat
    <3>1. h[n] \in History
      BY <1>5
    <3> QED
      BY <3>1 DEF History
  <2> DEFINE a == Len(req[e].text)
             b == Len(x)
  <2>4. i + a <= b /\ a \in Nat /\ b \in Nat
    BY <2>1, <2>2, <2>3
  <2>5. i \in 0..b
    <3> HIDE DEF a, b
    <3> QED
      BY <2>4
  <2> QED
    BY <1>6, <2>1, <2>2, <2>5 DEF In, At
<1> QED
  BY <1>4, <1>9, <1>10 DEF ServerChecks

\* Whatever other clients do and however the editors' threads are scheduled,
\* the demo finds every edit applied once, untorn, with a version of its own.
THEOREM DemoServerHolds == DemoSpec => []DemoServerPasses
<1>1. DemoInv => DemoServerPasses
  BY ServerChecksHold DEF DemoServerPasses
<1> QED
  BY <1>1, DemoInvariance, PTL

LEMMA StreamChecksHold ==
  ASSUME DemoInv, demo = "exit"
  PROVE  InOrder /\ (All => EndsFinal)
<1> DEFINE r == received[Observer]
           s == Streamed(Observer)
           h == hist[Document]
<1>0. TypeOK /\ Document \in Name /\ Observer \in Call /\ Doc(Observer) = Document
  BY DemoCallsAre, Requests DEF DemoInv, IInv
<1>1. (\A e \in Editor : pc[e] = "done") /\ pc[Getter] = "done" /\ pc[Creator] = "done"
  BY DEF DemoInv, Script
<1>2. Document \in docs
  BY <1>1, DocumentIs DEF DemoInv
<1>3. /\ Len(h) - 1 \in Nat /\ Len(h) - 1 = N /\ version[Document] = Len(h) - 1
  BY <1>1, <1>2, VersionsAre
<1>4. r \in Seq(Update) /\ Len(r) \in Nat /\ Len(r) > 0
  <2>1. r \in Seq(Update) /\ r # <<>>
    BY <1>0 DEF TypeOK, DemoInv, Script
  <2> QED
    BY <2>1
<1>5. \A i \in 1..Len(r) : i \in 1..Len(s) /\ s[i] = r[i]
  <2> DEFINE m == sending[Observer]
             q == queue[Observer]
  <2>1. m \in Seq(Update) /\ q \in Seq(Update)
    BY <1>0 DEF TypeOK
  <2> HIDE DEF r, m, q
  <2>2. /\ r \o m \in Seq(Update) /\ Len(r \o m) = Len(r) + Len(m) /\ Len(m) \in Nat
        /\ \A i \in 1..Len(r) : (r \o m)[i] = r[i]
    BY <1>4, <2>1, ConcatProperties
  <2>3. /\ Len((r \o m) \o q) = Len(r \o m) + Len(q) /\ Len(q) \in Nat
        /\ \A i \in 1..Len(r \o m) : ((r \o m) \o q)[i] = (r \o m)[i]
    BY <2>1, <2>2, ConcatProperties
  <2>4. \A i \in 1..Len(r) : i \in 1..Len((r \o m) \o q) /\ ((r \o m) \o q)[i] = r[i]
    BY <1>4, <2>2, <2>3
  <2>5. s = (r \o m) \o q
    BY DEF Streamed, r, m, q
  <2> QED
    BY <2>4, <2>5
<1>6. \A i \in 1..Len(r) :
        /\ r[i].version = i - 1
        /\ r[i].content = h[i].content
  <2> SUFFICES ASSUME NEW i \in 1..Len(r)
               PROVE  r[i].version = i - 1 /\ r[i].content = h[i].content
    OBVIOUS
  <2>1. joined[Observer] = 0
    BY DEF DemoInv, JoinedFirst
  <2>2. i \in 1..Len(s) /\ s[i] = r[i]
    BY <1>5
  <2>3. /\ s[i].version = joined[Observer] + i - 1
        /\ s[i].content = h[s[i].version + 1].content
    BY <1>0, <2>2 DEF DemoInv, IInv, StreamExact
  <2>4. i \in Nat /\ (0 + i - 1) = i - 1 /\ (i - 1) + 1 = i
    BY <1>4
  <2> QED
    BY <2>1, <2>2, <2>3, <2>4
<1>7. /\ Len(Updates) = Len(r) - 1
      /\ \A i \in 1..(Len(r) - 1) : Updates[i] = r[i + 1]
  <2>1. /\ Len(SubSeq(r, 2, Len(r))) = Len(r) - 1
        /\ \A i \in 1..(Len(r) - 1) : SubSeq(r, 2, Len(r))[i] = r[i + 1]
    <3> HIDE DEF r
    <3>1. CASE Len(r) = 1
      BY <1>4, <3>1, SubSeqProperties
    <3>2. CASE Len(r) > 1
      <4>1. 2 \in 1..Len(r) /\ Len(r) \in 2..Len(r)
        BY <1>4, <3>2
      <4>2. /\ Len(SubSeq(r, 2, Len(r))) = Len(r) - 2 + 1
            /\ \A i \in 1..(Len(r) - 2 + 1) : SubSeq(r, 2, Len(r))[i] = r[2 + i - 1]
        BY <1>4, <4>1, SubSeqProperties
      <4>3. Len(r) - 2 + 1 = Len(r) - 1 /\ \A i \in 1..(Len(r) - 1) : 2 + i - 1 = i + 1
        BY <1>4
      <4>4. Len(SubSeq(r, 2, Len(r))) = Len(r) - 1
        BY <4>2, <4>3
      <4>5. ASSUME NEW i \in 1..(Len(r) - 1)
            PROVE  SubSeq(r, 2, Len(r))[i] = r[i + 1]
        BY <4>2, <4>3, Zenon
      <4> QED
        BY <4>4, <4>5
    <3>3. Len(r) = 1 \/ Len(r) > 1
      <4> DEFINE k == Len(r)
      <4>1. k \in Nat /\ k > 0
        BY <1>4
      <4> HIDE DEF k
      <4>2. k = 1 \/ k > 1
        BY <4>1
      <4> QED
        BY <4>2 DEF k
    <3> QED
      BY <3>1, <3>2, <3>3, Zenon
  <2> QED
    BY <2>1 DEF Updates
<1>8. InOrder
  <2>1. \A i \in 1..(Len(r) - 1) : i + 1 \in 1..Len(r) /\ (i + 1) - 1 = i
    BY <1>4
  <2> QED
    BY <1>6, <1>7, <2>1 DEF InOrder
<1>9. All => EndsFinal
  <2>1. SUFFICES ASSUME All PROVE Updates[N].content = Final.content
    BY DEF EndsFinal
  <2>2. Len(r) = 1 + N /\ N \in Nat
    BY <1>3, <2>1 DEF All, N
  <2>3. N > 0
    <3>1. IsFiniteSet(Editor) /\ Editor # {}
      BY DemoAssumption
    <3> QED
      BY <2>2, <3>1, FS_EmptySet DEF N
  <2>4. Updates[N] = r[N + 1] /\ N + 1 \in 1..Len(r)
    BY <1>7, <2>2, <2>3
  <2>5. r[N + 1].content = h[N + 1].content
    BY <1>6, <2>4
  <2>6. reply[Getter].status = "OK" /\ req[Getter].kind = "get" /\ Doc(Getter) = Document
    BY <1>1, Requests DEF DemoInv, Succeeded
  <2>7. Final.content = h[Final.version + 1].content
    BY <2>6, DemoCallsAre DEF DemoInv, IInv, AnswersAreVersions, Final
  <2>8. Final.version = N
    BY <1>1, <1>3 DEF DemoInv, ReadLast
  <2> QED
    BY <2>4, <2>5, <2>7, <2>8
<1> QED
  BY <1>8, <1>9

\* The updates that the observer has are in version order from the first, and
\* when it has all of them the last one is the final document.
THEOREM DemoStreamHolds == DemoSpec => []DemoStreamPasses
<1>1. DemoInv => DemoStreamPasses
  BY StreamChecksHold DEF DemoStreamPasses
<1> QED
  BY <1>1, DemoInvariance, PTL
=============================================================================
