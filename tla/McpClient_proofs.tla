--------------------------- MODULE McpClient_proofs ---------------------------
(***************************************************************************)
(* Theorems about McpClient, for any number of tool calls.  The invariant  *)
(* is IInv: the properties, and that ids are never reused (IdsOK) and      *)
(* requests go through their phases in one direction (RequestsOK).         *)
(***************************************************************************)
EXTENDS McpClient, TLAPS

LEMMA InitIInv == Init => IInv
<1> SUFFICES ASSUME Init PROVE IInv
  OBVIOUS
<1> USE DEF Init
<1>1. TypeOK
  <2>1. received = {} /\ pending = {} /\ replies \in Seq(Entries)
    OBVIOUS
  <2> QED
    BY <2>1 DEF TypeOK, Phases, Futures
<1>2. IdsOK /\ RequestsOK
  BY McpAssumption DEF IdsOK, RequestsOK, Requests, Outcomes, Live
<1>3. OwnResponse /\ PendingIsAwaited /\ ClosedForGood
  BY DEF OwnResponse, PendingIsAwaited, ClosedForGood
<1> QED
  BY <1>1, <1>2, <1>3 DEF IInv

(* A step leaves the variables in their types. *)
LEMMA TypeStep == TypeOK /\ [Next]_vars => TypeOK'
<1> SUFFICES ASSUME TypeOK, [Next]_vars PROVE TypeOK'
  OBVIOUS
<1> USE DEF TypeOK, Phases, Futures, Outcomes
<1>h. Hello \in Requests /\ Calls \subseteq Requests
  BY DEF Requests
<1>s. ASSUME NEW E, NEW st \in Futures
      PROVE  Settle(E, st) \in [Requests -> Futures]
  BY <1>s DEF Settle
<1>c. Settle(pending, "cancelled") \in [Requests -> Futures]
  BY <1>s
<1>1. CASE Start
  BY <1>1, <1>h DEF Start, request, server
<1>2. CASE Connect
  <2>1. CASE outcome[Hello] = "answered"
    BY <1>2, <2>1 DEF Connect, server
  <2>2. CASE outcome[Hello] # "answered"
    BY <1>2, <1>c, <2>2 DEF Connect, CloseSession, server
  <2> QED
    BY <2>1, <2>2
<1>3. CASE Close
  BY <1>3, <1>c DEF Close, CloseSession, server
<1>4. ASSUME NEW r \in Calls, Call(r) PROVE TypeOK'
  BY <1>4, <1>h DEF Call, End, session, server
<1>5. ASSUME NEW r \in Requests, Send(r) PROVE TypeOK'
  <2>1. NextId \in Nat
    BY DEF NextId
  <2>2. [id |-> NextId, request |-> r] \in Entries
    BY <2>1 DEF Entries
  <2>3. CASE link # "closed"
    <3>1. lock' = r /\ lastId' = NextId /\ UNCHANGED <<link, reader, signal, left, outcome, result, replies>>
      BY <1>5, <2>3 DEF Send
    <3>2. /\ id' = [id EXCEPT ![r] = NextId]
          /\ future' = [future EXCEPT ![r] = "open"]
          /\ phase' = [phase EXCEPT ![r] = "writing"]
          /\ pending' = pending \union {[id |-> NextId, request |-> r]}
          /\ received' = received \union {[id |-> NextId, request |-> r]}
      BY <1>5, <2>3 DEF Send
    <3>3. id' \in [Requests -> Nat] /\ future' \in [Requests -> Futures]
      BY <2>1, <3>2
    <3>4. phase' \in [Requests -> Phases]
      BY <3>2
    <3>5. pending' \subseteq Entries /\ received' \subseteq Entries
      BY <2>2, <3>2
    <3> QED
      BY <2>1, <3>1, <3>3, <3>4, <3>5
  <2>4. CASE link = "closed"
    BY <1>5, <2>1, <2>4 DEF Send, End, Outcomes
  <2> QED
    BY <2>3, <2>4
<1>6. ASSUME NEW r \in Requests, Drain(r) PROVE TypeOK'
  BY <1>6 DEF Drain, End, server
<1>7. ASSUME NEW r \in Requests, Receive(r) PROVE TypeOK'
  BY <1>7 DEF Receive, End, server
<1>8. ASSUME NEW r \in Requests, TimeOut(r) PROVE TypeOK'
  BY <1>8, <1>s DEF TimeOut, End, server
<1>9. ASSUME NEW r \in Requests, Signal(r) PROVE TypeOK'
  BY <1>9 DEF Signal, session, server
<1>10. ASSUME NEW r \in Requests, Cancel(r) PROVE TypeOK'
  BY <1>10, <1>s DEF Cancel, End, server
<1>10a. ASSUME NEW r \in Requests, Abandon(r) PROVE TypeOK'
  BY <1>10a DEF Abandon, session, server
<1>11. ASSUME NEW e \in received, Reply(e) PROVE TypeOK'
  BY <1>11 DEF Reply, session, request
<1>12. CASE Read
  <2>1. replies' \in Seq(Entries) /\ Head(replies) \in Entries
    BY <1>12 DEF Read
  <2>2. future' \in [Requests -> Futures]
    BY <1>12, <1>s DEF Read
  <2>3. result' \in [Requests -> Requests \union {None}]
    BY <1>12, <2>1 DEF Read, Entries
  <2> QED
    BY <1>12, <2>1, <2>2, <2>3 DEF Read
<1>13. CASE Break
  BY <1>13, <1>s DEF Break, FailPending, server
<1>14. CASE UNCHANGED vars
  BY <1>14 DEF vars, session, request, server
<1> QED
  BY <1>1, <1>2, <1>3, <1>4, <1>5, <1>6, <1>7, <1>8, <1>9, <1>10, <1>10a, <1>11, <1>12, <1>13, <1>14
     DEF Next, Step

(* An id is given out once, and goes with its request from then on. *)
LEMMA IdsStep == IInv /\ [Next]_vars => IdsOK' /\ RequestsOK'
<1> SUFFICES ASSUME IInv, [Next]_vars PROVE IdsOK' /\ RequestsOK'
  OBVIOUS
<1> USE DEF IInv
<1>t. TypeOK /\ TypeOK'
  BY TypeStep
<1>h. Hello \in Requests /\ Calls \subseteq Requests /\ None \notin Outcomes
  BY McpAssumption DEF Requests
<1>s. \A E : \A st : \A r \in Requests : future[r] = "none" => Settle(E, st)[r] = "none"
  BY <1>t DEF Settle, TypeOK
<1> USE DEF IdsOK, RequestsOK, Live
<1>1. CASE Start
  BY <1>1, <1>h, <1>t DEF Start, server, TypeOK
<1>2. CASE Connect
  BY <1>2, <1>s, <1>t DEF Connect, CloseSession, server, TypeOK
<1>3. CASE Close
  BY <1>3, <1>s, <1>t DEF Close, CloseSession, server, TypeOK
<1>4. ASSUME NEW r \in Calls, Call(r) PROVE IdsOK' /\ RequestsOK'
  BY <1>4, <1>h, <1>t DEF Call, End, session, server, TypeOK, Outcomes
<1>5. ASSUME NEW r \in Requests, Send(r) PROVE IdsOK' /\ RequestsOK'
  <2>1. lastId' = lastId + 1 /\ lastId \in Nat /\ id[r] = 0
    BY <1>5, <1>t DEF Send, NextId, TypeOK
  <2>2. CASE link = "closed"
    BY <1>5, <2>1, <2>2, <1>h, <1>t DEF Send, End, TypeOK, Outcomes
  <2>3. CASE link # "closed"
    <3> DEFINE new == [id |-> lastId + 1, request |-> r]
    <3>1. /\ id' = [id EXCEPT ![r] = lastId + 1]
          /\ future' = [future EXCEPT ![r] = "open"]
          /\ phase' = [phase EXCEPT ![r] = "writing"]
          /\ pending' = pending \union {new} /\ received' = received \union {new}
          /\ replies' = replies /\ outcome' = outcome
          /\ phase[r] = "locking" /\ link' = link
      BY <1>5, <2>3 DEF Send, NextId
    <3>2. \A q \in Requests : id[q] \in Nat /\ id[q] <= lastId
      BY <1>t DEF TypeOK
    <3>3. \A q \in Requests : id'[q] = IF q = r THEN lastId + 1 ELSE id[q]
      BY <3>1, <1>t DEF TypeOK
    <3>4. \A e \in received' \union pending' : e.id # 0 /\ id'[e.request] = e.id
      <4>1. \A e \in received \union pending : e.request \in Requests /\ e.request # r
        BY <2>1, <1>t DEF TypeOK, Entries
      <4>2. \A e \in received \union pending : e.id # 0 /\ id'[e.request] = e.id
        BY <3>3, <4>1
      <4>3. new.id # 0 /\ id'[new.request] = new.id
        BY <2>1, <3>3
      <4> QED
        BY <4>2, <4>3, <3>1
    <3>5. IdsOK'
      BY <3>1, <3>2, <3>3, <3>4, <2>1
    <3>6. RequestsOK'
      BY <3>1, <3>3, <1>h, <1>t DEF TypeOK
    <3> QED
      BY <3>5, <3>6
  <2> QED
    BY <2>2, <2>3
<1>6. ASSUME NEW r \in Requests, Drain(r) PROVE IdsOK' /\ RequestsOK'
  BY <1>6, <1>h, <1>t DEF Drain, End, server, TypeOK, Outcomes
<1>7. ASSUME NEW r \in Requests, Receive(r) PROVE IdsOK' /\ RequestsOK'
  BY <1>7, <1>h, <1>t DEF Receive, End, server, TypeOK, Outcomes
<1>8. ASSUME NEW r \in Requests, TimeOut(r) PROVE IdsOK' /\ RequestsOK'
  BY <1>8, <1>h, <1>s, <1>t DEF TimeOut, End, server, TypeOK, Outcomes
<1>9. ASSUME NEW r \in Requests, Signal(r) PROVE IdsOK' /\ RequestsOK'
  BY <1>9 DEF Signal, session, server
<1>10. ASSUME NEW r \in Requests, Cancel(r) PROVE IdsOK' /\ RequestsOK'
  BY <1>10, <1>h, <1>s, <1>t DEF Cancel, Live, End, server, TypeOK, Outcomes
<1>10a. ASSUME NEW r \in Requests, Abandon(r) PROVE IdsOK' /\ RequestsOK'
  BY <1>10a DEF Abandon, session, server
<1>11. ASSUME NEW e \in received, Reply(e) PROVE IdsOK' /\ RequestsOK'
  <2>1. replies' = Append(replies, e) /\ replies \in Seq(Entries)
    BY <1>11, <1>t DEF Reply, TypeOK
  <2>2. \A i \in DOMAIN replies' : replies'[i] \in received
    BY <2>1
  <2> QED
    BY <1>11, <2>2 DEF Reply, session, request
<1>12. CASE Read
  <2>1. replies' = Tail(replies) /\ replies \in Seq(Entries) /\ replies # <<>>
    BY <1>12, <1>t DEF Read, TypeOK
  <2>2. \A i \in DOMAIN replies' : replies'[i] \in received
    BY <2>1
  <2> QED
    BY <1>12, <2>2, <1>s, <1>t DEF Read, TypeOK
<1>13. CASE Break
  BY <1>13, <1>s, <1>t DEF Break, FailPending, server, TypeOK
<1>14. CASE UNCHANGED vars
  BY <1>14 DEF vars, session, request, server
<1> QED
  BY <1>1, <1>2, <1>3, <1>4, <1>5, <1>6, <1>7, <1>8, <1>9, <1>10, <1>10a, <1>11, <1>12, <1>13, <1>14
     DEF Next, Step

(* An entry is the one of its request and its id. *)
LEMMA EntryOfRequest ==
  ASSUME IInv, NEW e \in pending
  PROVE  e = Entry(e.request) /\ e.request \in Requests
<1>1. e \in [id : Nat, request : Requests] /\ e.id = id[e.request]
  BY DEF IInv, TypeOK, Entries, PendingIsAwaited
<1> QED
  BY <1>1 DEF Entry

Safe == OwnResponse /\ PendingIsAwaited /\ ClosedForGood

(* Responses find the request they answer, and only that one; what is      *)
(* pending is waited for; a closed session stays empty.                    *)
LEMMA SafeStep == IInv /\ [Next]_vars => Safe'
<1> SUFFICES ASSUME IInv, [Next]_vars PROVE Safe'
  OBVIOUS
<1>t. TypeOK /\ TypeOK' /\ IdsOK /\ RequestsOK /\ OwnResponse /\ PendingIsAwaited /\ ClosedForGood
  BY TypeStep DEF IInv
<1>h. Hello \in Requests /\ Calls \subseteq Requests /\ None \notin Outcomes
  BY McpAssumption DEF Requests
<1>e. \A e \in pending : e = Entry(e.request) /\ e.request \in Requests
  BY EntryOfRequest
<1>s. \A E : \A st : \A r \in Requests :
        Settle(E, st)[r] = IF future[r] = "open" /\ \E e \in E : e.request = r THEN st ELSE future[r]
  BY DEF Settle
<1> USE DEF Safe
<1>p. \A r \in Requests : phase[r] \in {"writing", "awaiting"} /\ future[r] = "open"
        => \E e \in pending : e.request = r
  <2>1. \A r \in Requests : Entry(r).request = r
    BY DEF Entry
  <2> QED
    BY <2>1, <1>t DEF PendingIsAwaited
<1>c. ASSUME CloseSession, UNCHANGED <<id, phase, outcome, result>>
      PROVE  Safe'
  <2>1. \A r \in Requests : phase[r] \in {"writing", "awaiting"} => future'[r] # "open"
    BY <1>c, <1>s, <1>p DEF CloseSession
  <2> QED
    BY <1>c, <2>1, <1>t DEF CloseSession, PendingIsAwaited, OwnResponse, ClosedForGood
<1>d. ASSUME NEW r \in Requests, phase[r] # "locking",
             pending' = pending \ {Entry(r)}, phase'[r] = "done",
             \A q \in Requests : q # r => phase'[q] = phase[q] /\ outcome'[q] = outcome[q] /\ future'[q] = future[q],
             UNCHANGED <<link, reader, id, result>>
      PROVE  Safe'
  <2>1. \A e \in pending' : e.request \in Requests /\ e.request # r /\ e \in pending
    BY <1>d, <1>e
  <2>2. \A q \in Requests : q # r => Entry(q) # Entry(r) /\ Entry(q)' = Entry(q)
    BY <1>d DEF Entry
  <2>3. PendingIsAwaited'
    BY <1>d, <2>1, <2>2, <1>t DEF PendingIsAwaited
  <2> QED
    BY <1>d, <2>3, <1>t DEF OwnResponse, ClosedForGood
<1>1. CASE Start
  <2>1. \A e \in pending : e.request # Hello
    BY <1>1, <1>h, <1>t DEF Start, RequestsOK, PendingIsAwaited, Outcomes
  <2>2. UNCHANGED <<id, future, pending, result, outcome>> /\ pending' = pending
    BY <1>1 DEF Start
  <2>3. \A r \in Requests : phase'[r] # phase[r] => r = Hello /\ phase'[r] = "locking"
    BY <1>1, <1>t DEF Start, TypeOK
  <2>4. PendingIsAwaited'
    BY <2>1, <2>2, <2>3, <1>e, <1>t DEF PendingIsAwaited, Entry
  <2>5. ClosedForGood'
    BY <1>1, <1>t DEF Start, RequestsOK, ClosedForGood
  <2> QED
    BY <2>2, <2>4, <2>5, <1>t DEF OwnResponse
<1>2. CASE Connect
  BY <1>2, <1>c, <1>t DEF Connect, server, OwnResponse, PendingIsAwaited, ClosedForGood, Entry
<1>3. CASE Close
  BY <1>3, <1>c DEF Close
<1>4. ASSUME NEW r \in Calls, Call(r) PROVE Safe'
  <2>1. \A e \in pending : e.request # r
    BY <1>4, <1>h, <1>t DEF Call, RequestsOK, PendingIsAwaited, Outcomes
  <2> QED
    BY <1>4, <2>1, <1>e, <1>h, <1>t
       DEF Call, End, session, server, TypeOK, OwnResponse, PendingIsAwaited, ClosedForGood, Entry
<1>5. ASSUME NEW r \in Requests, Send(r) PROVE Safe'
  <2>1. \A e \in pending : e.request # r
    BY <1>5, <1>t DEF Send, RequestsOK, PendingIsAwaited
  <2>2. CASE link = "closed"
    BY <1>5, <2>1, <2>2, <1>e, <1>t
       DEF Send, End, TypeOK, OwnResponse, PendingIsAwaited, ClosedForGood, Entry
  <2>3. CASE link # "closed"
    <3> DEFINE new == [id |-> NextId, request |-> r]
    <3>1. /\ id' = [id EXCEPT ![r] = NextId]
          /\ future' = [future EXCEPT ![r] = "open"]
          /\ phase' = [phase EXCEPT ![r] = "writing"]
          /\ pending' = pending \union {new}
          /\ UNCHANGED <<link, reader, outcome, result>>
      BY <1>5, <2>3 DEF Send
    <3>2. \A q \in Requests \ {r} : id'[q] = id[q] /\ phase'[q] = phase[q] /\ future'[q] = future[q]
      BY <3>1, <1>t DEF TypeOK
    <3>3. id'[r] = NextId /\ future'[r] = "open" /\ phase'[r] = "writing" /\ Entry(r)' = new
      BY <3>1, <1>t DEF TypeOK, Entry
    <3>4. \A e \in pending : e.request \in Requests \ {r}
      BY <2>1, <1>e
    <3>5. \A q \in Requests \ {r} : Entry(q)' = Entry(q)
      BY <3>2 DEF Entry
    <3>6. PendingIsAwaited'
      BY <3>1, <3>2, <3>3, <3>4, <3>5, <1>t DEF PendingIsAwaited
    <3> QED
      BY <3>1, <3>6, <2>3, <1>t DEF OwnResponse, ClosedForGood
  <2> QED
    BY <2>2, <2>3
<1>6. ASSUME NEW r \in Requests, Drain(r) PROVE Safe'
  <2>1. CASE phase' = [phase EXCEPT ![r] = "awaiting"] /\ UNCHANGED <<pending, outcome>>
    BY <1>6, <2>1, <1>e, <1>t
       DEF Drain, server, TypeOK, OwnResponse, PendingIsAwaited, ClosedForGood, Entry
  <2>2. CASE pending' = pending \ {Entry(r)} /\ End(r, "error")
    BY <1>6, <2>2, <1>d, <1>t DEF Drain, End, TypeOK
  <2> QED
    BY <1>6, <2>1, <2>2 DEF Drain
<1>7. ASSUME NEW r \in Requests, Receive(r) PROVE Safe'
  BY <1>7, <1>d, <1>t DEF Receive, End, TypeOK
<1>8. ASSUME NEW r \in Requests, TimeOut(r) PROVE Safe'
  <2>1. \A q \in Requests : q # r => future'[q] = future[q]
    BY <1>8, <1>s DEF TimeOut, Entry
  <2> QED
    BY <1>8, <2>1, <1>d, <1>t DEF TimeOut, End, TypeOK
<1>9. ASSUME NEW r \in Requests, Signal(r) PROVE Safe'
  BY <1>9, <1>t DEF Signal, session, server, OwnResponse, PendingIsAwaited, ClosedForGood, Entry
<1>10. ASSUME NEW r \in Requests, Cancel(r) PROVE Safe'
  <2>1. CASE phase[r] = "awaiting"
    <3>1. \A q \in Requests : q # r => future'[q] = future[q]
      BY <1>10, <2>1, <1>s DEF Cancel, Entry
    <3> QED
      BY <1>10, <2>1, <3>1, <1>d, <1>t DEF Cancel, End, TypeOK
  <2>2. CASE phase[r] # "awaiting"
    <3>1. /\ phase' = [phase EXCEPT ![r] = "done"] /\ outcome' = [outcome EXCEPT ![r] = "cancelled"]
          /\ UNCHANGED <<link, reader, id, future, pending, result>>
      BY <1>10, <2>2 DEF Cancel, End
    <3> QED
      BY <3>1, <1>e, <1>t DEF TypeOK, OwnResponse, PendingIsAwaited, ClosedForGood, Entry
  <2> QED
    BY <2>1, <2>2
<1>10a. ASSUME NEW r \in Requests, Abandon(r) PROVE Safe'
  BY <1>10a, <1>t DEF Abandon, session, server, OwnResponse, PendingIsAwaited, ClosedForGood, Entry
<1>11. ASSUME NEW e \in received, Reply(e) PROVE Safe'
  BY <1>11, <1>t DEF Reply, session, request, OwnResponse, PendingIsAwaited, ClosedForGood, Entry
<1>12. CASE Read
  <2> DEFINE head == Head(replies)
             hits == {e \in pending : e.id = head.id}
  <2>1. /\ pending' = pending \ hits /\ future' = Settle(hits, "set")
        /\ \A r \in Requests :
             result'[r] = IF future[r] = "open" /\ \E e \in hits : e.request = r THEN head.request ELSE result[r]
        /\ UNCHANGED <<link, reader, id, phase, outcome>>
    BY <1>12 DEF Read
  <2>2. head \in received /\ head.request \in Requests /\ id[head.request] = head.id /\ head.id # 0
    <3>1. replies \in Seq(Entries) /\ replies # <<>> /\ head = replies[1] /\ 1 \in DOMAIN replies
      BY <1>12, <1>t DEF Read, TypeOK
    <3>2. head \in received
      BY <3>1, <1>t DEF IdsOK
    <3> QED
      BY <3>2, <1>t DEF IdsOK, TypeOK, Entries
  <2>3. \A e \in hits : e.request = head.request
    BY <2>2, <1>e, <1>t DEF IdsOK, PendingIsAwaited
  <2>4. OwnResponse'
    BY <2>1, <2>3, <1>t DEF OwnResponse
  <2>5. \A e \in pending' : e \in pending /\ e.request # head.request
    BY <2>1, <2>2, <1>t DEF PendingIsAwaited
  <2>6. \A r \in Requests : r # head.request => future'[r] = future[r]
    BY <2>1, <2>3, <1>s
  <2>7. \A r \in Requests : Entry(r)' = Entry(r)
    BY <2>1 DEF Entry
  <2>8. \A r \in Requests : phase'[r] \in {"writing", "awaiting"} /\ future'[r] = "open" => Entry(r)' \in pending'
    <3> SUFFICES ASSUME NEW r \in Requests, phase[r] \in {"writing", "awaiting"}, future'[r] = "open"
                 PROVE  Entry(r) \in pending'
      BY <2>1, <2>7
    <3>1. future[r] = "open" /\ Entry(r) \notin hits
      BY <2>1, <1>s DEF Entry
    <3> QED
      BY <3>1, <2>1, <1>t DEF PendingIsAwaited
  <2>9. PendingIsAwaited'
    BY <2>1, <2>5, <2>6, <2>8, <1>e, <1>t DEF PendingIsAwaited
  <2> QED
    BY <2>1, <2>4, <2>9, <1>t DEF ClosedForGood
<1>13. CASE Break
  <2>1. \A r \in Requests : phase[r] \in {"writing", "awaiting"} => future'[r] # "open"
    BY <1>13, <1>s, <1>p DEF Break, FailPending
  <2> QED
    BY <1>13, <2>1, <1>t DEF Break, FailPending, server, OwnResponse, PendingIsAwaited, ClosedForGood
<1>14. CASE UNCHANGED vars
  BY <1>14, <1>t DEF vars, session, request, server, OwnResponse, PendingIsAwaited, ClosedForGood, Entry
<1> QED
  BY <1>1, <1>2, <1>3, <1>4, <1>5, <1>6, <1>7, <1>8, <1>9, <1>10, <1>10a, <1>11, <1>12, <1>13, <1>14
     DEF Next, Step

(* The invariant holds in every state. *)
LEMMA Invariance == Spec => []IInv
<1>1. IInv /\ [Next]_vars => IInv'
  BY TypeStep, IdsStep, SafeStep DEF IInv, Safe
<1> QED
  BY InitIInv, <1>1, PTL DEF Spec

(* Every variable of the client keeps its type. *)
THEOREM TypeCorrect == Spec => []TypeOK
BY Invariance, PTL DEF IInv

(* No request is ever given the response to another one, however late the  *)
(* reader gets it: ids grow, and an entry leaves _pending with its future. *)
THEOREM ResponsesAreOwn == Spec => []OwnResponse
BY Invariance, PTL DEF IInv

(* A future that is waited for stays within reach of its response, of the  *)
(* end of the stream and of close(). *)
THEOREM PendingCorrect == Spec => []PendingIsAwaited
BY Invariance, PTL DEF IInv

(* After close() nothing is registered any more, not even by requests that *)
(* were waiting for the write lock when it was called. *)
THEOREM StaysClosed == Spec => []ClosedForGood
BY Invariance, PTL DEF IInv

(* A request that has ended is never sent, also one that its signal        *)
(* cancelled in the queue for the lock.  One whose caller was cancelled    *)
(* itself has not ended, and nothing is promised of it. *)
THEOREM NothingSentLate == Spec => NoLateSend
<1> DEFINE OnTime == \A e \in received' \ received : outcome[e.request] = None
<1>1. IInv /\ [Next]_vars => [OnTime]_vars
  <2> SUFFICES ASSUME IInv, [Next]_vars PROVE OnTime
    OBVIOUS
  <2>t. TypeOK /\ RequestsOK
    BY DEF IInv
  <2>1. ASSUME NEW r \in Requests, Send(r) PROVE OnTime
    <3>1. outcome[r] = None
      BY <2>1, <2>t DEF Send, RequestsOK
    <3>2. \A e \in received' \ received : e.request = r
      BY <2>1 DEF Send
    <3> QED
      BY <3>1, <3>2
  <2>2. ASSUME UNCHANGED received PROVE OnTime
    BY <2>2
  <2> QED
    BY <2>1, <2>2 DEF Next, Step, Start, Connect, Close, Call, Drain, Receive, TimeOut, Signal, Abandon, Cancel,
                      Reply, Read, Break, vars, server
<1> QED
  BY Invariance, <1>1, PTL DEF Spec, NoLateSend

===============================================================================
