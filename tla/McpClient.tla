------------------------------- MODULE McpClient -------------------------------
(***************************************************************************)
(* The client of one stdio MCP server, src/app/mcp/client.py: the          *)
(* handshake at start-up, tool calls that wait for their responses, the    *)
(* reader loop, timeouts, cancellation and close.                          *)
(*                                                                         *)
(* A request takes the write lock, gets an id and a future, and is         *)
(* written; drain() may suspend it there.  Then it waits for the future,   *)
(* which the reader loop completes with the response of that id.  The      *)
(* server is outside: it answers what it received in any order, late,      *)
(* twice or never, and it may break the stream.                            *)
(*                                                                         *)
(* The cancellation of a task is one step with what the task does to       *)
(* end; "Wrong:" is as in module Runner.                                   *)
(***************************************************************************)
EXTENDS Naturals, Sequences, FiniteSets

CONSTANTS Calls,      \* tool calls
          Hello,      \* the requests of the handshake, as one
          None,
          MaxReplies  \* bound: messages of the server that were not read yet

Requests == Calls \union {Hello}
Outcomes == {"answered", "error", "timeout", "cancelled", "aborted"}

ASSUME McpAssumption ==
  /\ Hello \notin Calls
  /\ None \notin Requests \union Outcomes
  /\ IsFiniteSet(Calls)
  /\ MaxReplies \in Nat

VARIABLES link,      \* the manager's view of the server
          reader,    \* the reader loop is alive
          lastId,    \* _request_id
          id,        \* id of each request, 0 before it has one
          future,    \* state of its future
          pending,   \* _pending: ids, with the request whose future it is
          lock,      \* _write_lock
          phase,     \* where each request stands
          signal,    \* the cancellation signal of its run is set
          left,      \* the task that waited for it was itself cancelled
          outcome,   \* how it ended
          result,    \* the request that the response it got was made for
          received,  \* requests in the server's hands
          replies    \* responses on their way to the reader, by id and request

session == <<link, reader, lastId, pending, lock>>
request == <<id, future, phase, signal, left, outcome, result>>
server  == <<received, replies>>
vars    == <<session, request, server>>

Phases   == {"idle", "locking", "writing", "awaiting", "done"}
Futures  == {"none", "open", "set", "failed", "cancelled"}
Live(r)  == phase[r] \in {"locking", "writing", "awaiting"}

Init ==
  /\ link = "off" /\ reader = FALSE
  /\ lastId = 0 /\ pending = {} /\ lock = None
  /\ id      = [r \in Requests |-> 0]
  /\ future  = [r \in Requests |-> "none"]
  /\ phase   = [r \in Requests |-> "idle"]
  /\ signal  = [r \in Requests |-> FALSE]
  /\ left    = [r \in Requests |-> FALSE]
  /\ outcome = [r \in Requests |-> None]
  /\ result  = [r \in Requests |-> None]
  /\ received = {} /\ replies = <<>>

-------------------------------------------------------------------------------
(* Helpers.                                                                *)

Entry(r) == [id |-> id[r], request |-> r]

(* Futures of the entries; those that are done keep their state.           *)
Settle(entries, state) ==
  [r \in Requests |->
     IF future[r] = "open" /\ \E e \in entries : e.request = r THEN state ELSE future[r]]

(* _fail_pending. *)
FailPending ==
  /\ future' = Settle(pending, "failed")
  /\ pending' = {}

(* The request ends. *)
End(r, how) ==
  /\ phase' = [phase EXCEPT ![r] = "done"]
  /\ outcome' = [outcome EXCEPT ![r] = how]

(* Wrong: what is pending stays. *)
CloseKeepsPending ==
  /\ link' = "closed" /\ reader' = FALSE
  /\ future' = Settle(pending, "cancelled")
  /\ UNCHANGED pending

(* close(): futures are cancelled, the reader is, the process is gone.     *)
CloseSession ==
  /\ link' = "closed" /\ reader' = FALSE
  /\ future' = Settle(pending, "cancelled")
  /\ pending' = {}

-------------------------------------------------------------------------------
(* Start and close of the server's session, by the manager.                *)

(* The process is created, and the handshake begins; or it is not.         *)
Start ==
  /\ link = "off"
  /\ \/ /\ link' = "starting" /\ reader' = TRUE
        /\ phase' = [phase EXCEPT ![Hello] = "locking"]
     \/ /\ link' = "closed"
        /\ UNCHANGED <<reader, phase>>
  /\ UNCHANGED <<lastId, pending, lock, id, future, signal, left, outcome, result, server>>

(* start() goes on when the handshake has ended. *)
Connect ==
  /\ link = "starting" /\ phase[Hello] = "done"
  /\ IF outcome[Hello] = "answered"
       THEN link' = "connected" /\ UNCHANGED <<reader, future, pending>>
       ELSE CloseSession
  /\ UNCHANGED <<lastId, lock, id, phase, signal, left, outcome, result, server>>

(* Shutdown of the application. *)
Close ==
  /\ link = "connected"
  /\ CloseSession
  /\ UNCHANGED <<lastId, lock, id, phase, signal, left, outcome, result, server>>

-------------------------------------------------------------------------------
(* Requests.                                                               *)

(* call_tool; a server that is not connected has no session. *)
Call(r) ==
  /\ phase[r] = "idle" /\ r # Hello
  /\ IF link = "connected"
       THEN phase' = [phase EXCEPT ![r] = "locking"] /\ UNCHANGED outcome
       ELSE End(r, "error")
  /\ UNCHANGED <<session, id, future, signal, left, result, server>>

(* Wrong: the id is one that no pending request has. *)
NextFreeId == CHOOSE i \in 1..lastId + 1 : \A e \in pending : e.id # i

NextId == lastId + 1

(* The write lock is taken, the id and the future are made, and the        *)
(* message is written; without a process the write fails at once.          *)
Send(r) ==
  /\ phase[r] = "locking" /\ lock = None
  /\ lastId' = NextId
  /\ IF link # "closed"
       THEN /\ lock' = r
            /\ id' = [id EXCEPT ![r] = NextId]
            /\ future' = [future EXCEPT ![r] = "open"]
            /\ pending' = pending \union {[id |-> NextId, request |-> r]}
            /\ phase' = [phase EXCEPT ![r] = "writing"]
            /\ received' = received \union {[id |-> NextId, request |-> r]}
            /\ UNCHANGED outcome
       ELSE /\ End(r, "error")
            /\ UNCHANGED <<lock, id, future, pending, received>>
  /\ UNCHANGED <<link, reader, signal, left, result, replies>>

(* drain() returns or raises. *)
Drain(r) ==
  /\ phase[r] = "writing"
  /\ lock' = None
  /\ \/ /\ phase' = [phase EXCEPT ![r] = "awaiting"]
        /\ UNCHANGED <<pending, outcome>>
     \/ /\ pending' = pending \ {Entry(r)}
        /\ End(r, "error")
  /\ UNCHANGED <<link, reader, lastId, id, future, signal, left, result, server>>

(* The future is done, and the request gets to see it.  A cancelled one    *)
(* cancels the call itself.  A signal that is set too wins, unless the     *)
(* call came back first. *)
Receive(r) ==
  /\ phase[r] = "awaiting" /\ future[r] \in {"set", "failed", "cancelled"}
  /\ \/ future[r] = "set" /\ (End(r, "answered") \/ End(r, "error"))
     \/ future[r] = "failed" /\ End(r, "error")
     \/ future[r] = "cancelled" /\ End(r, "aborted")
     \/ signal[r] /\ ~left[r] /\ End(r, "cancelled")
  /\ pending' = pending \ {Entry(r)}
  /\ UNCHANGED <<link, reader, lastId, lock, id, future, signal, left, result, server>>

(* Wrong: a request whose reader is gone does not time out. *)
TimeOutIfRead(r) ==
  /\ phase[r] = "awaiting" /\ reader
  /\ future' = Settle({Entry(r)}, "cancelled")
  /\ pending' = pending \ {Entry(r)}
  /\ End(r, "timeout")
  /\ UNCHANGED <<link, reader, lastId, lock, id, signal, left, result, server>>

(* The timeout of the wait for the future. *)
TimeOut(r) ==
  /\ phase[r] = "awaiting"
  /\ future' = Settle({Entry(r)}, "cancelled")
  /\ pending' = pending \ {Entry(r)}
  /\ End(r, "timeout")
  /\ UNCHANGED <<link, reader, lastId, lock, id, signal, left, result, server>>

(* The run of a call is cancelled. *)
Signal(r) ==
  /\ Live(r) /\ r # Hello /\ ~signal[r]
  /\ signal' = [signal EXCEPT ![r] = TRUE]
  /\ UNCHANGED <<session, id, future, phase, left, outcome, result, server>>

(* The task of the run is cancelled while it waits: the client of its      *)
(* stream has gone.  asyncio.wait leaves the request alone, which is a     *)
(* task of its own: it goes on with nobody to take its result, and no      *)
(* signal gets to it any more. *)
Abandon(r) ==
  /\ Live(r) /\ r # Hello /\ ~left[r]
  /\ left' = [left EXCEPT ![r] = TRUE]
  /\ UNCHANGED <<session, id, future, phase, signal, outcome, result, server>>

(* Wrong: the task of the request is left alone. *)
CancelLeavesTask(r) ==
  /\ Live(r) /\ signal[r] /\ ~left[r]
  /\ outcome' = [outcome EXCEPT ![r] = "cancelled"]
  /\ phase' = IF phase[r] = "locking" THEN phase ELSE [phase EXCEPT ![r] = "done"]
  /\ pending' = IF phase[r] = "awaiting" THEN pending \ {Entry(r)} ELSE pending
  /\ lock' = IF lock = r THEN None ELSE lock
  /\ UNCHANGED <<link, reader, lastId, id, future, signal, left, result, server>>

(* _await_with_cancellation sees the signal and cancels the request.  The  *)
(* cancellation gets to it in the queue for the lock, in drain() (where    *)
(* the pending entry stays), or in its wait for the future.                *)
Cancel(r) ==
  /\ Live(r) /\ signal[r] /\ ~left[r]
  /\ End(r, "cancelled")
  /\ IF phase[r] = "awaiting"
       THEN /\ future' = Settle({Entry(r)}, "cancelled")
            /\ pending' = pending \ {Entry(r)}
       ELSE UNCHANGED <<future, pending>>
  /\ lock' = IF lock = r THEN None ELSE lock
  /\ UNCHANGED <<link, reader, lastId, id, signal, left, result, server>>

-------------------------------------------------------------------------------
(* The server, and the reader loop.                                        *)

Reply(e) ==
  /\ e \in received
  /\ Len(replies) < MaxReplies
  /\ replies' = Append(replies, e)
  /\ UNCHANGED <<received, session, request>>

(* The response of an id goes to the future that is pending under it.      *)
Read ==
  /\ reader /\ replies # <<>>
  /\ replies' = Tail(replies)
  /\ LET hits == {e \in pending : e.id = Head(replies).id}
     IN /\ pending' = pending \ hits
        /\ future' = Settle(hits, "set")
        /\ result' = [r \in Requests |->
             IF future[r] = "open" /\ \E e \in hits : e.request = r THEN Head(replies).request ELSE result[r]]
  /\ UNCHANGED <<link, reader, lastId, lock, id, phase, signal, left, outcome, received>>

(* The stream ends, or a line cannot be read: the reader loop ends too.    *)
Break ==
  /\ reader
  /\ reader' = FALSE
  /\ FailPending
  /\ UNCHANGED <<link, lastId, lock, id, phase, signal, left, outcome, result, server>>

-------------------------------------------------------------------------------
Step(r) == Send(r) \/ Drain(r) \/ Receive(r) \/ TimeOut(r)

Next ==
  \/ Start \/ Connect \/ Close
  \/ \E r \in Calls : Call(r)
  \/ \E r \in Requests : Step(r) \/ Signal(r) \/ Abandon(r) \/ Cancel(r)
  \/ \E e \in received : Reply(e)
  \/ Read \/ Break

Spec == Init /\ [][Next]_vars

(* The event loop runs a request that can go on, the timer fires, and      *)
(* drain() comes back: the server reads its input.  The lock is handed     *)
(* on in the order in which it was asked for.                              *)
FairSpec == Spec /\ \A r \in Requests : SF_vars(Step(r))

-------------------------------------------------------------------------------
Entries == [id : Nat, request : Requests]

(* Every variable has its type. *)
TypeOK ==
  /\ link \in {"off", "starting", "connected", "closed"}
  /\ reader \in BOOLEAN
  /\ lastId \in Nat
  /\ id \in [Requests -> Nat]
  /\ future \in [Requests -> Futures]
  /\ pending \subseteq Entries
  /\ lock \in Requests \union {None}
  /\ phase \in [Requests -> Phases]
  /\ signal \in [Requests -> BOOLEAN]
  /\ left \in [Requests -> BOOLEAN]
  /\ outcome \in [Requests -> Outcomes \union {None}]
  /\ result \in [Requests -> Requests \union {None}]
  /\ received \subseteq Entries
  /\ replies \in Seq(Entries)

(* A response is given to the request that it answers, also when it comes  *)
(* late, twice, or after the request has timed out or was cancelled.       *)
OwnResponse == \A r \in Requests : result[r] \in {r, None}

(* A request with an open future can be reached by its response, and what  *)
(* is pending is a request's that goes on, or that was cancelled while its *)
(* message was being written.                                              *)
PendingIsAwaited ==
  /\ \A r \in Requests : phase[r] \in {"writing", "awaiting"} /\ future[r] = "open" => Entry(r) \in pending
  /\ \A e \in pending :
       /\ id[e.request] = e.id /\ future[e.request] = "open"
       /\ phase[e.request] \in {"writing", "awaiting"} \/ outcome[e.request] = "cancelled"

(* Nothing is registered with a session that was closed, by the shutdown   *)
(* or by a handshake that failed, also by a request that came to its turn  *)
(* only then.                                                              *)
ClosedForGood == link = "closed" => pending = {} /\ ~reader

(* The strengthening that every step preserves: ids are given out once,    *)
(* and every entry that is about names its request by its id; a request    *)
(* has an id and a future since it was sent, and an outcome when it has    *)
(* ended; all wait for the start of the server.                            *)
IdsOK ==
  /\ \A r \in Requests : id[r] <= lastId
  /\ \A r, q \in Requests : id[r] = id[q] /\ id[r] # 0 => r = q
  /\ \A e \in received \union pending : e.id # 0 /\ id[e.request] = e.id
  /\ \A i \in DOMAIN replies : replies[i] \in received
RequestsOK ==
  /\ \A r \in Requests :
       /\ phase[r] \in {"idle", "locking"} => id[r] = 0 /\ future[r] = "none"
       /\ phase[r] = "done" <=> outcome[r] # None
  /\ link = "off" => phase[Hello] = "idle" /\ pending = {} /\ ~reader /\ \A r \in Requests : ~Live(r)

IInv == TypeOK /\ IdsOK /\ RequestsOK /\ OwnResponse /\ PendingIsAwaited /\ ClosedForGood

(* A request that has ended, by its answer, its failure, its timeout or    *)
(* the cancellation signal of its run, is not sent any more.  A request    *)
(* whose caller was itself cancelled has not ended: it may come to its     *)
(* turn for the lock, and be sent, when the run is long over. *)
NoLateSend ==
  [][\A e \in received' \ received : outcome[e.request] = None]_vars

(* Every tool call comes to its end, with or without a server that         *)
(* answers, and with or without a run that still waits for it. *)
CallsEnd == \A r \in Requests : Live(r) ~> phase[r] = "done"

===============================================================================
