------------------------------- MODULE StreamRun -------------------------------
(***************************************************************************)
(* One streamed run, from the provider's socket to the client:             *)
(* OpenRouterProvider.stream of src/app/providers/openrouter_provider.py   *)
(* with its reader thread, Runner.run_agent_stream of                      *)
(* src/app/runtime/runner.py, and process_chat_stream around it.           *)
(*                                                                         *)
(* A thread reads the response and puts events into a queue; the run takes *)
(* them out, keeps what has to be kept, and hands each on to the client,   *)
(* who may be slow or leave.  Then it executes the tool calls of the       *)
(* response, whose events the client gets after the turn.  A cancel may    *)
(* come whenever the run is suspended: in its wait for the queue, in a     *)
(* tool, and while something is being sent.                                *)
(*                                                                         *)
(* A text is a number of pieces, and a call is one piece; calls come in    *)
(* the order of their indices.  "Wrong:" is as in module Runner.           *)
(***************************************************************************)
EXTENDS Naturals, Sequences, FiniteSets

CONSTANTS Calls,      \* tool calls that the model may make
          None,
          MaxTurns,   \* settings.MAX_TURNS
          MaxText     \* bound: pieces of text in one response

ASSUME StreamRunAssumption ==
  /\ None \notin Calls
  /\ MaxTurns \in Nat /\ MaxText \in Nat

VARIABLES reader,     \* the reader thread is at work
          read,       \* _StreamState: what it has read of the response
          cut,        \* it has stopped half way, because of the signal
          queue,      \* events that the run did not take out yet
          pc,         \* where the run stands
          hand,       \* the event that it has taken out and not looked at yet
          partial,    \* partial_text_chunks: how many pieces
          response,   \* what the done event brought
          todo,       \* calls of the response that were not executed yet
          waits,      \* calls that wait for somebody
          buffer,     \* tool_stream_buffer
          turns,      \* turns_executed
          status,     \* the agent's status in the transaction
          stored,     \* items of this run in the transaction, by sequence
          shown,      \* events that the client was sent
          signal,     \* the cancellation signal
          result      \* how the run has ended, for those that wait for it

stream == <<reader, read, cut, queue>>
turn   == <<hand, partial, response, todo, waits, buffer>>
rows   == <<status, stored>>
vars   == <<stream, turn, rows, pc, turns, shown, signal, result>>

(* An event or an item belongs to a turn; of is the number of a piece, the *)
(* length of a text, or a call.                                            *)
About(type, of) == [type |-> type, turn |-> turns, of |-> of]
Mark(type)      == About(type, None)
FromProvider    == {"text", "text_done", "call", "call_done", "done"}

(* "taken": an event was taken out; "over": the stream is used up; "tools" *)
(* and "tool": between two calls and in one; "failing" and "escaping": the *)
(* error of a run that failed or raised is sent.                           *)
PCs == {"turn", "waiting", "taken", "sending", "over", "tools", "tool", "draining",
        "failing", "escaping", "ended"}

Empty == [text |-> 0, calls |-> <<>>]

Init ==
  /\ reader = FALSE /\ read = Empty /\ cut = FALSE /\ queue = <<>>
  /\ hand = None /\ partial = 0 /\ response = None
  /\ todo = <<>> /\ waits = {} /\ buffer = <<>>
  /\ pc = "turn" /\ turns = 0
  /\ status = "running" /\ stored = <<>>
  /\ shown = {} /\ signal = FALSE /\ result = None

-------------------------------------------------------------------------------
(* The thread that reads the response.                                     *)

Put(events) == queue' = queue \o events

ReadText ==
  /\ reader
  /\ read.text < MaxText
  /\ read' = [read EXCEPT !.text = @ + 1]
  /\ Put(<<About("text", read.text + 1)>>)
  /\ UNCHANGED <<reader, cut, turn, rows, pc, turns, shown, signal, result>>

(* Call ids are not used twice. *)
ReadCall(c) ==
  /\ reader
  /\ c \notin {read.calls[i] : i \in DOMAIN read.calls} \union {stored[i].of : i \in DOMAIN stored}
  /\ read' = [read EXCEPT !.calls = Append(@, c)]
  /\ Put(<<About("call", c)>>)
  /\ UNCHANGED <<reader, cut, turn, rows, pc, turns, shown, signal, result>>

(* _finalize_stream_state: text and calls once more, and the response. *)
Final ==
  (IF read.text = 0 THEN <<>> ELSE <<About("text_done", read.text)>>)
    \o [i \in DOMAIN read.calls |-> About("call_done", read.calls[i])]
    \o <<Mark("done"), Mark("finished")>>

(* The response ends; or the thread sees the signal before the next line,  *)
(* and what it has read passes for the response.                           *)
EndResponse ==
  /\ reader
  /\ reader' = FALSE
  /\ cut' \in {FALSE, signal}
  /\ Put(Final)
  /\ UNCHANGED <<read, turn, rows, pc, turns, shown, signal, result>>

(* The request fails, the provider reports an error, or sends no JSON. *)
FailResponse ==
  /\ reader
  /\ reader' = FALSE
  /\ Put(<<Mark("error"), Mark("finished")>>)
  /\ UNCHANGED <<read, cut, turn, rows, pc, turns, shown, signal, result>>

-------------------------------------------------------------------------------
(* How a run ends.                                                         *)

Show(event) == shown' = shown \union {event}

(* The generator returns, and the service commits. *)
Finish(st) == status' = st /\ result' = st /\ pc' = "ended"

(* The run fails, and sends an error before it returns. *)
Fail ==
  /\ status' = "failed" /\ pc' = "failing"
  /\ Show(Mark("error"))
  /\ UNCHANGED result

(* An exception that run_agent_stream does not catch: the service rolls    *)
(* back and sends an error.                                                *)
Escape ==
  /\ status' = "lost" /\ stored' = <<>> /\ pc' = "escaping"
  /\ Show(Mark("error"))
  /\ UNCHANGED result

(* store_partial_text_once, of so many pieces. *)
StorePartial(pieces) ==
  stored' = IF response # None \/ pieces = 0 THEN stored ELSE Append(stored, About("text", pieces))

(* Up to the provider call: the run was cancelled, has had its turns or    *)
(* has no provider, or the request cannot be built.                        *)
StartTurn ==
  /\ pc = "turn"
  /\ \/ signal /\ Finish("cancelled") /\ UNCHANGED <<stream, turn, stored, shown>>
     \/ ~signal /\ Fail /\ UNCHANGED <<stream, turn, stored>>
     \/ ~signal /\ turns < MaxTurns /\ Escape /\ UNCHANGED <<stream, turn>>
     \/ /\ ~signal /\ turns < MaxTurns
        /\ reader' = TRUE /\ read' = Empty /\ queue' = <<>>
        /\ partial' = 0 /\ response' = None
        /\ pc' = "waiting"
        /\ UNCHANGED <<cut, hand, todo, waits, buffer, rows, result, shown>>
  /\ UNCHANGED <<turns, signal>>

-------------------------------------------------------------------------------
(* The events of a response.                                               *)

(* Wrong: an event that is there comes before the signal. *)
TakeFirst ==
  /\ pc = "waiting" /\ queue # <<>>
  /\ queue' = Tail(queue)
  /\ IF Head(queue).type = "finished"
       THEN pc' = "over" /\ UNCHANGED hand
       ELSE pc' = "taken" /\ hand' = Head(queue)
  /\ UNCHANGED <<reader, read, cut, partial, response, todo, waits, buffer, rows, turns, shown, signal, result>>

(* The wait for the queue is over; the signal may still be set before the  *)
(* event is looked at.                                                     *)
Take ==
  /\ pc = "waiting" /\ ~signal /\ queue # <<>>
  /\ queue' = Tail(queue)
  /\ IF Head(queue).type = "finished"
       THEN pc' = "over" /\ UNCHANGED hand
       ELSE pc' = "taken" /\ hand' = Head(queue)
  /\ UNCHANGED <<reader, read, cut, partial, response, todo, waits, buffer, rows, turns, shown, signal, result>>

(* Wrong: the wait looks at the queue only. *)
WakeIfQueued ==
  /\ pc = "waiting" /\ signal /\ queue # <<>>
  /\ pc' = "over"
  /\ UNCHANGED <<stream, turn, rows, turns, shown, signal, result>>

(* The signal wakes the wait: provider.stream returns as if it were over.  *)
Wake ==
  /\ pc = "waiting" /\ signal
  /\ pc' = "over"
  /\ UNCHANGED <<stream, turn, rows, turns, shown, signal, result>>

Stop(pieces, st) ==
  /\ StorePartial(pieces)
  /\ Finish(st)
  /\ UNCHANGED <<response, shown>>

SendOn ==
  /\ response' = IF hand.type = "done" THEN read ELSE response
  /\ Show(hand)
  /\ pc' = "sending"
  /\ UNCHANGED <<rows, result>>

(* Wrong: the signal is not looked at. *)
LookNot ==
  /\ pc = "taken"
  /\ partial' = IF hand.type = "text" THEN partial + 1 ELSE partial
  /\ SendOn
  /\ hand' = None
  /\ UNCHANGED <<stream, todo, waits, buffer, turns, signal>>

(* An event that was taken out: a piece of text is kept first, the signal  *)
(* is looked at next, and then the event counts and is sent.  An error     *)
(* ends the run, and is not sent.                                          *)
Look ==
  /\ pc = "taken"
  /\ LET pieces == IF hand.type = "text" THEN partial + 1 ELSE partial
     IN /\ partial' = pieces
        /\ \/ signal /\ Stop(pieces, "cancelled")
           \/ ~signal /\ hand.type = "error" /\ Stop(pieces, "failed")
           \/ ~signal /\ hand.type # "error" /\ SendOn
  /\ hand' = None
  /\ UNCHANGED <<stream, todo, waits, buffer, turns, signal>>

(* Wrong: what was sent is not kept. *)
SentForgets ==
  /\ pc = "sending"
  /\ IF signal THEN Finish("cancelled") ELSE pc' = "waiting" /\ UNCHANGED <<status, result>>
  /\ UNCHANGED <<stream, turn, stored, turns, shown, signal>>

(* It was sent, and the run asks for the next one. *)
Sent ==
  /\ pc = "sending"
  /\ \/ signal /\ Stop(partial, "cancelled")
     \/ ~signal /\ pc' = "waiting" /\ UNCHANGED <<rows, response, shown, result>>
  /\ UNCHANGED <<stream, hand, partial, todo, waits, buffer, turns, signal>>

-------------------------------------------------------------------------------
(* What follows a response.                                                *)

(* store_provider_output. *)
OutputItems ==
  (IF response.text = 0 THEN <<>> ELSE <<About("text", response.text)>>)
    \o [i \in DOMAIN response.calls |-> About("call", response.calls[i])]

(* A stream that is over without a response fails.  The tool calls of a    *)
(* response come next; without any the run has completed.                  *)
Over ==
  /\ pc = "over"
  /\ \/ response = None /\ StorePartial(partial) /\ Fail /\ UNCHANGED todo
     \/ response # None /\ signal /\ Escape /\ UNCHANGED todo
     \/ /\ response # None /\ ~signal
        /\ stored' = stored \o OutputItems
        /\ todo' = response.calls
        /\ IF todo' = <<>> THEN Finish("completed") ELSE pc' = "tools" /\ UNCHANGED <<status, result>>
        /\ UNCHANGED shown
  /\ UNCHANGED <<stream, hand, partial, response, waits, buffer, turns, signal>>

BeginCall ==
  /\ pc = "tools" /\ todo # <<>>
  /\ \/ signal /\ Escape /\ UNCHANGED buffer
     \/ /\ ~signal
        /\ buffer' = Append(buffer, About("tool_called", Head(todo)))
        /\ pc' = "tool"
        /\ UNCHANGED <<rows, shown, result>>
  /\ UNCHANGED <<stream, hand, partial, response, todo, waits, turns, signal>>

(* A tool, an MCP server or a child agent has come back.  With the signal  *)
(* set only an MCP call that failed has its output stored.                 *)
EndCall ==
  /\ pc = "tool"
  /\ \/ signal /\ Escape /\ UNCHANGED <<todo, waits, buffer>>
     \/ /\ \/ stored' = Append(stored, About("output", Head(todo))) /\ UNCHANGED waits
           \/ ~signal /\ waits' = waits \union {Head(todo)} /\ UNCHANGED stored
        /\ buffer' = Append(buffer, About("tool_ended", Head(todo)))
        /\ todo' = Tail(todo)
        /\ pc' = "tools"
        /\ UNCHANGED <<status, shown, result>>
  /\ UNCHANGED <<stream, hand, partial, response, turns, signal>>

(* The events of the tools are sent, one by one. *)
Drain ==
  /\ pc \in {"tools", "draining"} /\ todo = <<>> /\ buffer # <<>>
  /\ Show(Head(buffer))
  /\ buffer' = Tail(buffer)
  /\ pc' = "draining"
  /\ UNCHANGED <<stream, hand, partial, response, todo, waits, rows, turns, signal, result>>

(* Wrong: a run that is to wait leaves the events behind. *)
EndTurnEarly ==
  /\ pc = "draining" /\ (buffer = <<>> \/ waits # {})
  /\ IF waits # {} THEN Finish("waiting") ELSE pc' = "turn" /\ UNCHANGED <<status, result>>
  /\ turns' = turns + 1
  /\ UNCHANGED <<stream, turn, stored, shown, signal>>

EndTurn ==
  /\ pc = "draining" /\ buffer = <<>>
  /\ IF waits # {} THEN Finish("waiting") ELSE pc' = "turn" /\ UNCHANGED <<status, result>>
  /\ turns' = turns + 1
  /\ UNCHANGED <<stream, turn, stored, shown, signal>>

(* The error was sent. *)
EndError ==
  /\ pc \in {"failing", "escaping"}
  /\ result' = "failed" /\ pc' = "ended"
  /\ UNCHANGED <<stream, turn, rows, turns, shown, signal>>

-------------------------------------------------------------------------------
(* From outside.                                                           *)

Suspended == pc \notin {"tools", "ended"}

Cancel ==
  /\ Suspended /\ ~signal
  /\ signal' = TRUE
  /\ UNCHANGED <<stream, turn, rows, pc, turns, shown, result>>

(* The client leaves: the task is cancelled, or the generator is dropped.  *)
Leave ==
  /\ Suspended
  /\ status' = "lost" /\ stored' = <<>> /\ pc' = "ended"
  /\ result' \in IF pc = "escaping" THEN {"failed"} ELSE {"cancelled", "failed"}
  /\ UNCHANGED <<stream, turn, turns, shown, signal>>

-------------------------------------------------------------------------------
Read == ReadText \/ (\E c \in Calls : ReadCall(c)) \/ EndResponse \/ FailResponse
Run  == StartTurn \/ Take \/ Wake \/ Look \/ Sent \/ Over \/ BeginCall \/ EndCall \/ Drain \/ EndTurn \/ EndError
Next == Read \/ Run \/ Cancel \/ Leave

Spec == Init /\ [][Next]_vars

(* The event loop runs the coroutine, a tool comes back, and what is sent  *)
(* is received, or the client has left.  Nothing is assumed of the thread: *)
(* the provider may hang.                                                  *)
FairSpec == Spec /\ WF_vars(Run)

-------------------------------------------------------------------------------
Ofs    == Nat \union Calls \union {None}
Events == [type : FromProvider \union {"error", "finished", "tool_called", "tool_ended"}, turn : 0..MaxTurns, of : Ofs]
Items  == [type : {"text", "call", "output"}, turn : 0..MaxTurns, of : Ofs]
Reads  == [text : 0..MaxText, calls : Seq(Calls)]

(* None is no event and no response. *)
ASSUME NoneIsNothing == None \notin Events \union Reads

(* Every variable has its type. *)
TypeOK ==
  /\ reader \in BOOLEAN /\ cut \in BOOLEAN /\ signal \in BOOLEAN
  /\ read \in Reads /\ response \in Reads \union {None}
  /\ queue \in Seq(Events) /\ buffer \in Seq(Events) /\ hand \in Events \union {None}
  /\ partial \in 0..MaxText
  /\ todo \in Seq(Calls) /\ waits \in SUBSET Calls
  /\ pc \in PCs /\ turns \in 0..MaxTurns
  /\ status \in {"running", "waiting", "completed", "failed", "cancelled", "lost"}
  /\ stored \in Seq(Items) /\ shown \in SUBSET Events
  /\ result \in {None, "waiting", "completed", "failed", "cancelled"}

(* A response that the reader thread has cut off, because it saw the       *)
(* signal first, is never taken out for the model's: no tool is called     *)
(* with what had come of its arguments.                                    *)
NoHalfResponse == TypeOK /\ (cut => response = None /\ hand # Mark("done"))

(* After a cancel the client gets nothing more of the model's. *)
SilentAfterCancel ==
  [][signal => \A e \in shown' \ shown : e.type \notin FromProvider]_vars

Committed == pc = "ended" /\ status # "lost"

ShownOf(type)  == {e.of : e \in {f \in shown : f.type = type}}
StoredOf(type) == {stored[i].of : i \in {j \in DOMAIN stored : stored[j].type = type}}

(* The text that the client has seen of a turn is stored, once, and no     *)
(* more than the one piece that was in hand is stored beside it; unless    *)
(* the run was cancelled after the client had got the whole response.      *)
TextIsKept ==
  Committed => \A t \in 0..MaxTurns :
    LET pieces == {e \in shown : e.type = "text" /\ e.turn = t}
        items  == {i \in DOMAIN stored : stored[i].type = "text" /\ stored[i].turn = t}
    IN /\ \A i \in items : stored[i].of - Cardinality(pieces) \in {0, 1} /\ items = {i}
       /\ items = {} => pieces = {} \/ (status = "cancelled" /\ \E e \in shown : e.type = "done" /\ e.turn = t)

(* The tool events of a run that is committed tell its transcript: each    *)
(* call was shown when it began and when it ended, and has an output or is *)
(* waited for.                                                             *)
ToolEventsMatch ==
  Committed =>
    /\ ShownOf("tool_called") = StoredOf("call")
    /\ ShownOf("tool_ended") = StoredOf("call")
    /\ StoredOf("output") \union waits = StoredOf("call")

(* A cancel ends the run, also while the provider sends nothing. *)
CancelEndsRun == signal ~> pc = "ended"

-------------------------------------------------------------------------------
(* What the documents of the repository ask for, and the code does not do. *)

(* "An active run becomes cancelled, and not failed" ("aktywny run         *)
(* przechodzi do cancelled, a nie failed").                                *)
CancelIsNotFailure ==
  [][signal /\ status = "running" => status' # "failed"]_vars

===============================================================================
