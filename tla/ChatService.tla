------------------------------ MODULE ChatService ------------------------------
(***************************************************************************)
(* The HTTP requests of src/app/services/chat_service.py over one SQLite   *)
(* database, with the registry of active runs of                           *)
(* src/app/runtime/cancellation.py: chat, edit (plain and streamed),       *)
(* queue, deliver and cancel, in every interleaving one event loop allows. *)
(*                                                                         *)
(* A request owns a database session.  Its first write takes SQLite's      *)
(* write lock, which it keeps until it commits or rolls back; a second     *)
(* writer blocks the event loop until "database is locked" is raised, so   *)
(* that it always fails.  What the runner does between the start and the   *)
(* end of a run is module Runner; here a run has an outcome.               *)
(*                                                                         *)
(* "Wrong:" marks a definition with a mistake, see module Runner.          *)
(***************************************************************************)
CONSTANTS Requests,   \* HTTP requests, and the user messages they carry
          Sessions,   \* chat sessions
          None

VARIABLES db,          \* committed rows of each session
          writer,      \* the request that holds the write lock
          draft,       \* the rows of its session as its transaction has them
          phase,       \* where each request stands
          kind,        \* its endpoint
          session,     \* the session it is about
          root,        \* the root agent that it runs
          handle,      \* ActiveRunRegistry: the request whose run is registered
          signal,      \* the cancellation signal of a request's run
          completion,  \* the completion future of a request's run
          awaited,     \* the run whose completion a cancel awaits
          answer       \* what the client was answered

registry == <<handle, signal, completion>>
request  == <<phase, kind, session, root, awaited, answer>>
vars     == <<db, writer, draft, registry, request>>

Streams  == {"chat_stream", "edit_stream"}
Chats    == {"chat", "chat_stream"}
Edits    == {"edit", "edit_stream"}
Runs     == Chats \union Edits
Kinds    == Runs \union {"queue", "deliver", "cancel"}
AtRest   == {"waiting", "completed", "failed", "cancelled"}
Roots    == {"absent", "none", "running"} \union AtRest
Phases   == {"idle", "announced", "running", "dropped", "erroring", "awaiting", "done"}
Answers  == {"ok", "error", "lost"} \union Roots

ASSUME ChatServiceAssumption == None \notin Requests \union Sessions \union Kinds \union Answers

(* root: the root agent's status, "none" before the session has one and    *)
(* "absent" before it exists; agent: the root agent's id, a new one, named *)
(* here by the request that made the agent; queue: pending queued inputs;  *)
(* said: the user messages of the root's transcript; stray: an agent below *)
(* waits although the root does not (the root was cancelled after it had   *)
(* delegated).                                                             *)
Rows  == [root : Roots, agent : Requests \union {None}, queue : SUBSET Requests,
          said : SUBSET Requests, stray : BOOLEAN]
NoRow == [root |-> "absent", agent |-> None, queue |-> {}, said |-> {}, stray |-> FALSE]

(* The session event was sent and the run starts next; the run is going;   *)
(* the client of a stream is gone; its error event is being sent; a cancel *)
(* awaits the run.                                                         *)
InProgress(r) == phase[r] \notin {"idle", "done"}
Holds(r)      == phase[r] \in {"announced", "running"}

Init ==
  /\ db         = [s \in Sessions |-> NoRow]
  /\ writer     = None
  /\ draft      = NoRow
  /\ phase      = [r \in Requests |-> "idle"]
  /\ kind       = [r \in Requests |-> None]
  /\ session    = [r \in Requests |-> None]
  /\ root       = [r \in Requests |-> None]
  /\ handle     = [a \in Requests |-> None]
  /\ signal     = [r \in Requests |-> FALSE]
  /\ completion = [r \in Requests |-> None]
  /\ awaited    = [r \in Requests |-> None]
  /\ answer     = [r \in Requests |-> None]

-------------------------------------------------------------------------------
(* Transactions and the registry.                                          *)

(* The first write of a request; the lock is free. *)
Begin(r, row) ==
  /\ writer = None
  /\ writer' = r
  /\ draft' = row

Commit(r, row) ==
  /\ writer' = None
  /\ draft' = NoRow
  /\ db' = [db EXCEPT ![session[r]] = row]

(* Wrong: what was written is kept. *)
RollbackCommits(r) ==
  IF writer = r THEN Commit(r, [draft EXCEPT !.root = "failed"]) ELSE UNCHANGED <<db, writer, draft>>

(* session.rollback(), or close() of the request's database session.       *)
Rollback(r) ==
  /\ IF writer = r THEN writer' = None /\ draft' = NoRow ELSE UNCHANGED <<writer, draft>>
  /\ UNCHANGED db

(* The root agent of a run: that of the session, or a new one.             *)
RootAgent(r, s) == IF db[s].agent = None THEN r ELSE db[s].agent

(* The run that is registered for the root agent of a session, as other    *)
(* requests read the session.                                              *)
ActiveRun(s) == IF db[s].agent = None THEN None ELSE handle[db[s].agent]

(* ActiveRunRegistry.start refuses a second run for the same root agent.   *)
Register(r, a) ==
  /\ handle[a] = None
  /\ handle' = [handle EXCEPT ![a] = r]
  /\ UNCHANGED <<signal, completion>>

IsRegistered(r) == root[r] # None /\ handle[root[r]] = r

(* Wrong: the handle is kept; or the future is not completed. *)
FinishKeepsHandle(r, result) ==
  IF IsRegistered(r)
    THEN completion' = [completion EXCEPT ![r] = result] /\ UNCHANGED <<handle, signal>>
    ELSE UNCHANGED registry
FinishWithoutResult(r, result) ==
  IF IsRegistered(r)
    THEN handle' = [handle EXCEPT ![root[r]] = None] /\ UNCHANGED <<signal, completion>>
    ELSE UNCHANGED registry

(* ActiveRunRegistry.finish, for a request that has registered a run.      *)
Finish(r, result) ==
  IF IsRegistered(r)
    THEN /\ handle' = [handle EXCEPT ![root[r]] = None]
         /\ completion' = [completion EXCEPT ![r] = result]
         /\ UNCHANGED signal
    ELSE UNCHANGED registry

(* A request arrives. *)
Arrive(r, k, s, p) ==
  /\ phase[r] = "idle"
  /\ kind' = [kind EXCEPT ![r] = k]
  /\ session' = [session EXCEPT ![r] = s]
  /\ root' = [root EXCEPT ![r] = IF k \in Runs /\ p # "done" THEN RootAgent(r, s) ELSE None]
  /\ phase' = [phase EXCEPT ![r] = p]

(* It arrives and is answered at once. *)
ArriveAndAnswer(r, k, s, a) ==
  /\ Arrive(r, k, s, "done")
  /\ answer' = [answer EXCEPT ![r] = a]
  /\ UNCHANGED awaited

(* It is answered after all; or it takes up another phase. *)
Respond(r, a) ==
  /\ phase' = [phase EXCEPT ![r] = "done"]
  /\ answer' = [answer EXCEPT ![r] = a]
  /\ UNCHANGED <<kind, session, root, awaited>>
TakeUp(r, p) ==
  /\ phase' = [phase EXCEPT ![r] = p]
  /\ UNCHANGED <<kind, session, root, awaited, answer>>

-------------------------------------------------------------------------------
(* Requests that are turned down.  Nothing is written.                     *)

(* prepare_chat: the root waits, or the lock is taken. *)
MessageIsRefused(s) == db[s].root = "waiting" \/ writer # None

(* _prepare_edit_setup: no root agent, no user message to edit, an active  *)
(* run, or the lock is taken.                                              *)
EditIsRefused(s) ==
  \/ db[s].root \in {"absent", "none"}
  \/ db[s].said = {}
  \/ ActiveRun(s) # None
  \/ writer # None

(* _queue_session_input: only a waiting root takes a queued input (a       *)
(* running one is never committed).  deliver_result: only a waiting agent  *)
(* takes a result.                                                         *)
QueueIsRefused(s)    == db[s].root # "waiting" \/ writer # None
DeliveryIsRefused(s) == (db[s].root # "waiting" /\ ~db[s].stray) \/ writer # None

Refuse(r, k, s) ==
  /\ \/ k \in Chats /\ MessageIsRefused(s)
     \/ k = "chat" /\ ActiveRun(s) # None
     \/ k \in Edits /\ EditIsRefused(s)
     \/ k = "queue" /\ QueueIsRefused(s)
     \/ k = "deliver" /\ DeliveryIsRefused(s)
  /\ ArriveAndAnswer(r, k, s, "error")
  /\ UNCHANGED <<db, writer, draft, registry>>

(* A message for a new session: _load_session has committed the session    *)
(* row when a later check (agent template, attachments) fails.             *)
RefuseInNewSession(r, k, s) ==
  /\ k \in Chats
  /\ db[s].root = "absent" /\ writer = None
  /\ ArriveAndAnswer(r, k, s, "error")
  /\ db' = [db EXCEPT ![s].root = "none"]
  /\ UNCHANGED <<writer, draft, registry>>

-------------------------------------------------------------------------------
(* Requests that run the root agent.                                       *)

(* The rows of a session in which r's message was stored. *)
WithMessage(s, r) ==
  [db[s] EXCEPT !.root = "running", !.agent = RootAgent(r, s), !.said = @ \union {r}]

(* Wrong: the new session is committed together with its root agent. *)
SessionRowWithRoot(s) == IF db[s].root = "absent" THEN [db EXCEPT ![s].root = "running"] ELSE db

(* The session row that _load_session commits, if it is new. *)
SessionRow(s) == IF db[s].root = "absent" THEN [db EXCEPT ![s].root = "none"] ELSE db

(* process_chat up to the run: there is no suspension in between. *)
StartChat(r, s) ==
  /\ ~MessageIsRefused(s)
  /\ Arrive(r, "chat", s, "running")
  /\ Begin(r, WithMessage(s, r))
  /\ db' = SessionRow(s)
  /\ Register(r, RootAgent(r, s))
  /\ UNCHANGED <<awaited, answer>>

(* process_chat_stream up to its session event: the run is not registered  *)
(* yet, and whether it can be is not known.                                *)
AnnounceChat(r, s) ==
  /\ ~MessageIsRefused(s)
  /\ Arrive(r, "chat_stream", s, "announced")
  /\ Begin(r, WithMessage(s, r))
  /\ db' = SessionRow(s)
  /\ UNCHANGED <<registry, awaited, answer>>

(* After the event the run is registered, or the stream ends in an error. *)
StartStream(r) ==
  /\ phase[r] = "announced"
  /\ \/ /\ Register(r, root[r])
        /\ TakeUp(r, "running")
        /\ UNCHANGED <<db, writer, draft>>
     \/ /\ handle[root[r]] # None
        /\ Rollback(r)
        /\ TakeUp(r, "erroring")
        /\ UNCHANGED registry

(* process_edit and process_edit_stream up to the run: the transcript is   *)
(* cut behind the edited message, and the queue is cleared.                *)
StartEdit(r, k, s) ==
  /\ ~EditIsRefused(s)
  /\ Arrive(r, k, s, "running")
  /\ \E kept \in SUBSET db[s].said \ {{}} :
       Begin(r, [root |-> "running", agent |-> db[s].agent, queue |-> {}, said |-> kept, stray |-> FALSE])
  /\ Register(r, db[s].agent)
  /\ UNCHANGED <<db, awaited, answer>>

(* process_delivery to a waiting agent, the root or one below it.          *)
(* Its run is not registered.                                              *)
StartDelivery(r, s) ==
  /\ ~DeliveryIsRefused(s)
  /\ Arrive(r, "deliver", s, "running")
  /\ Begin(r, db[s])
  /\ UNCHANGED <<db, registry, awaited, answer>>

(* What a run can leave in the root's row.  A signal that is set while a   *)
(* stream sends its last provider event comes too late.                    *)
RootResults(r) ==
  IF signal[r]
    THEN {"waiting", "failed", "cancelled"} \union (IF kind[r] \in Streams THEN {"completed"} ELSE {})
    ELSE {"waiting", "failed", "completed"}

(* Wrong: the queue is left alone; or its messages do not get into the     *)
(* transcript.                                                             *)
RootRanKeepsQueue(r) ==
  {[draft EXCEPT !.root = st] : st \in RootResults(r)}
RootRanDropsQueue(r) ==
  {[draft EXCEPT !.root = st, !.queue = {}] : st \in RootResults(r)}

(* The root has run and has taken in the queue.  If it was cancelled after *)
(* it had delegated, an agent below may be left waiting.                   *)
RootRan(r) ==
  {[root |-> st, agent |-> draft.agent, queue |-> {}, said |-> draft.said \union draft.queue, stray |-> stray] :
     st \in RootResults(r),
     stray \in {draft.stray} \union {signal[r] /\ kind[r] \notin Streams}}

(* The result was delivered to an agent below, and the root did not run. *)
RootKept == {[draft EXCEPT !.stray = stray] : stray \in {FALSE, draft.stray}}

Outcomes(r) ==
  IF kind[r] # "deliver" THEN RootRan(r)
  ELSE RootKept \union (IF draft.root = "waiting" THEN RootRan(r) ELSE {})

(* The run comes back: the transaction is committed and the run's result   *)
(* completes its handle.                                                   *)
FinishRun(r) ==
  /\ phase[r] = "running"
  /\ \E row \in Outcomes(r) :
       /\ Commit(r, row)
       /\ Finish(r, row.root)
  /\ Respond(r, "ok")

(* The run raises.  A stream still has to send its error event.  An edit   *)
(* that is not streamed has not told process_edit about its handle: the    *)
(* handle stays.                                                           *)
RunRaises(r) ==
  /\ phase[r] = "running"
  /\ Rollback(r)
  /\ \/ kind[r] \in Streams /\ TakeUp(r, "erroring") /\ UNCHANGED registry
     \/ kind[r] = "chat" /\ Finish(r, "failed") /\ Respond(r, "error")
     \/ kind[r] \in {"edit", "deliver"} /\ Respond(r, "error") /\ UNCHANGED registry

(* The error event has been sent, or nobody is there to read it. *)
EndErrorStream(r) ==
  /\ phase[r] = "erroring"
  /\ Finish(r, "failed")
  /\ Respond(r, "error")
  /\ UNCHANGED <<db, writer, draft>>

(* The client of a stream disconnects: the task is cancelled inside the    *)
(* run, or the generator is dropped at a yield; then the database session  *)
(* is closed first and the generator is finalised later.                   *)
Disconnect(r) ==
  /\ kind[r] \in Streams /\ phase[r] \in {"announced", "running"}
  /\ Rollback(r)
  /\ \/ phase[r] = "running" /\ Finish(r, "cancelled") /\ Respond(r, "lost")
     \/ TakeUp(r, "dropped") /\ UNCHANGED registry

FinaliseStream(r) ==
  /\ phase[r] = "dropped"
  /\ Finish(r, "failed")
  /\ Respond(r, "lost")
  /\ UNCHANGED <<db, writer, draft>>

-------------------------------------------------------------------------------
(* Queue, cancel and restart.                                              *)

(* process_queue: one transaction without a suspension. *)
Queue(r, s) ==
  /\ ~QueueIsRefused(s)
  /\ ArriveAndAnswer(r, "queue", s, "ok")
  /\ db' = [db EXCEPT ![s].queue = @ \union {r}]
  /\ UNCHANGED <<writer, draft, registry>>

(* cancel_session_run: the run is looked up by the root agent that is      *)
(* committed; a session in its first run has none yet.  A run that is      *)
(* found gets its signal, and the cancel waits for its completion.         *)
Cancel(r, s) ==
  /\ IF ActiveRun(s) = None
       THEN /\ ArriveAndAnswer(r, "cancel", s, db[s].root)
            /\ UNCHANGED registry
       ELSE /\ Arrive(r, "cancel", s, "awaiting")
            /\ awaited' = [awaited EXCEPT ![r] = ActiveRun(s)]
            /\ signal' = [signal EXCEPT ![ActiveRun(s)] = TRUE]
            /\ UNCHANGED <<handle, completion, answer>>
  /\ UNCHANGED <<db, writer, draft>>

(* Wrong: the cancel does not wait for the run to come back. *)
CancelReturnsAtOnce(r) ==
  /\ phase[r] = "awaiting"
  /\ Respond(r, "cancelled")
  /\ UNCHANGED <<db, writer, draft, registry>>

(* The result with which the run finished is the answer. *)
CancelReturns(r) ==
  /\ phase[r] = "awaiting"
  /\ completion[awaited[r]] # None
  /\ Respond(r, completion[awaited[r]])
  /\ UNCHANGED <<db, writer, draft, registry>>

(* The server is killed and started again: only what is committed is left. *)
Restart ==
  /\ writer' = None /\ draft' = NoRow
  /\ handle' = [a \in Requests |-> None]
  /\ phase'  = [r \in Requests |-> IF InProgress(r) THEN "done" ELSE phase[r]]
  /\ answer' = [r \in Requests |-> IF InProgress(r) THEN "lost" ELSE answer[r]]
  /\ UNCHANGED <<db, signal, completion, kind, session, root, awaited>>

-------------------------------------------------------------------------------
(* What the event loop gets to for a request that is in progress. *)
Proceed(r) ==
  \/ StartStream(r) \/ FinishRun(r) \/ RunRaises(r) \/ EndErrorStream(r)
  \/ FinaliseStream(r) \/ CancelReturns(r)

Next ==
  \/ \E r \in Requests, s \in Sessions :
       \/ \E k \in Kinds : Refuse(r, k, s) \/ RefuseInNewSession(r, k, s)
       \/ StartChat(r, s) \/ AnnounceChat(r, s) \/ StartDelivery(r, s)
       \/ \E k \in Edits : StartEdit(r, k, s)
       \/ Queue(r, s) \/ Cancel(r, s)
  \/ \E r \in Requests : Proceed(r) \/ Disconnect(r)
  \/ Restart

Spec == Init /\ [][Next]_vars

(* The event loop runs every coroutine that can go on; a run comes back,   *)
(* see RequestEventuallyEnds of module Runner.                             *)
FairSpec == Spec /\ \A r \in Requests : WF_vars(Proceed(r))

-------------------------------------------------------------------------------
(* Every variable has its type. *)
TypeOK ==
  /\ db \in [Sessions -> Rows]
  /\ writer \in Requests \union {None}
  /\ draft \in Rows
  /\ phase \in [Requests -> Phases]
  /\ kind \in [Requests -> Kinds \union {None}]
  /\ session \in [Requests -> Sessions \union {None}]
  /\ root \in [Requests -> Requests \union {None}]
  /\ handle \in [Requests -> Requests \union {None}]
  /\ signal \in [Requests -> BOOLEAN]
  /\ completion \in [Requests -> Answers \union {None}]
  /\ awaited \in [Requests -> Requests \union {None}]
  /\ answer \in [Requests -> Answers \union {None}]

(* Whenever the server is killed, no session is left with a root agent in  *)
(* state running: only finished runs are committed, so that a restart      *)
(* needs no recovery.                                                      *)
CommittedAtRest ==
  /\ TypeOK
  /\ \A s \in Sessions : db[s].root # "running"

(* One run at most is going, and it alone holds the write lock: a stream   *)
(* that was dropped or failed holds nothing.  The run of a chat or an edit *)
(* has the handle of its root agent, so that a cancel finds it, except in  *)
(* the first run of a session, whose root agent is not committed: then a   *)
(* cancel finds no other run either.  A handle belongs to a run of that    *)
(* agent that is still being served, or to an edit whose run raised, and a *)
(* cancel waits only for a run that has its handle (ActiveRunRegistry).    *)
RunsAreRegistered ==
  /\ \A r \in Requests : Holds(r) <=> writer = r
  /\ \A r \in Requests :
       phase[r] = "running" /\ kind[r] \in Runs =>
         /\ IsRegistered(r) /\ draft.agent = root[r]
         /\ ActiveRun(session[r]) = IF root[r] = r THEN None ELSE r
  /\ \A a \in Requests : handle[a] # None =>
       LET r == handle[a]
       IN /\ root[r] = a /\ completion[r] = None
          /\ InProgress(r) \/ (kind[r] = "edit" /\ answer[r] = "error")
  /\ \A c \in Requests : phase[c] = "awaiting" =>
       LET r == awaited[c]
       IN completion[r] = None => IsRegistered(r)

(* A queued message waits only in a session whose root waits too: no run   *)
(* that ends leaves a message in the queue that nothing will take out.     *)
QueueIsServed ==
  \A s \in Sessions : db[s].queue # {} => db[s].root = "waiting"

(* A message whose request failed, or lost its client, is stored nowhere:  *)
(* a user who sends it again does not say it twice.                        *)
NoGhostMessages ==
  \A r \in Requests, s \in Sessions :
    answer[r] \in {"error", "lost"} => r \notin db[s].queue \union db[s].said

(* A cancel is answered only after the run it cancelled has come back and  *)
(* has released the lock, so that the user's next message is not refused   *)
(* because of it.                                                          *)
CancelOutlastsRun ==
  \A c \in Requests :
    phase[c] = "done" /\ awaited[c] # None /\ answer[c] # "lost" => ~Holds(awaited[c])

(* A message that was acknowledged is stored, in the transcript or in the  *)
(* queue, and only an edit that succeeds takes a stored message away.      *)
MessagesAreKept ==
  [][/\ \A r \in Requests :
          answer[r] # "ok" /\ answer'[r] = "ok" /\ kind'[r] \in Chats \union {"queue"} =>
            r \in db'[session'[r]].queue \union db'[session'[r]].said
     /\ \A s \in Sessions :
          \/ db[s].queue \union db[s].said \subseteq db'[s].queue \union db'[s].said
          \/ \E r \in Requests :
               kind[r] \in Edits /\ session[r] = s /\ answer[r] # "ok" /\ answer'[r] = "ok"]_vars

(* Every request is answered, and a cancel that waits for a run that is no *)
(* plain edit is answered too (registry.cancel awaits the completion that  *)
(* finish sets on every way out).                                          *)
RequestsAreAnswered ==
  \A r \in Requests :
    /\ InProgress(r) /\ kind[r] # "cancel" ~> ~InProgress(r)
    /\ phase[r] = "awaiting" /\ kind[awaited[r]] # "edit" ~> phase[r] = "done"

-------------------------------------------------------------------------------
(* What the documents of the repository ask for, and the code does not do. *)

(* The registry is cleared after every run ("posprzatac rejestr aktywnych  *)
(* runow i zadbac o brak wycieku stanu"): a handle has a run.              *)
NoLeakedHandle == \A a \in Requests : handle[a] # None => InProgress(handle[a])

===============================================================================
