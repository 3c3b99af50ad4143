--------------------------- MODULE ChatService_proofs ---------------------------
(***************************************************************************)
(* Theorems about ChatService, for any number of requests and sessions.    *)
(* The invariant adds to the properties what a request may be in each of   *)
(* its phases, and how far a transaction may be from what is committed.    *)
(***************************************************************************)
EXTENDS ChatService, TLAPS

USE ChatServiceAssumption DEF ChatServiceAssumption

(* A request has its endpoint and its session since it arrived, an answer  *)
(* when it is over, and a result of its run not before.                    *)
RequestOK(r) ==
  /\ phase[r] = "idle" => kind[r] = None /\ session[r] = None /\ awaited[r] = None
  /\ phase[r] # "idle" => kind[r] \in Kinds /\ session[r] \in Sessions
  /\ phase[r] = "announced" => kind[r] = "chat_stream"
  /\ phase[r] = "running" => kind[r] \in Runs \union {"deliver"}
  /\ phase[r] \in {"dropped", "erroring"} => kind[r] \in Streams
  /\ phase[r] = "awaiting" => kind[r] = "cancel" /\ awaited[r] # None
  /\ answer[r] # None => phase[r] = "done"
  /\ completion[r] # None => phase[r] = "done"
  /\ awaited[r] # None => kind[r] = "cancel" /\ phase[awaited[r]] # "idle"
  /\ root[r] # None => kind[r] \in Runs
  /\ phase[r] \notin {"idle", "done"} /\ kind[r] \in Runs => root[r] # None
RequestsOK == \A r \in Requests : RequestOK(r)

(* Only runs that can be registered are. *)
HandlesOK == \A a \in Requests : handle[a] # None => kind[handle[a]] \in Runs

(* A session has a root agent's id as soon as it has the agent, and that   *)
(* of a request that has come to its end; who has the transaction runs     *)
(* that agent, or a new one.                                               *)
AgentsOK ==
  /\ \A s \in Sessions :
       /\ db[s].agent = None <=> db[s].root \in {"absent", "none"}
       /\ db[s].agent # None => phase[db[s].agent] = "done"
  /\ \A w \in Requests : writer = w =>
       /\ kind[w] \in Runs => root[w] = RootAgent(w, session[w]) /\ draft.agent = root[w]
       /\ kind[w] = "deliver" => draft = db[session[w]]

(* What a transaction says of a session differs from what is committed by  *)
(* the message of a chat, or by what an edit takes away.                   *)
DraftOK ==
  \A w \in Requests : writer = w =>
    LET s == session[w]
    IN /\ kind[w] \in Chats => /\ draft.said = db[s].said \union {w}
                               /\ draft.queue = db[s].queue
       /\ kind[w] \in Edits => draft.said \subseteq db[s].said /\ draft.queue = {}
       /\ kind[w] = "deliver" => draft = db[s]

(* A message that is committed was acknowledged. *)
StoredOK ==
  \A r \in Requests, s \in Sessions :
    r \in db[s].queue \union db[s].said => answer[r] = "ok"

RestOK == \A s \in Sessions : db[s].root # "running"

IInv ==
  /\ TypeOK /\ RequestsOK /\ HandlesOK /\ AgentsOK /\ DraftOK /\ StoredOK
  /\ RestOK /\ RunsAreRegistered /\ QueueIsServed /\ CancelOutlastsRun

-------------------------------------------------------------------------------
(* Types.                                                                  *)

RowsTyped     == db \in [Sessions -> Rows] /\ writer \in Requests \union {None} /\ draft \in Rows
RegistryTyped == /\ handle \in [Requests -> Requests \union {None}]
                 /\ signal \in [Requests -> BOOLEAN]
                 /\ completion \in [Requests -> Answers \union {None}]
RequestTyped  == /\ phase \in [Requests -> Phases]
                 /\ kind \in [Requests -> Kinds \union {None}]
                 /\ session \in [Requests -> Sessions \union {None}]
                 /\ root \in [Requests -> Requests \union {None}]
                 /\ awaited \in [Requests -> Requests \union {None}]
                 /\ answer \in [Requests -> Answers \union {None}]

(* The type invariant in three parts: rows, registry and requests. *)
LEMMA TypeParts ==
  /\ TypeOK <=> RowsTyped /\ RegistryTyped /\ RequestTyped
  /\ TypeOK' <=> RowsTyped' /\ RegistryTyped' /\ RequestTyped'
BY DEF TypeOK, RowsTyped, RegistryTyped, RequestTyped

(* The rows that a run can leave are rows, and its result is an answer. *)
LEMMA OutcomeType ==
  ASSUME TypeOK, NEW r \in Requests, NEW row \in Outcomes(r)
  PROVE  row \in Rows /\ row.root \in Answers
<1>1. RootResults(r) \subseteq Roots
  BY DEF RootResults, Roots, AtRest
<1>2. draft \in [root : Roots, agent : Requests \union {None}, queue : SUBSET Requests,
                 said : SUBSET Requests, stray : BOOLEAN]
  BY DEF TypeOK, Rows
<1> DEFINE strays == {draft.stray} \union {signal[r] /\ kind[r] \notin Streams}
<1>3. strays \subseteq BOOLEAN
  BY <1>2, Zenon
<1>4. RootRan(r) \subseteq Rows
  <2>1. RootRan(r) = {[root |-> st, agent |-> draft.agent, queue |-> {}, said |-> draft.said \union draft.queue, stray |-> stray] :
                        st \in RootResults(r), stray \in strays}
    BY DEF RootRan
  <2> HIDE DEF strays
  <2> QED
    BY <1>1, <1>2, <1>3, <2>1 DEF Rows
<1> DEFINE kept == {FALSE, draft.stray}
<1>5. kept \subseteq BOOLEAN
  BY <1>2, Zenon
<1>6. RootKept \subseteq Rows
  <2>1. RootKept = {[draft EXCEPT !.stray = stray] : stray \in kept}
    BY DEF RootKept
  <2> HIDE DEF kept
  <2> QED
    BY <1>2, <1>5, <2>1 DEF Rows
<1>7. row \in Rows
  BY <1>4, <1>6 DEF Outcomes
<1> QED
  BY <1>7 DEF Rows, Answers

(* A step keeps the types. *)
LEMMA TypeStep == TypeOK /\ RequestsOK /\ [Next]_vars => TypeOK'
<1> SUFFICES ASSUME TypeOK, RequestsOK, [Next]_vars PROVE TypeOK'
  OBVIOUS
<1>p. /\ RowsTyped /\ RegistryTyped /\ RequestTyped
      /\ RowsTyped' /\ RegistryTyped' /\ RequestTyped' => TypeOK'
  BY TypeParts
<1>k. /\ Chats \subseteq Kinds /\ Edits \subseteq Kinds /\ NoRow \in Rows
      /\ {"queue", "deliver", "cancel", "chat", "chat_stream"} \subseteq Kinds
      /\ {"announced", "running", "dropped", "erroring", "awaiting", "done"} \subseteq Phases
      /\ {"ok", "error", "lost", "failed", "cancelled"} \subseteq Answers /\ Roots \subseteq Answers
      /\ {"none", "running"} \subseteq Roots
  BY DEF Kinds, Runs, Chats, Edits, Phases, Answers, Roots, AtRest, Rows, NoRow
<1>d. /\ UNCHANGED <<db, writer, draft>> => RowsTyped'
      /\ UNCHANGED registry => RegistryTyped'
      /\ UNCHANGED request => RequestTyped'
  BY <1>p DEF RowsTyped, registry, RegistryTyped, request, RequestTyped
<1>r. ASSUME NEW r \in Requests, NEW s \in Sessions PROVE RootAgent(r, s) \in Requests
  BY <1>p DEF RootAgent, RowsTyped, Rows
<1>a. ASSUME NEW r \in Requests, NEW k \in Kinds, NEW s \in Sessions, NEW p \in Phases,
             Arrive(r, k, s, p), UNCHANGED <<awaited, answer>>
      PROVE  RequestTyped'
  BY <1>a, <1>p, <1>r DEF Arrive, RequestTyped
<1>b. ASSUME NEW r \in Requests, NEW k \in Kinds, NEW s \in Sessions, NEW a \in Answers,
             ArriveAndAnswer(r, k, s, a)
      PROVE  RequestTyped'
  BY <1>b, <1>p, <1>k, <1>r DEF ArriveAndAnswer, Arrive, RequestTyped
<1>c. ASSUME NEW r \in Requests, NEW a \in Answers, Respond(r, a)
      PROVE  RequestTyped'
  BY <1>c, <1>p, <1>k DEF Respond, RequestTyped
<1>e. ASSUME NEW r \in Requests, NEW p \in Phases, TakeUp(r, p)
      PROVE  RequestTyped'
  BY <1>e, <1>p DEF TakeUp, RequestTyped
<1>f. ASSUME NEW r \in Requests, NEW a \in Answers, Finish(r, a)
      PROVE  RegistryTyped'
  BY <1>f, <1>p DEF Finish, IsRegistered, registry, RegistryTyped
<1>g. ASSUME NEW r \in Requests, NEW a, Register(r, a)
      PROVE  RegistryTyped'
  BY <1>g, <1>p DEF Register, RegistryTyped
<1>h. ASSUME NEW r \in Requests, Rollback(r)
      PROVE  RowsTyped'
  BY <1>h, <1>p, <1>k DEF Rollback, RowsTyped
<1>i. ASSUME NEW s \in Sessions PROVE SessionRow(s) \in [Sessions -> Rows]
  BY <1>p, <1>k DEF SessionRow, RowsTyped, Rows
<1>1. ASSUME NEW r \in Requests, NEW s \in Sessions, NEW k \in Kinds, Refuse(r, k, s) PROVE TypeOK'
  BY <1>1, <1>p, <1>k, <1>d, <1>b DEF Refuse
<1>2. ASSUME NEW r \in Requests, NEW s \in Sessions, NEW k \in Kinds, RefuseInNewSession(r, k, s)
      PROVE  TypeOK'
  <2>1. db' \in [Sessions -> Rows]
    BY <1>2, <1>p, <1>k DEF RefuseInNewSession, RowsTyped, Rows
  <2> QED
    BY <1>2, <1>p, <1>k, <1>d, <1>b, <2>1 DEF RefuseInNewSession, RowsTyped
<1>3. ASSUME NEW r \in Requests, NEW s \in Sessions, StartChat(r, s) \/ AnnounceChat(r, s) PROVE TypeOK'
  <2>1. WithMessage(s, r) \in Rows
    BY <1>p, <1>k, <1>r DEF WithMessage, RowsTyped, Rows
  <2>2. RowsTyped'
    BY <1>3, <1>i, <2>1 DEF StartChat, AnnounceChat, Begin, RowsTyped
  <2>3. RegistryTyped'
    BY <1>3, <1>d, <1>g DEF StartChat, AnnounceChat
  <2>4. RequestTyped'
    BY <1>3, <1>k, <1>a DEF StartChat, AnnounceChat
  <2> QED
    BY <1>p, <2>2, <2>3, <2>4
<1>4. ASSUME NEW r \in Requests, NEW s \in Sessions, StartDelivery(r, s) PROVE TypeOK'
  <2>1. RowsTyped'
    BY <1>4, <1>p DEF StartDelivery, Begin, RowsTyped
  <2> QED
    BY <1>4, <1>p, <1>k, <1>d, <1>a, <2>1 DEF StartDelivery
<1>5. ASSUME NEW r \in Requests, NEW s \in Sessions, NEW k \in Edits, StartEdit(r, k, s) PROVE TypeOK'
  <2>1. RowsTyped'
    BY <1>5, <1>p, <1>k DEF StartEdit, Begin, RowsTyped, Rows
  <2> QED
    BY <1>5, <1>p, <1>k, <1>g, <1>a, <2>1 DEF StartEdit
<1>6. ASSUME NEW r \in Requests, NEW s \in Sessions, Queue(r, s) PROVE TypeOK'
  <2>1. RowsTyped'
    BY <1>6, <1>p DEF Queue, RowsTyped, Rows
  <2> QED
    BY <1>6, <1>p, <1>k, <1>d, <1>b, <2>1 DEF Queue
<1>7. ASSUME NEW r \in Requests, NEW s \in Sessions, Cancel(r, s) PROVE TypeOK'
  <2>1. db[s].root \in Answers
    BY <1>p, <1>k DEF RowsTyped, Rows
  <2>2. CASE ArriveAndAnswer(r, "cancel", s, db[s].root) /\ UNCHANGED registry
    BY <1>7, <1>p, <1>k, <1>d, <1>b, <2>1, <2>2 DEF Cancel
  <2>3. CASE /\ ActiveRun(s) # None
             /\ Arrive(r, "cancel", s, "awaiting")
             /\ awaited' = [awaited EXCEPT ![r] = ActiveRun(s)]
             /\ signal' = [signal EXCEPT ![ActiveRun(s)] = TRUE]
             /\ UNCHANGED <<handle, completion, answer>>
    <3>0. ActiveRun(s) \in Requests
      BY <1>p, <2>3 DEF ActiveRun, RowsTyped, Rows, RegistryTyped
    <3>1. RequestTyped'
      BY <1>p, <1>k, <1>r, <2>3, <3>0 DEF Arrive, RequestTyped, RegistryTyped
    <3>2. RegistryTyped'
      BY <1>p, <2>3 DEF RegistryTyped
    <3> QED
      BY <1>7, <1>p, <1>d, <3>1, <3>2 DEF Cancel
  <2> QED
    BY <1>7, <2>2, <2>3 DEF Cancel
<1>8. ASSUME NEW r \in Requests, StartStream(r) PROVE TypeOK'
  <2>1. RequestTyped'
    BY <1>8, <1>k, <1>e DEF StartStream
  <2>2. RowsTyped'
    BY <1>8, <1>d, <1>h DEF StartStream
  <2>3. RegistryTyped'
    BY <1>8, <1>p, <1>d DEF StartStream, Register, RegistryTyped
  <2> QED
    BY <1>p, <2>1, <2>2, <2>3
<1>9. ASSUME NEW r \in Requests, FinishRun(r) PROVE TypeOK'
  <2>1. PICK row \in Outcomes(r) : Commit(r, row) /\ Finish(r, row.root)
    BY <1>9 DEF FinishRun
  <2>2. row \in Rows /\ row.root \in Answers
    BY OutcomeType
  <2>3. RowsTyped'
    BY <1>p, <1>k, <2>1, <2>2 DEF Commit, RowsTyped
  <2> QED
    BY <1>9, <1>p, <1>k, <1>c, <1>f, <2>1, <2>2, <2>3 DEF FinishRun
<1>10. ASSUME NEW r \in Requests, RunRaises(r) \/ Disconnect(r) PROVE TypeOK'
  <2>1. RowsTyped'
    BY <1>10, <1>h DEF RunRaises, Disconnect
  <2>2. RegistryTyped'
    BY <1>10, <1>k, <1>d, <1>f DEF RunRaises, Disconnect
  <2>3. RequestTyped'
    BY <1>10, <1>k, <1>c, <1>e DEF RunRaises, Disconnect
  <2> QED
    BY <1>p, <2>1, <2>2, <2>3
<1>11. ASSUME NEW r \in Requests, EndErrorStream(r) \/ FinaliseStream(r) PROVE TypeOK'
  BY <1>11, <1>p, <1>k, <1>c, <1>d, <1>f DEF EndErrorStream, FinaliseStream
<1>12. ASSUME NEW r \in Requests, CancelReturns(r) PROVE TypeOK'
  <2>1. \A x \in Requests : completion[x] \in Answers \union {None}
    BY <1>p DEF RegistryTyped
  <2>2. awaited[r] \in Requests
    BY <1>12, <1>p DEF CancelReturns, RequestsOK, RequestOK, RequestTyped
  <2> QED
    BY <1>12, <1>p, <1>c, <1>d, <2>1, <2>2 DEF CancelReturns
<1>13. CASE Restart
  <2>1. RowsTyped' /\ RegistryTyped'
    BY <1>13, <1>p, <1>k DEF Restart, RowsTyped, RegistryTyped
  <2>2. RequestTyped'
    BY <1>13, <1>p, <1>k DEF Restart, RequestTyped
  <2> QED
    BY <1>p, <2>1, <2>2
<1>14. CASE UNCHANGED vars
  BY <1>14, <1>p, <1>d DEF vars
<1> QED
  BY <1>1, <1>2, <1>3, <1>4, <1>5, <1>6, <1>7, <1>8, <1>9, <1>10, <1>11, <1>12, <1>13, <1>14,
     <1>k DEF Next, Proceed

-------------------------------------------------------------------------------
(* What a step does to requests, handles and transactions.                 *)

(* A request goes through its phases in one direction.                     *)
LEMMA RequestsStep == IInv /\ [Next]_vars => RequestsOK'
<1> SUFFICES ASSUME IInv, [Next]_vars PROVE RequestsOK'
  OBVIOUS
<1> USE DEF IInv, TypeOK, RequestsOK, RequestOK, Kinds, Runs, Chats, Edits, Streams
<1>1. ASSUME NEW r \in Requests, NEW s \in Sessions, NEW k \in Kinds, Refuse(r, k, s) PROVE RequestsOK'
  BY <1>1 DEF Refuse, ArriveAndAnswer, Arrive, registry
<1>2. ASSUME NEW r \in Requests, NEW s \in Sessions, NEW k \in Kinds, RefuseInNewSession(r, k, s) PROVE RequestsOK'
  BY <1>2 DEF RefuseInNewSession, ArriveAndAnswer, Arrive, registry
<1>3. ASSUME NEW r \in Requests, NEW s \in Sessions, StartChat(r, s) PROVE RequestsOK'
  BY <1>3 DEF StartChat, MessageIsRefused, Arrive, RootAgent, Begin, WithMessage, SessionRow, Register
<1>4. ASSUME NEW r \in Requests, NEW s \in Sessions, AnnounceChat(r, s) PROVE RequestsOK'
  BY <1>4 DEF AnnounceChat, MessageIsRefused, Arrive, RootAgent, Begin, WithMessage, SessionRow, registry
<1>5. ASSUME NEW r \in Requests, NEW s \in Sessions, StartDelivery(r, s) PROVE RequestsOK'
  BY <1>5 DEF StartDelivery, DeliveryIsRefused, Arrive, Begin, registry
<1>6. ASSUME NEW r \in Requests, NEW s \in Sessions, NEW k \in Edits, StartEdit(r, k, s) PROVE RequestsOK'
  BY <1>6 DEF StartEdit, EditIsRefused, ActiveRun, Arrive, RootAgent, Begin, Register
<1>7. ASSUME NEW r \in Requests, NEW s \in Sessions, Queue(r, s) PROVE RequestsOK'
  BY <1>7 DEF Queue, QueueIsRefused, ArriveAndAnswer, Arrive, registry
<1>8. ASSUME NEW r \in Requests, NEW s \in Sessions, Cancel(r, s) PROVE RequestsOK'
  <2>1. ActiveRun(s) # None => ActiveRun(s) \in Requests /\ phase[ActiveRun(s)] # "idle"
    BY DEF ActiveRun, RunsAreRegistered, InProgress, Rows
  <2>2. CASE ArriveAndAnswer(r, "cancel", s, db[s].root) /\ UNCHANGED registry
    BY <2>2 DEF ArriveAndAnswer, Arrive, registry
  <2>3. CASE ActiveRun(s) # None /\ ~(ArriveAndAnswer(r, "cancel", s, db[s].root) /\ UNCHANGED registry)
    BY <1>8, <2>1, <2>3 DEF Cancel, Arrive
  <2> QED
    BY <1>8, <2>2, <2>3 DEF Cancel
<1>9. ASSUME NEW r \in Requests, StartStream(r) PROVE RequestsOK'
  BY <1>9 DEF StartStream, Register, TakeUp, Rollback, registry
<1>10. ASSUME NEW r \in Requests, FinishRun(r) PROVE RequestsOK'
  BY <1>10 DEF FinishRun, Commit, Finish, IsRegistered, Respond, registry
<1>11. ASSUME NEW r \in Requests, RunRaises(r) PROVE RequestsOK'
  BY <1>11 DEF RunRaises, Rollback, TakeUp, Finish, IsRegistered, Respond, registry
<1>12. ASSUME NEW r \in Requests, EndErrorStream(r) PROVE RequestsOK'
  BY <1>12 DEF EndErrorStream, Finish, IsRegistered, Respond, registry
<1>13. ASSUME NEW r \in Requests, FinaliseStream(r) PROVE RequestsOK'
  BY <1>13 DEF FinaliseStream, Finish, IsRegistered, Respond, registry
<1>14. ASSUME NEW r \in Requests, CancelReturns(r) PROVE RequestsOK'
  BY <1>14 DEF CancelReturns, Respond, registry
<1>15. ASSUME NEW r \in Requests, Disconnect(r) PROVE RequestsOK'
  BY <1>15 DEF Disconnect, Rollback, TakeUp, Finish, IsRegistered, Respond, registry
<1>16. CASE Restart
  BY <1>16 DEF Restart, InProgress
<1>17. CASE UNCHANGED vars
  BY <1>17 DEF vars, registry, request
<1> HIDE DEF IInv, TypeOK, RequestsOK, RequestOK, Kinds, Runs, Chats, Edits, Streams
<1> QED
  BY <1>1, <1>2, <1>3, <1>4, <1>5, <1>6, <1>7, <1>8, <1>9, <1>10, <1>11, <1>12, <1>13, <1>14, <1>15,
     <1>16, <1>17 DEF Next, Proceed

(* What was answered stays so.                                             *)
LEMMA OverStays ==
  IInv /\ [Next]_vars =>
    \A q \in Requests : phase[q] = "done" =>
      /\ phase'[q] = "done" /\ answer'[q] = answer[q] /\ kind'[q] = kind[q]
      /\ session'[q] = session[q] /\ awaited'[q] = awaited[q]
<1> DEFINE Goal ==
       \A q \in Requests : phase[q] = "done" =>
         /\ phase'[q] = "done" /\ answer'[q] = answer[q] /\ kind'[q] = kind[q]
         /\ session'[q] = session[q] /\ awaited'[q] = awaited[q]
<1> SUFFICES ASSUME IInv, [Next]_vars PROVE Goal
  OBVIOUS
<1> USE DEF IInv, TypeOK, RequestsOK, RequestOK, Kinds, Runs, Chats, Edits, Streams
<1>1. ASSUME NEW r \in Requests, NEW s \in Sessions, NEW k \in Kinds, Refuse(r, k, s) PROVE Goal
  BY <1>1 DEF Refuse, ArriveAndAnswer, Arrive, registry
<1>2. ASSUME NEW r \in Requests, NEW s \in Sessions, NEW k \in Kinds, RefuseInNewSession(r, k, s) PROVE Goal
  BY <1>2 DEF RefuseInNewSession, ArriveAndAnswer, Arrive, registry
<1>3. ASSUME NEW r \in Requests, NEW s \in Sessions, StartChat(r, s) PROVE Goal
  BY <1>3 DEF StartChat, MessageIsRefused, Arrive, RootAgent, Begin, WithMessage, SessionRow, Register
<1>4. ASSUME NEW r \in Requests, NEW s \in Sessions, AnnounceChat(r, s) PROVE Goal
  BY <1>4 DEF AnnounceChat, MessageIsRefused, Arrive, RootAgent, Begin, WithMessage, SessionRow, registry
<1>5. ASSUME NEW r \in Requests, NEW s \in Sessions, StartDelivery(r, s) PROVE Goal
  BY <1>5 DEF StartDelivery, DeliveryIsRefused, Arrive, Begin, registry
<1>6. ASSUME NEW r \in Requests, NEW s \in Sessions, NEW k \in Edits, StartEdit(r, k, s) PROVE Goal
  BY <1>6 DEF StartEdit, EditIsRefused, ActiveRun, Arrive, RootAgent, Begin, Register
<1>7. ASSUME NEW r \in Requests, NEW s \in Sessions, Queue(r, s) PROVE Goal
  BY <1>7 DEF Queue, QueueIsRefused, ArriveAndAnswer, Arrive, registry
<1>8. ASSUME NEW r \in Requests, NEW s \in Sessions, Cancel(r, s) PROVE Goal
  BY <1>8 DEF Cancel, ActiveRun, ArriveAndAnswer, Arrive, registry
<1>9. ASSUME NEW r \in Requests, StartStream(r) PROVE Goal
  BY <1>9 DEF StartStream, Register, TakeUp, Rollback, registry
<1>10. ASSUME NEW r \in Requests, FinishRun(r) PROVE Goal
  BY <1>10 DEF FinishRun, Commit, Finish, IsRegistered, Respond, registry
<1>11. ASSUME NEW r \in Requests, RunRaises(r) PROVE Goal
  BY <1>11 DEF RunRaises, Rollback, TakeUp, Finish, IsRegistered, Respond, registry
<1>12. ASSUME NEW r \in Requests, EndErrorStream(r) PROVE Goal
  BY <1>12 DEF EndErrorStream, Finish, IsRegistered, Respond, registry
<1>13. ASSUME NEW r \in Requests, FinaliseStream(r) PROVE Goal
  BY <1>13 DEF FinaliseStream, Finish, IsRegistered, Respond, registry
<1>14. ASSUME NEW r \in Requests, CancelReturns(r) PROVE Goal
  BY <1>14 DEF CancelReturns, Respond, registry
<1>15. ASSUME NEW r \in Requests, Disconnect(r) PROVE Goal
  BY <1>15 DEF Disconnect, Rollback, TakeUp, Finish, IsRegistered, Respond, registry
<1>16. CASE Restart
  BY <1>16 DEF Restart, InProgress
<1>17. CASE UNCHANGED vars
  BY <1>17 DEF vars, registry, request
<1> HIDE DEF Goal
<1> QED
  BY <1>1, <1>2, <1>3, <1>4, <1>5, <1>6, <1>7, <1>8, <1>9, <1>10, <1>11, <1>12, <1>13, <1>14, <1>15,
     <1>16, <1>17 DEF Next, Proceed

(* Only a queued message and a run that ends change the messages of a      *)
(* session.                                                                *)
LEMMA MessagesStay ==
  IInv /\ [Next]_vars =>
    \/ \A z \in Sessions : db'[z].queue = db[z].queue /\ db'[z].said = db[z].said
    \/ \E q \in Requests, z \in Sessions : Queue(q, z)
    \/ \E q \in Requests : FinishRun(q)
<1> DEFINE Goal ==
       \/ \A z \in Sessions : db'[z].queue = db[z].queue /\ db'[z].said = db[z].said
       \/ \E q \in Requests, z \in Sessions : Queue(q, z)
       \/ \E q \in Requests : FinishRun(q)
<1> SUFFICES ASSUME IInv, [Next]_vars PROVE Goal
  OBVIOUS
<1> USE DEF IInv, TypeOK
<1>1. ASSUME NEW r \in Requests, NEW s \in Sessions, NEW k \in Kinds, Refuse(r, k, s) PROVE Goal
  BY <1>1 DEF Refuse, ArriveAndAnswer, Arrive, registry
<1>2. ASSUME NEW r \in Requests, NEW s \in Sessions, NEW k \in Kinds, RefuseInNewSession(r, k, s) PROVE Goal
  BY <1>2 DEF RefuseInNewSession, ArriveAndAnswer, Arrive, registry
<1>3. ASSUME NEW r \in Requests, NEW s \in Sessions, StartChat(r, s) PROVE Goal
  BY <1>3 DEF StartChat, MessageIsRefused, Arrive, RootAgent, Begin, WithMessage, SessionRow, Register
<1>4. ASSUME NEW r \in Requests, NEW s \in Sessions, AnnounceChat(r, s) PROVE Goal
  BY <1>4 DEF AnnounceChat, MessageIsRefused, Arrive, RootAgent, Begin, WithMessage, SessionRow, registry
<1>5. ASSUME NEW r \in Requests, NEW s \in Sessions, StartDelivery(r, s) PROVE Goal
  BY <1>5 DEF StartDelivery, DeliveryIsRefused, Arrive, Begin, registry
<1>6. ASSUME NEW r \in Requests, NEW s \in Sessions, NEW k \in Edits, StartEdit(r, k, s) PROVE Goal
  BY <1>6 DEF StartEdit, EditIsRefused, ActiveRun, Arrive, RootAgent, Begin, Register
<1>7. ASSUME NEW r \in Requests, NEW s \in Sessions, Queue(r, s) PROVE Goal
  BY <1>7 DEF Queue, QueueIsRefused, ArriveAndAnswer, Arrive, registry
<1>8. ASSUME NEW r \in Requests, NEW s \in Sessions, Cancel(r, s) PROVE Goal
  BY <1>8 DEF Cancel, ActiveRun, ArriveAndAnswer, Arrive, registry
<1>9. ASSUME NEW r \in Requests, StartStream(r) PROVE Goal
  BY <1>9 DEF StartStream, Register, TakeUp, Rollback, registry
<1>10. ASSUME NEW r \in Requests, FinishRun(r) PROVE Goal
  BY <1>10 DEF FinishRun, Commit, Finish, IsRegistered, Respond, registry
<1>11. ASSUME NEW r \in Requests, RunRaises(r) PROVE Goal
  BY <1>11 DEF RunRaises, Rollback, TakeUp, Finish, IsRegistered, Respond, registry
<1>12. ASSUME NEW r \in Requests, EndErrorStream(r) PROVE Goal
  BY <1>12 DEF EndErrorStream, Finish, IsRegistered, Respond, registry
<1>13. ASSUME NEW r \in Requests, FinaliseStream(r) PROVE Goal
  BY <1>13 DEF FinaliseStream, Finish, IsRegistered, Respond, registry
<1>14. ASSUME NEW r \in Requests, CancelReturns(r) PROVE Goal
  BY <1>14 DEF CancelReturns, Respond, registry
<1>15. ASSUME NEW r \in Requests, Disconnect(r) PROVE Goal
  BY <1>15 DEF Disconnect, Rollback, TakeUp, Finish, IsRegistered, Respond, registry
<1>16. CASE Restart
  BY <1>16 DEF Restart, InProgress
<1>17. CASE UNCHANGED vars
  BY <1>17 DEF vars, registry, request
<1> HIDE DEF Goal
<1> QED
  BY <1>1, <1>2, <1>3, <1>4, <1>5, <1>6, <1>7, <1>8, <1>9, <1>10, <1>11, <1>12, <1>13, <1>14, <1>15,
     <1>16, <1>17 DEF Next, Proceed

(* FinishRun commits what was committed before, and r's own message. *)
LEMMA RunsAddTheirMessage ==
  ASSUME IInv, NEW r \in Requests, FinishRun(r), NEW s \in Sessions
  PROVE  db'[s].queue \union db'[s].said \subseteq db[s].queue \union db[s].said \union {r}
<1>1. PICK row \in Outcomes(r) : db' = [db EXCEPT ![session[r]] = row]
  BY DEF FinishRun, Commit
<1>2. /\ writer = r /\ session[r] \in Sessions /\ kind[r] \in Kinds /\ db \in [Sessions -> Rows]
  BY DEF FinishRun, IInv, RunsAreRegistered, Holds, RequestsOK, RequestOK, TypeOK
<1>3. row.queue \union row.said \subseteq draft.queue \union draft.said
  BY DEF Outcomes, RootRan, RootKept, IInv, TypeOK, Rows
<1>4. draft.queue \union draft.said \subseteq db[session[r]].queue \union db[session[r]].said \union {r}
  <2>1. kind[r] \in Chats \union Edits \union {"deliver"}
    BY DEF FinishRun, IInv, RequestsOK, RequestOK, Runs
  <2> QED
    BY <1>2, <2>1 DEF IInv, DraftOK
<1>5. db'[s] = IF s = session[r] THEN row ELSE db[s]
  BY <1>1, <1>2
<1> QED
  BY <1>3, <1>4, <1>5

(* Unless it is an edit, the run keeps what was there, and a chat has its  *)
(* message.                                                                *)
LEMMA RunsKeepMessages ==
  ASSUME IInv, NEW r \in Requests, FinishRun(r), kind[r] \notin Edits
  PROVE  /\ \A s \in Sessions : db[s].queue \union db[s].said \subseteq db'[s].queue \union db'[s].said
         /\ kind[r] \in Chats => r \in db'[session[r]].said
<1>1. PICK row \in Outcomes(r) : db' = [db EXCEPT ![session[r]] = row]
  BY DEF FinishRun, Commit
<1>2. /\ writer = r /\ session[r] \in Sessions /\ kind[r] \in Chats \union {"deliver"}
      /\ db \in [Sessions -> Rows] /\ draft \in Rows
  BY DEF FinishRun, IInv, RunsAreRegistered, Holds, RequestsOK, RequestOK, TypeOK, Runs
<1>3. /\ draft.queue \union draft.said \subseteq row.queue \union row.said
      /\ kind[r] \in Chats => draft.said \subseteq row.said
  <2>1. "deliver" \notin Chats
    BY DEF Chats
  <2> QED
    BY <1>2, <2>1 DEF Outcomes, RootRan, RootKept, Rows
<1>4. /\ db[session[r]].queue \union db[session[r]].said \subseteq draft.queue \union draft.said
      /\ kind[r] \in Chats => r \in draft.said
  BY <1>2 DEF IInv, DraftOK
<1>5. \A s \in Sessions : db'[s] = IF s = session[r] THEN row ELSE db[s]
  BY <1>1, <1>2
<1> QED
  BY <1>2, <1>3, <1>4, <1>5

(* finish() releases the handle of r, if r has it, with a result. *)
LEMMA FinishEffect ==
  ASSUME TypeOK, NEW r \in Requests, NEW a \in Answers, Finish(r, a)
  PROVE  /\ \A b \in Requests : handle'[b] = handle[b] \/ (handle[b] = r /\ root[r] = b /\ handle'[b] = None)
         /\ \A b \in Requests : handle[b] = r /\ root[r] = b => handle'[b] = None /\ completion'[r] # None
         /\ \A q \in Requests : completion'[q] = completion[q] \/ (q = r /\ completion'[q] # None /\ IsRegistered(r))
         /\ signal' = signal
BY DEF Finish, IsRegistered, registry, TypeOK, Answers

-------------------------------------------------------------------------------
(* Every step preserves the invariant.                                     *)

(* Only runs are registered. *)
LEMMA HandlesStep == IInv /\ [Next]_vars => HandlesOK'
<1> SUFFICES ASSUME IInv, [Next]_vars PROVE HandlesOK'
  OBVIOUS
<1> USE DEF IInv, HandlesOK, RunsAreRegistered, TypeOK, RequestsOK, RequestOK, Kinds, Runs, Chats,
    Edits, Streams
<1>1. ASSUME NEW r \in Requests, NEW s \in Sessions, NEW k \in Kinds, Refuse(r, k, s) PROVE HandlesOK'
  BY <1>1 DEF Refuse, ArriveAndAnswer, Arrive, registry
<1>2. ASSUME NEW r \in Requests, NEW s \in Sessions, NEW k \in Kinds, RefuseInNewSession(r, k, s) PROVE HandlesOK'
  BY <1>2 DEF RefuseInNewSession, ArriveAndAnswer, Arrive, registry
<1>3. ASSUME NEW r \in Requests, NEW s \in Sessions, StartChat(r, s) PROVE HandlesOK'
  BY <1>3 DEF StartChat, MessageIsRefused, Arrive, RootAgent, Begin, WithMessage, SessionRow, Register
<1>4. ASSUME NEW r \in Requests, NEW s \in Sessions, AnnounceChat(r, s) PROVE HandlesOK'
  BY <1>4 DEF AnnounceChat, MessageIsRefused, Arrive, RootAgent, Begin, WithMessage, SessionRow, registry
<1>5. ASSUME NEW r \in Requests, NEW s \in Sessions, StartDelivery(r, s) PROVE HandlesOK'
  BY <1>5 DEF StartDelivery, DeliveryIsRefused, Arrive, Begin, registry
<1>6. ASSUME NEW r \in Requests, NEW s \in Sessions, NEW k \in Edits, StartEdit(r, k, s) PROVE HandlesOK'
  BY <1>6 DEF StartEdit, EditIsRefused, ActiveRun, Arrive, RootAgent, Begin, Register
<1>7. ASSUME NEW r \in Requests, NEW s \in Sessions, Queue(r, s) PROVE HandlesOK'
  BY <1>7 DEF Queue, QueueIsRefused, ArriveAndAnswer, Arrive, registry
<1>8. ASSUME NEW r \in Requests, NEW s \in Sessions, Cancel(r, s) PROVE HandlesOK'
  BY <1>8 DEF Cancel, ActiveRun, ArriveAndAnswer, Arrive, registry
<1>9. ASSUME NEW r \in Requests, StartStream(r) PROVE HandlesOK'
  BY <1>9 DEF StartStream, Register, TakeUp, Rollback, registry
<1>10. ASSUME NEW r \in Requests, FinishRun(r) PROVE HandlesOK'
  BY <1>10 DEF FinishRun, Commit, Finish, IsRegistered, Respond, registry
<1>11. ASSUME NEW r \in Requests, RunRaises(r) PROVE HandlesOK'
  BY <1>11 DEF RunRaises, Rollback, TakeUp, Finish, IsRegistered, Respond, registry
<1>12. ASSUME NEW r \in Requests, EndErrorStream(r) PROVE HandlesOK'
  BY <1>12 DEF EndErrorStream, Finish, IsRegistered, Respond, registry
<1>13. ASSUME NEW r \in Requests, FinaliseStream(r) PROVE HandlesOK'
  BY <1>13 DEF FinaliseStream, Finish, IsRegistered, Respond, registry
<1>14. ASSUME NEW r \in Requests, CancelReturns(r) PROVE HandlesOK'
  BY <1>14 DEF CancelReturns, Respond, registry
<1>15. ASSUME NEW r \in Requests, Disconnect(r) PROVE HandlesOK'
  BY <1>15 DEF Disconnect, Rollback, TakeUp, Finish, IsRegistered, Respond, registry
<1>16. CASE Restart
  BY <1>16 DEF Restart, InProgress
<1>17. CASE UNCHANGED vars
  BY <1>17 DEF vars, registry, request
<1> QED
  BY <1>1, <1>2, <1>3, <1>4, <1>5, <1>6, <1>7, <1>8, <1>9, <1>10, <1>11, <1>12, <1>13, <1>14, <1>15,
     <1>16, <1>17 DEF Next, Proceed

(* A transaction stays as far from what is committed as DraftOK says. *)
LEMMA DraftStep == IInv /\ [Next]_vars => DraftOK'
<1> SUFFICES ASSUME IInv, [Next]_vars PROVE DraftOK'
  OBVIOUS
<1> USE DEF IInv, DraftOK, RunsAreRegistered, Holds, TypeOK, RequestsOK, RequestOK, Kinds, Runs, Chats,
    Edits, Streams
<1>1. ASSUME NEW r \in Requests, NEW s \in Sessions, NEW k \in Kinds, Refuse(r, k, s) PROVE DraftOK'
  BY <1>1 DEF Refuse, ArriveAndAnswer, Arrive, registry
<1>2. ASSUME NEW r \in Requests, NEW s \in Sessions, NEW k \in Kinds, RefuseInNewSession(r, k, s) PROVE DraftOK'
  BY <1>2 DEF RefuseInNewSession, ArriveAndAnswer, Arrive, registry
<1>3. ASSUME NEW r \in Requests, NEW s \in Sessions, StartChat(r, s) PROVE DraftOK'
  BY <1>3 DEF StartChat, MessageIsRefused, Arrive, RootAgent, Begin, WithMessage, SessionRow, Register
<1>4. ASSUME NEW r \in Requests, NEW s \in Sessions, AnnounceChat(r, s) PROVE DraftOK'
  BY <1>4 DEF AnnounceChat, MessageIsRefused, Arrive, RootAgent, Begin, WithMessage, SessionRow, registry
<1>5. ASSUME NEW r \in Requests, NEW s \in Sessions, StartDelivery(r, s) PROVE DraftOK'
  BY <1>5 DEF StartDelivery, DeliveryIsRefused, Arrive, Begin, registry
<1>6. ASSUME NEW r \in Requests, NEW s \in Sessions, NEW k \in Edits, StartEdit(r, k, s) PROVE DraftOK'
  BY <1>6 DEF StartEdit, EditIsRefused, ActiveRun, Arrive, RootAgent, Begin, Register
<1>7. ASSUME NEW r \in Requests, NEW s \in Sessions, Queue(r, s) PROVE DraftOK'
  BY <1>7 DEF Queue, QueueIsRefused, ArriveAndAnswer, Arrive, registry
<1>8. ASSUME NEW r \in Requests, NEW s \in Sessions, Cancel(r, s) PROVE DraftOK'
  BY <1>8 DEF Cancel, ActiveRun, ArriveAndAnswer, Arrive, registry
<1>9. ASSUME NEW r \in Requests, StartStream(r) PROVE DraftOK'
  BY <1>9 DEF StartStream, Register, TakeUp, Rollback, registry
<1>10. ASSUME NEW r \in Requests, FinishRun(r) PROVE DraftOK'
  BY <1>10 DEF FinishRun, Commit, Finish, IsRegistered, Respond, registry
<1>11. ASSUME NEW r \in Requests, RunRaises(r) PROVE DraftOK'
  BY <1>11 DEF RunRaises, Rollback, TakeUp, Finish, IsRegistered, Respond, registry
<1>12. ASSUME NEW r \in Requests, EndErrorStream(r) PROVE DraftOK'
  BY <1>12 DEF EndErrorStream, Finish, IsRegistered, Respond, registry
<1>13. ASSUME NEW r \in Requests, FinaliseStream(r) PROVE DraftOK'
  BY <1>13 DEF FinaliseStream, Finish, IsRegistered, Respond, registry
<1>14. ASSUME NEW r \in Requests, CancelReturns(r) PROVE DraftOK'
  BY <1>14 DEF CancelReturns, Respond, registry
<1>15. ASSUME NEW r \in Requests, Disconnect(r) PROVE DraftOK'
  BY <1>15 DEF Disconnect, Rollback, TakeUp, Finish, IsRegistered, Respond, registry
<1>16. CASE Restart
  BY <1>16 DEF Restart, InProgress
<1>17. CASE UNCHANGED vars
  BY <1>17 DEF vars, registry, request
<1> HIDE DEF IInv, DraftOK, RunsAreRegistered, Holds, TypeOK, RequestsOK, RequestOK, Kinds, Runs,
    Chats, Edits, Streams
<1> QED
  BY <1>1, <1>2, <1>3, <1>4, <1>5, <1>6, <1>7, <1>8, <1>9, <1>10, <1>11, <1>12, <1>13, <1>14, <1>15,
     <1>16, <1>17 DEF Next, Proceed

(* The root agent of a session stays the same from its first commit on.    *)
LEMMA AgentsStep == IInv /\ [Next]_vars => AgentsOK'
<1> SUFFICES ASSUME IInv, [Next]_vars PROVE AgentsOK'
  OBVIOUS
<1> USE DEF IInv, AgentsOK, RootAgent, RunsAreRegistered, Holds, TypeOK, RequestsOK, RequestOK, Kinds, Runs, Chats,
    Edits, Streams
<1>p. \A q \in Requests : phase[q] = "done" => phase'[q] = "done"
  BY OverStays
<1>q. \A s \in Sessions : db[s].agent \in Requests \union {None}
  BY DEF Rows
<1>a. ASSUME db' = db, writer' = None \/ (writer' = writer /\ draft' = draft),
             \A w \in Requests : writer = w => kind'[w] = kind[w] /\ root'[w] = root[w] /\ session'[w] = session[w]
      PROVE  AgentsOK'
  BY <1>a, <1>p, <1>q
<1>1. ASSUME NEW r \in Requests, NEW s \in Sessions, NEW k \in Kinds, Refuse(r, k, s) PROVE AgentsOK'
  BY <1>1 DEF Refuse, ArriveAndAnswer, Arrive, registry
<1>2. ASSUME NEW r \in Requests, NEW s \in Sessions, NEW k \in Kinds, RefuseInNewSession(r, k, s) PROVE AgentsOK'
  BY <1>2 DEF RefuseInNewSession, ArriveAndAnswer, Arrive, registry
<1>3. ASSUME NEW r \in Requests, NEW s \in Sessions, StartChat(r, s) PROVE AgentsOK'
  BY <1>3 DEF StartChat, MessageIsRefused, Arrive, RootAgent, Begin, WithMessage, SessionRow, Register
<1>4. ASSUME NEW r \in Requests, NEW s \in Sessions, AnnounceChat(r, s) PROVE AgentsOK'
  BY <1>4 DEF AnnounceChat, MessageIsRefused, Arrive, RootAgent, Begin, WithMessage, SessionRow, registry
<1>5. ASSUME NEW r \in Requests, NEW s \in Sessions, StartDelivery(r, s) PROVE AgentsOK'
  BY <1>5 DEF StartDelivery, DeliveryIsRefused, Arrive, Begin, registry
<1>6. ASSUME NEW r \in Requests, NEW s \in Sessions, NEW k \in Edits, StartEdit(r, k, s) PROVE AgentsOK'
  BY <1>6 DEF StartEdit, EditIsRefused, ActiveRun, Arrive, RootAgent, Begin, Register
<1>7. ASSUME NEW r \in Requests, NEW s \in Sessions, Queue(r, s) PROVE AgentsOK'
  BY <1>7 DEF Queue, QueueIsRefused, ArriveAndAnswer, Arrive, registry
<1>8. ASSUME NEW r \in Requests, NEW s \in Sessions, Cancel(r, s) PROVE AgentsOK'
  BY <1>8, <1>a DEF Cancel, ArriveAndAnswer, Arrive
<1>9. ASSUME NEW r \in Requests, StartStream(r) PROVE AgentsOK'
  BY <1>9, <1>a DEF StartStream, TakeUp, Rollback
<1>10. ASSUME NEW r \in Requests, FinishRun(r) PROVE AgentsOK'
  <2>1. PICK row \in Outcomes(r) : db' = [db EXCEPT ![session[r]] = row]
    BY <1>10 DEF FinishRun, Commit
  <2>2. /\ session[r] \in Sessions /\ writer = r /\ kind[r] \in Runs \union {"deliver"} /\ writer' = None
        /\ phase' = [phase EXCEPT ![r] = "done"]
    BY <1>10 DEF FinishRun, Respond, Commit
  <2>3. row.agent = draft.agent
    BY DEF Outcomes, RootRan, RootKept, Rows
  <2>4. row.agent = None <=> row.root \in {"absent", "none"}
    <3>1. CASE row \in RootRan(r) /\ kind[r] \in Runs
      <4>1. row.root \notin {"absent", "none"}
        BY <3>1 DEF RootRan, RootResults
      <4> QED
        BY <2>2, <2>3, <3>1, <4>1, <1>q
    <3>2. CASE row \in RootRan(r) /\ kind[r] = "deliver" /\ draft.root = "waiting"
      <4>1. row.root \notin {"absent", "none"}
        BY <3>2 DEF RootRan, RootResults
      <4>2. draft = db[session[r]]
        BY <2>2, <3>2
      <4> QED
        BY <2>2, <2>3, <3>2, <4>1, <4>2
    <3>3. CASE row \in RootKept /\ kind[r] = "deliver"
      <4>1. row.root = draft.root /\ draft = db[session[r]]
        BY <2>2, <3>3 DEF RootKept, Rows
      <4> QED
        BY <2>2, <2>3, <4>1
    <3> QED
      BY <2>2, <3>1, <3>2, <3>3 DEF Outcomes
  <2>5. row.agent # None => phase'[row.agent] = "done"
    BY <2>2, <2>3, <1>p, <1>q
  <2> QED
    BY <2>1, <2>2, <2>4, <2>5, <1>p, <1>q
<1>11. ASSUME NEW r \in Requests, RunRaises(r) PROVE AgentsOK'
  BY <1>11, <1>a DEF RunRaises, Rollback, TakeUp, Respond
<1>12. ASSUME NEW r \in Requests, EndErrorStream(r) PROVE AgentsOK'
  BY <1>12 DEF EndErrorStream, Finish, IsRegistered, Respond, registry
<1>13. ASSUME NEW r \in Requests, FinaliseStream(r) PROVE AgentsOK'
  BY <1>13 DEF FinaliseStream, Finish, IsRegistered, Respond, registry
<1>14. ASSUME NEW r \in Requests, CancelReturns(r) PROVE AgentsOK'
  BY <1>14 DEF CancelReturns, Respond, registry
<1>15. ASSUME NEW r \in Requests, Disconnect(r) PROVE AgentsOK'
  BY <1>15, <1>a DEF Disconnect, Rollback, TakeUp, Respond
<1>16. CASE Restart
  BY <1>16, <1>a DEF Restart
<1>17. CASE UNCHANGED vars
  BY <1>17 DEF vars, registry, request
<1> HIDE DEF IInv, AgentsOK, RootAgent, RunsAreRegistered, Holds, TypeOK, RequestsOK, RequestOK, Kinds, Runs,
    Chats, Edits, Streams
<1> QED
  BY <1>1, <1>2, <1>3, <1>4, <1>5, <1>6, <1>7, <1>8, <1>9, <1>10, <1>11, <1>12, <1>13, <1>14, <1>15,
     <1>16, <1>17 DEF Next, Proceed

(* A message that a step commits is acknowledged in the same step. *)
LEMMA StoredStep == IInv /\ [Next]_vars => StoredOK'
<1> SUFFICES ASSUME IInv, [Next]_vars, NEW q \in Requests, NEW s \in Sessions,
                    q \in db'[s].queue \union db'[s].said
             PROVE  answer'[q] = "ok"
  BY DEF StoredOK
<1>1. q \in db[s].queue \union db[s].said => answer'[q] = "ok"
  <2>1. "ok" # None
    BY DEF Answers
  <2>2. q \in db[s].queue \union db[s].said => answer[q] = "ok" /\ phase[q] = "done"
    BY <2>1 DEF IInv, StoredOK, RequestsOK, RequestOK
  <2> QED
    BY <2>2, OverStays
<1>2. ASSUME NEW r \in Requests, NEW z \in Sessions, Queue(r, z) PROVE answer'[q] = "ok"
  <2>1. db'[s].queue \union db'[s].said \subseteq db[s].queue \union db[s].said \union {r}
    BY <1>2 DEF Queue, IInv, TypeOK, Rows
  <2>2. answer'[r] = "ok"
    BY <1>2 DEF Queue, ArriveAndAnswer, IInv, TypeOK
  <2> QED
    BY <1>1, <2>1, <2>2
<1>3. ASSUME NEW r \in Requests, FinishRun(r) PROVE answer'[q] = "ok"
  <2>1. answer'[r] = "ok"
    BY <1>3 DEF FinishRun, Respond, IInv, TypeOK
  <2> QED
    BY <1>1, <1>3, <2>1, RunsAddTheirMessage
<1> QED
  BY <1>1, <1>2, <1>3, MessagesStay

(* A queue is taken up whenever its session comes to rest. *)
LEMMA QueueStep == IInv /\ [Next]_vars => RestOK' /\ QueueIsServed'
<1> SUFFICES ASSUME IInv, [Next]_vars PROVE RestOK' /\ QueueIsServed'
  OBVIOUS
<1> USE DEF IInv, RestOK, QueueIsServed, DraftOK, Holds, RunsAreRegistered, TypeOK, RequestsOK,
    RequestOK, AtRest, Kinds, Runs, Chats, Edits, Streams
<1>1. ASSUME NEW r \in Requests, NEW s \in Sessions, NEW k \in Kinds, Refuse(r, k, s) PROVE RestOK' /\ QueueIsServed'
  BY <1>1 DEF Refuse, ArriveAndAnswer, Arrive, registry
<1>2. ASSUME NEW r \in Requests, NEW s \in Sessions, NEW k \in Kinds, RefuseInNewSession(r, k, s) PROVE RestOK' /\ QueueIsServed'
  BY <1>2 DEF RefuseInNewSession, ArriveAndAnswer, Arrive, registry
<1>3. ASSUME NEW r \in Requests, NEW s \in Sessions, StartChat(r, s) PROVE RestOK' /\ QueueIsServed'
  BY <1>3 DEF StartChat, MessageIsRefused, Arrive, RootAgent, Begin, WithMessage, SessionRow, Register
<1>4. ASSUME NEW r \in Requests, NEW s \in Sessions, AnnounceChat(r, s) PROVE RestOK' /\ QueueIsServed'
  BY <1>4 DEF AnnounceChat, MessageIsRefused, Arrive, RootAgent, Begin, WithMessage, SessionRow, registry
<1>5. ASSUME NEW r \in Requests, NEW s \in Sessions, StartDelivery(r, s) PROVE RestOK' /\ QueueIsServed'
  BY <1>5 DEF StartDelivery, DeliveryIsRefused, Arrive, Begin, registry
<1>6. ASSUME NEW r \in Requests, NEW s \in Sessions, NEW k \in Edits, StartEdit(r, k, s) PROVE RestOK' /\ QueueIsServed'
  BY <1>6 DEF StartEdit, EditIsRefused, ActiveRun, Arrive, RootAgent, Begin, Register
<1>7. ASSUME NEW r \in Requests, NEW s \in Sessions, Queue(r, s) PROVE RestOK' /\ QueueIsServed'
  BY <1>7 DEF Queue, QueueIsRefused, ArriveAndAnswer, Arrive, registry
<1>8. ASSUME NEW r \in Requests, NEW s \in Sessions, Cancel(r, s) PROVE RestOK' /\ QueueIsServed'
  BY <1>8 DEF Cancel, ActiveRun, ArriveAndAnswer, Arrive, registry
<1>9. ASSUME NEW r \in Requests, StartStream(r) PROVE RestOK' /\ QueueIsServed'
  BY <1>9 DEF StartStream, Register, TakeUp, Rollback, registry
<1>10. ASSUME NEW r \in Requests, FinishRun(r) PROVE RestOK' /\ QueueIsServed'
  <2>1. PICK row \in Outcomes(r) : db' = [db EXCEPT ![session[r]] = row]
    BY <1>10 DEF FinishRun, Commit
  <2>2. session[r] \in Sessions /\ writer = r /\ kind[r] \in Runs \union {"deliver"}
    BY <1>10 DEF FinishRun
  <2>3. CASE row \in RootRan(r)
    <3>1. row.queue = {} /\ row.root \in RootResults(r)
      BY <2>3 DEF RootRan
    <3>2. row.root # "running"
      BY <3>1 DEF RootResults
    <3> QED
      BY <2>1, <2>2, <3>1, <3>2
  <2>4. CASE row \in RootKept /\ kind[r] = "deliver"
    <3>1. row.queue = draft.queue /\ row.root = draft.root /\ draft = db[session[r]]
      BY <2>2, <2>4 DEF RootKept, Rows
    <3> QED
      BY <2>1, <2>2, <3>1
  <2> QED
    BY <2>1, <2>3, <2>4 DEF Outcomes
<1>11. ASSUME NEW r \in Requests, RunRaises(r) PROVE RestOK' /\ QueueIsServed'
  BY <1>11 DEF RunRaises, Rollback, TakeUp, Finish, IsRegistered, Respond, registry
<1>12. ASSUME NEW r \in Requests, EndErrorStream(r) PROVE RestOK' /\ QueueIsServed'
  BY <1>12 DEF EndErrorStream, Finish, IsRegistered, Respond, registry
<1>13. ASSUME NEW r \in Requests, FinaliseStream(r) PROVE RestOK' /\ QueueIsServed'
  BY <1>13 DEF FinaliseStream, Finish, IsRegistered, Respond, registry
<1>14. ASSUME NEW r \in Requests, CancelReturns(r) PROVE RestOK' /\ QueueIsServed'
  BY <1>14 DEF CancelReturns, Respond, registry
<1>15. ASSUME NEW r \in Requests, Disconnect(r) PROVE RestOK' /\ QueueIsServed'
  BY <1>15 DEF Disconnect, Rollback, TakeUp, Finish, IsRegistered, Respond, registry
<1>16. CASE Restart
  BY <1>16 DEF Restart, InProgress
<1>17. CASE UNCHANGED vars
  BY <1>17 DEF vars, registry, request
<1> QED
  BY <1>1, <1>2, <1>3, <1>4, <1>5, <1>6, <1>7, <1>8, <1>9, <1>10, <1>11, <1>12, <1>13, <1>14, <1>15,
     <1>16, <1>17 DEF Next, Proceed

(* A cancel is answered after the run that it has cancelled. *)
LEMMA OutlastsStep == IInv /\ [Next]_vars => CancelOutlastsRun'
<1> SUFFICES ASSUME IInv, [Next]_vars PROVE CancelOutlastsRun'
  OBVIOUS
<1> USE DEF IInv, CancelOutlastsRun, Holds, InProgress, TypeOK, RequestsOK, RequestOK, Kinds, Runs,
    Chats, Edits, Streams
<1>1. ASSUME NEW r \in Requests, NEW s \in Sessions, NEW k \in Kinds, Refuse(r, k, s) PROVE CancelOutlastsRun'
  BY <1>1 DEF Refuse, ArriveAndAnswer, Arrive, registry
<1>2. ASSUME NEW r \in Requests, NEW s \in Sessions, NEW k \in Kinds, RefuseInNewSession(r, k, s) PROVE CancelOutlastsRun'
  BY <1>2 DEF RefuseInNewSession, ArriveAndAnswer, Arrive, registry
<1>3. ASSUME NEW r \in Requests, NEW s \in Sessions, StartChat(r, s) PROVE CancelOutlastsRun'
  BY <1>3 DEF StartChat, MessageIsRefused, Arrive, RootAgent, Begin, WithMessage, SessionRow, Register
<1>4. ASSUME NEW r \in Requests, NEW s \in Sessions, AnnounceChat(r, s) PROVE CancelOutlastsRun'
  BY <1>4 DEF AnnounceChat, MessageIsRefused, Arrive, RootAgent, Begin, WithMessage, SessionRow, registry
<1>5. ASSUME NEW r \in Requests, NEW s \in Sessions, StartDelivery(r, s) PROVE CancelOutlastsRun'
  BY <1>5 DEF StartDelivery, DeliveryIsRefused, Arrive, Begin, registry
<1>6. ASSUME NEW r \in Requests, NEW s \in Sessions, NEW k \in Edits, StartEdit(r, k, s) PROVE CancelOutlastsRun'
  BY <1>6 DEF StartEdit, EditIsRefused, ActiveRun, Arrive, RootAgent, Begin, Register
<1>7. ASSUME NEW r \in Requests, NEW s \in Sessions, Queue(r, s) PROVE CancelOutlastsRun'
  BY <1>7 DEF Queue, QueueIsRefused, ArriveAndAnswer, Arrive, registry
<1>8. ASSUME NEW r \in Requests, NEW s \in Sessions, Cancel(r, s) PROVE CancelOutlastsRun'
  BY <1>8 DEF Cancel, ActiveRun, ArriveAndAnswer, Arrive, registry
<1>9. ASSUME NEW r \in Requests, StartStream(r) PROVE CancelOutlastsRun'
  BY <1>9 DEF StartStream, Register, TakeUp, Rollback, registry
<1>10. ASSUME NEW r \in Requests, FinishRun(r) PROVE CancelOutlastsRun'
  BY <1>10 DEF FinishRun, Respond
<1>11. ASSUME NEW r \in Requests, RunRaises(r) PROVE CancelOutlastsRun'
  BY <1>11 DEF RunRaises, TakeUp, Respond
<1>12. ASSUME NEW r \in Requests, EndErrorStream(r) PROVE CancelOutlastsRun'
  BY <1>12 DEF EndErrorStream, Respond
<1>13. ASSUME NEW r \in Requests, FinaliseStream(r) PROVE CancelOutlastsRun'
  BY <1>13 DEF FinaliseStream, Respond
<1>14. ASSUME NEW r \in Requests, CancelReturns(r) PROVE CancelOutlastsRun'
  BY <1>14 DEF CancelReturns, Respond, registry
<1>15. ASSUME NEW r \in Requests, Disconnect(r) PROVE CancelOutlastsRun'
  BY <1>15 DEF Disconnect, TakeUp, Respond
<1>16. CASE Restart
  BY <1>16 DEF Restart, InProgress
<1>17. CASE UNCHANGED vars
  BY <1>17 DEF vars, registry, request
<1> QED
  BY <1>1, <1>2, <1>3, <1>4, <1>5, <1>6, <1>7, <1>8, <1>9, <1>10, <1>11, <1>12, <1>13, <1>14, <1>15,
     <1>16, <1>17 DEF Next, Proceed

(* A run has the write lock as long as it is in progress. *)
LEMMA HoldsStep ==
  IInv /\ [Next]_vars =>
    (\A q \in Requests : Holds(q) <=> writer = q)'
<1> DEFINE Goal ==
       (\A q \in Requests : Holds(q) <=> writer = q)'
<1> SUFFICES ASSUME IInv, [Next]_vars PROVE Goal
  OBVIOUS
<1> USE DEF IInv, RunsAreRegistered, HandlesOK, Holds, InProgress, TypeOK, RequestsOK, RequestOK,
    Kinds, Runs, Chats, Edits, Streams
<1>1. ASSUME NEW r \in Requests, NEW s \in Sessions, NEW k \in Kinds, Refuse(r, k, s) PROVE Goal
  BY <1>1 DEF Refuse, ArriveAndAnswer, Arrive, registry
<1>2. ASSUME NEW r \in Requests, NEW s \in Sessions, NEW k \in Kinds, RefuseInNewSession(r, k, s) PROVE Goal
  BY <1>2 DEF RefuseInNewSession, ArriveAndAnswer, Arrive, registry
<1>3. ASSUME NEW r \in Requests, NEW s \in Sessions, StartChat(r, s) PROVE Goal
  BY <1>3 DEF StartChat, MessageIsRefused, Arrive, RootAgent, Begin, WithMessage, SessionRow, Register
<1>4. ASSUME NEW r \in Requests, NEW s \in Sessions, AnnounceChat(r, s) PROVE Goal
  BY <1>4 DEF AnnounceChat, MessageIsRefused, Arrive, RootAgent, Begin, WithMessage, SessionRow, registry
<1>5. ASSUME NEW r \in Requests, NEW s \in Sessions, StartDelivery(r, s) PROVE Goal
  BY <1>5 DEF StartDelivery, DeliveryIsRefused, Arrive, Begin, registry
<1>6. ASSUME NEW r \in Requests, NEW s \in Sessions, NEW k \in Edits, StartEdit(r, k, s) PROVE Goal
  BY <1>6 DEF StartEdit, EditIsRefused, ActiveRun, Arrive, RootAgent, Begin, Register
<1>7. ASSUME NEW r \in Requests, NEW s \in Sessions, Queue(r, s) PROVE Goal
  BY <1>7 DEF Queue, QueueIsRefused, ArriveAndAnswer, Arrive, registry
<1>8. ASSUME NEW r \in Requests, NEW s \in Sessions, Cancel(r, s) PROVE Goal
  BY <1>8 DEF Cancel, ActiveRun, ArriveAndAnswer, Arrive, registry
<1>9. ASSUME NEW r \in Requests, StartStream(r) PROVE Goal
  BY <1>9 DEF StartStream, Register, TakeUp, Rollback, registry
<1>10. ASSUME NEW r \in Requests, FinishRun(r) PROVE Goal
  BY <1>10 DEF FinishRun, Commit, Finish, IsRegistered, Respond, registry
<1>11. ASSUME NEW r \in Requests, RunRaises(r) PROVE Goal
  BY <1>11 DEF RunRaises, Rollback, TakeUp, Finish, IsRegistered, Respond, registry
<1>12. ASSUME NEW r \in Requests, EndErrorStream(r) PROVE Goal
  BY <1>12 DEF EndErrorStream, Finish, IsRegistered, Respond, registry
<1>13. ASSUME NEW r \in Requests, FinaliseStream(r) PROVE Goal
  BY <1>13 DEF FinaliseStream, Finish, IsRegistered, Respond, registry
<1>14. ASSUME NEW r \in Requests, CancelReturns(r) PROVE Goal
  BY <1>14 DEF CancelReturns, Respond, registry
<1>15. ASSUME NEW r \in Requests, Disconnect(r) PROVE Goal
  BY <1>15 DEF Disconnect, Rollback, TakeUp, Finish, IsRegistered, Respond, registry
<1>16. CASE Restart
  BY <1>16 DEF Restart, InProgress
<1>17. CASE UNCHANGED vars
  BY <1>17 DEF vars, registry, request
<1> HIDE DEF Goal
<1> QED
  BY <1>1, <1>2, <1>3, <1>4, <1>5, <1>6, <1>7, <1>8, <1>9, <1>10, <1>11, <1>12, <1>13, <1>14, <1>15,
     <1>16, <1>17 DEF Next, Proceed

(* A run that was registered stays so while it runs. *)
LEMMA RunningStep ==
  IInv /\ [Next]_vars =>
    (\A q \in Requests : phase[q] = "running" /\ kind[q] \in Runs => IsRegistered(q))'
<1> DEFINE Goal ==
       (\A q \in Requests : phase[q] = "running" /\ kind[q] \in Runs => IsRegistered(q))'
<1> SUFFICES ASSUME IInv, [Next]_vars PROVE Goal
  OBVIOUS
<1> USE DEF IInv, RunsAreRegistered, IsRegistered, HandlesOK, Holds, InProgress, TypeOK, RequestsOK, RequestOK,
    Kinds, Runs, Chats, Edits, Streams
<1>1. ASSUME NEW r \in Requests, NEW s \in Sessions, NEW k \in Kinds, Refuse(r, k, s) PROVE Goal
  BY <1>1 DEF Refuse, ArriveAndAnswer, Arrive, registry
<1>2. ASSUME NEW r \in Requests, NEW s \in Sessions, NEW k \in Kinds, RefuseInNewSession(r, k, s) PROVE Goal
  BY <1>2 DEF RefuseInNewSession, ArriveAndAnswer, Arrive, registry
<1>3. ASSUME NEW r \in Requests, NEW s \in Sessions, StartChat(r, s) PROVE Goal
  BY <1>3 DEF StartChat, MessageIsRefused, Arrive, RootAgent, Rows, Begin, WithMessage, SessionRow, Register
<1>4. ASSUME NEW r \in Requests, NEW s \in Sessions, AnnounceChat(r, s) PROVE Goal
  BY <1>4 DEF AnnounceChat, MessageIsRefused, Arrive, RootAgent, Begin, WithMessage, SessionRow, registry
<1>5. ASSUME NEW r \in Requests, NEW s \in Sessions, StartDelivery(r, s) PROVE Goal
  BY <1>5 DEF StartDelivery, DeliveryIsRefused, Arrive, Begin, registry
<1>6. ASSUME NEW r \in Requests, NEW s \in Sessions, NEW k \in Edits, StartEdit(r, k, s) PROVE Goal
  BY <1>6 DEF StartEdit, EditIsRefused, ActiveRun, AgentsOK, Arrive, RootAgent, Rows, Begin, Register
<1>7. ASSUME NEW r \in Requests, NEW s \in Sessions, Queue(r, s) PROVE Goal
  BY <1>7 DEF Queue, QueueIsRefused, ArriveAndAnswer, Arrive, registry
<1>8. ASSUME NEW r \in Requests, NEW s \in Sessions, Cancel(r, s) PROVE Goal
  BY <1>8 DEF Cancel, ActiveRun, ArriveAndAnswer, Arrive, registry
<1>9. ASSUME NEW r \in Requests, StartStream(r) PROVE Goal
  BY <1>9 DEF StartStream, Register, TakeUp, Rollback, registry
<1>10. ASSUME NEW r \in Requests, FinishRun(r) PROVE Goal
  BY <1>10 DEF FinishRun, Commit, Finish, IsRegistered, Respond, registry
<1>11. ASSUME NEW r \in Requests, RunRaises(r) PROVE Goal
  BY <1>11 DEF RunRaises, Rollback, TakeUp, Finish, IsRegistered, Respond, registry
<1>12. ASSUME NEW r \in Requests, EndErrorStream(r) PROVE Goal
  BY <1>12 DEF EndErrorStream, Finish, IsRegistered, Respond, registry
<1>13. ASSUME NEW r \in Requests, FinaliseStream(r) PROVE Goal
  BY <1>13 DEF FinaliseStream, Finish, IsRegistered, Respond, registry
<1>14. ASSUME NEW r \in Requests, CancelReturns(r) PROVE Goal
  BY <1>14 DEF CancelReturns, Respond, registry
<1>15. ASSUME NEW r \in Requests, Disconnect(r) PROVE Goal
  BY <1>15 DEF Disconnect, Rollback, TakeUp, Finish, IsRegistered, Respond, registry
<1>16. CASE Restart
  BY <1>16 DEF Restart, InProgress
<1>17. CASE UNCHANGED vars
  BY <1>17 DEF vars, registry, request
<1> HIDE DEF Goal
<1> QED
  BY <1>1, <1>2, <1>3, <1>4, <1>5, <1>6, <1>7, <1>8, <1>9, <1>10, <1>11, <1>12, <1>13, <1>14, <1>15,
     <1>16, <1>17 DEF Next, Proceed

(* A handle belongs to a run that has no result yet. *)
LEMMA HandleStep ==
  IInv /\ [Next]_vars =>
    (\A z \in Requests : handle[z] # None =>
             LET q == handle[z]
             IN /\ root[q] = z /\ completion[q] = None
                /\ InProgress(q) \/ (kind[q] = "edit" /\ answer[q] = "error"))'
<1> DEFINE Goal ==
       (\A z \in Requests : handle[z] # None =>
                LET q == handle[z]
                IN /\ root[q] = z /\ completion[q] = None
                   /\ InProgress(q) \/ (kind[q] = "edit" /\ answer[q] = "error"))'
<1> SUFFICES ASSUME IInv, [Next]_vars PROVE Goal
  OBVIOUS
<1> USE DEF IInv, RunsAreRegistered, IsRegistered, HandlesOK, Holds, InProgress, TypeOK, RequestsOK, RequestOK,
    Kinds, Runs, Chats, Edits, Streams
<1>1. ASSUME NEW r \in Requests, NEW s \in Sessions, NEW k \in Kinds, Refuse(r, k, s) PROVE Goal
  BY <1>1 DEF Refuse, ArriveAndAnswer, Arrive, registry
<1>2. ASSUME NEW r \in Requests, NEW s \in Sessions, NEW k \in Kinds, RefuseInNewSession(r, k, s) PROVE Goal
  BY <1>2 DEF RefuseInNewSession, ArriveAndAnswer, Arrive, registry
<1>3. ASSUME NEW r \in Requests, NEW s \in Sessions, StartChat(r, s) PROVE Goal
  BY <1>3 DEF StartChat, MessageIsRefused, Arrive, RootAgent, Rows, Begin, WithMessage, SessionRow, Register
<1>4. ASSUME NEW r \in Requests, NEW s \in Sessions, AnnounceChat(r, s) PROVE Goal
  BY <1>4 DEF AnnounceChat, MessageIsRefused, Arrive, RootAgent, Begin, WithMessage, SessionRow, registry
<1>5. ASSUME NEW r \in Requests, NEW s \in Sessions, StartDelivery(r, s) PROVE Goal
  BY <1>5 DEF StartDelivery, DeliveryIsRefused, Arrive, Begin, registry
<1>6. ASSUME NEW r \in Requests, NEW s \in Sessions, NEW k \in Edits, StartEdit(r, k, s) PROVE Goal
  BY <1>6 DEF StartEdit, EditIsRefused, ActiveRun, AgentsOK, Arrive, RootAgent, Rows, Begin, Register
<1>7. ASSUME NEW r \in Requests, NEW s \in Sessions, Queue(r, s) PROVE Goal
  BY <1>7 DEF Queue, QueueIsRefused, ArriveAndAnswer, Arrive, registry
<1>8. ASSUME NEW r \in Requests, NEW s \in Sessions, Cancel(r, s) PROVE Goal
  BY <1>8 DEF Cancel, ActiveRun, ArriveAndAnswer, Arrive, registry
<1>9. ASSUME NEW r \in Requests, StartStream(r) PROVE Goal
  BY <1>9 DEF StartStream, Register, TakeUp, Rollback, registry
<1>10. ASSUME NEW r \in Requests, FinishRun(r) PROVE Goal
  BY <1>10 DEF FinishRun, Commit, Finish, IsRegistered, Respond, registry
<1>11. ASSUME NEW r \in Requests, RunRaises(r) PROVE Goal
  BY <1>11 DEF RunRaises, Rollback, TakeUp, Finish, IsRegistered, Respond, registry
<1>12. ASSUME NEW r \in Requests, EndErrorStream(r) PROVE Goal
  BY <1>12 DEF EndErrorStream, Finish, IsRegistered, Respond, registry
<1>13. ASSUME NEW r \in Requests, FinaliseStream(r) PROVE Goal
  BY <1>13 DEF FinaliseStream, Finish, IsRegistered, Respond, registry
<1>14. ASSUME NEW r \in Requests, CancelReturns(r) PROVE Goal
  BY <1>14 DEF CancelReturns, Respond, registry
<1>15. ASSUME NEW r \in Requests, Disconnect(r) PROVE Goal
  BY <1>15 DEF Disconnect, Rollback, TakeUp, Finish, IsRegistered, Respond, registry
<1>16. CASE Restart
  BY <1>16 DEF Restart, InProgress
<1>17. CASE UNCHANGED vars
  BY <1>17 DEF vars, registry, request
<1> HIDE DEF Goal
<1> QED
  BY <1>1, <1>2, <1>3, <1>4, <1>5, <1>6, <1>7, <1>8, <1>9, <1>10, <1>11, <1>12, <1>13, <1>14, <1>15,
     <1>16, <1>17 DEF Next, Proceed

(* The run that a cancel waits for keeps its handle until it has a result. *)
LEMMA AwaitingStep ==
  IInv /\ [Next]_vars =>
    \A c \in Requests : phase'[c] = "awaiting" /\ completion'[awaited'[c]] = None =>
      IsRegistered(awaited[c])'
<1> SUFFICES ASSUME IInv, [Next]_vars, NEW c \in Requests, phase'[c] = "awaiting"
             PROVE  completion'[awaited'[c]] = None => IsRegistered(awaited[c])'
  OBVIOUS
<1> DEFINE Goal == completion'[awaited'[c]] = None => IsRegistered(awaited[c])'
<1> SUFFICES Goal
  OBVIOUS
<1>t. TypeOK /\ RequestsOK
  BY DEF IInv
<1>a. ASSUME phase[c] = "awaiting", awaited'[c] = awaited[c], root' = root,
             NEW r \in Requests, NEW a \in Answers, Finish(r, a)
      PROVE  Goal
  <2>1. awaited[c] \in Requests /\ root[awaited[c]] \in Requests \union {None}
    BY <1>a, <1>t DEF RequestsOK, RequestOK, TypeOK
  <2>2. completion[awaited[c]] = None => IsRegistered(awaited[c])
    BY <1>a DEF IInv, RunsAreRegistered
  <2> QED
    BY <1>a, <1>t, <2>1, <2>2, FinishEffect DEF IsRegistered
<1>b. ASSUME phase[c] = "awaiting", awaited'[c] = awaited[c], root' = root, UNCHANGED registry
      PROVE  Goal
  BY <1>b DEF IInv, RunsAreRegistered, registry, IsRegistered
<1>c. ASSUME NEW r \in Requests, NEW p \in Phases \ {"awaiting"},
             phase' = [phase EXCEPT ![r] = p], UNCHANGED <<kind, session, root, awaited>>
      PROVE  phase[c] = "awaiting" /\ awaited'[c] = awaited[c] /\ root' = root
  BY <1>c, <1>t DEF TypeOK
<1>k. {"failed", "cancelled"} \subseteq Answers /\ {"done", "erroring", "dropped", "running"} \subseteq Phases
  BY DEF Answers, Roots, AtRest, Phases
<1>1. ASSUME NEW r \in Requests, FinishRun(r) PROVE Goal
  <2>1. PICK row \in Outcomes(r) : Finish(r, row.root)
    BY <1>1 DEF FinishRun
  <2>2. row.root \in Answers
    BY <1>t, OutcomeType
  <2> QED
    BY <1>1, <1>a, <1>c, <1>k, <2>1, <2>2 DEF FinishRun, Respond
<1>2. ASSUME NEW r \in Requests, RunRaises(r) \/ Disconnect(r) \/ EndErrorStream(r) \/ FinaliseStream(r)
      PROVE  Goal
  <2>1. phase[c] = "awaiting" /\ awaited'[c] = awaited[c] /\ root' = root
    BY <1>2, <1>c, <1>k DEF RunRaises, Disconnect, EndErrorStream, FinaliseStream, Respond, TakeUp
  <2>2. UNCHANGED registry \/ Finish(r, "failed") \/ Finish(r, "cancelled")
    BY <1>2 DEF RunRaises, Disconnect, EndErrorStream, FinaliseStream
  <2> QED
    BY <1>a, <1>b, <1>k, <2>1, <2>2
<1> USE DEF IInv, RunsAreRegistered, IsRegistered, TypeOK, RequestsOK, RequestOK, Kinds, Runs, Chats, Edits, Streams
<1>3. ASSUME NEW r \in Requests, NEW s \in Sessions, NEW k \in Kinds, Refuse(r, k, s) PROVE Goal
  BY <1>3 DEF Refuse, ArriveAndAnswer, Arrive, registry
<1>4. ASSUME NEW r \in Requests, NEW s \in Sessions, NEW k \in Kinds, RefuseInNewSession(r, k, s) PROVE Goal
  BY <1>4 DEF RefuseInNewSession, ArriveAndAnswer, Arrive, registry
<1>5. ASSUME NEW r \in Requests, NEW s \in Sessions, StartChat(r, s) PROVE Goal
  BY <1>5 DEF StartChat, MessageIsRefused, Arrive, RootAgent, Begin, WithMessage, SessionRow, Register
<1>6. ASSUME NEW r \in Requests, NEW s \in Sessions, AnnounceChat(r, s) PROVE Goal
  BY <1>6 DEF AnnounceChat, MessageIsRefused, Arrive, RootAgent, Begin, WithMessage, SessionRow, registry
<1>7. ASSUME NEW r \in Requests, NEW s \in Sessions, StartDelivery(r, s) PROVE Goal
  BY <1>7 DEF StartDelivery, DeliveryIsRefused, Arrive, Begin, registry
<1>8. ASSUME NEW r \in Requests, NEW s \in Sessions, NEW k \in Edits, StartEdit(r, k, s) PROVE Goal
  BY <1>8 DEF StartEdit, EditIsRefused, ActiveRun, Arrive, RootAgent, Begin, Register
<1>9. ASSUME NEW r \in Requests, NEW s \in Sessions, Queue(r, s) PROVE Goal
  BY <1>9 DEF Queue, QueueIsRefused, ArriveAndAnswer, Arrive, registry
<1>10. ASSUME NEW r \in Requests, NEW s \in Sessions, Cancel(r, s) PROVE Goal
  BY <1>10 DEF Cancel, ActiveRun, Rows, ArriveAndAnswer, Arrive, registry
<1>11. ASSUME NEW r \in Requests, StartStream(r) PROVE Goal
  BY <1>11 DEF StartStream, Register, TakeUp, Rollback, registry
<1>12. ASSUME NEW r \in Requests, CancelReturns(r) PROVE Goal
  BY <1>12 DEF CancelReturns, Respond, registry
<1>13. CASE Restart
  BY <1>13 DEF Restart, InProgress
<1>14. CASE UNCHANGED vars
  BY <1>14, <1>b DEF vars, request
<1> HIDE DEF Goal, IInv, RunsAreRegistered, IsRegistered, TypeOK, RequestsOK, RequestOK, Kinds, Runs, Chats, Edits,
    Streams
<1> QED
  BY <1>1, <1>2, <1>3, <1>4, <1>5, <1>6, <1>7, <1>8, <1>9, <1>10, <1>11, <1>12, <1>13, <1>14 DEF Next,
     Proceed

(* The four parts of RunsAreRegistered together. *)
LEMMA RegisteredStep == IInv /\ [Next]_vars => RunsAreRegistered'
<1> SUFFICES ASSUME IInv, [Next]_vars PROVE RunsAreRegistered'
  OBVIOUS
<1>1. ASSUME NEW q \in Requests, phase'[q] = "running", kind'[q] \in Runs
      PROVE  (/\ IsRegistered(q) /\ draft.agent = root[q]
              /\ ActiveRun(session[q]) = IF root[q] = q THEN None ELSE q)'
  <2>1. IsRegistered(q)' /\ writer' = q /\ session'[q] \in Sessions
    BY <1>1, RunningStep, HoldsStep, RequestsStep DEF Holds, RequestsOK, RequestOK
  <2>2. /\ root'[q] = RootAgent(q, session[q])' /\ draft'.agent = root'[q]
        /\ db'[session'[q]].agent # None => phase'[db'[session'[q]].agent] = "done"
    BY <1>1, <2>1, AgentsStep DEF AgentsOK
  <2> QED
    BY <1>1, <2>1, <2>2 DEF RootAgent, ActiveRun, IsRegistered
<1> QED
  BY <1>1, HoldsStep, HandleStep, AwaitingStep DEF RunsAreRegistered

(* The invariant holds at the start. *)
LEMMA InitIInv == Init => IInv
<1> SUFFICES ASSUME Init PROVE IInv
  OBVIOUS
<1> USE DEF Init
<1>1. TypeOK
  BY DEF TypeOK, Rows, NoRow, Roots, Phases
<1>2. RequestsOK /\ HandlesOK /\ AgentsOK /\ DraftOK
  BY DEF RequestsOK, RequestOK, HandlesOK, AgentsOK, NoRow, DraftOK
<1>3. StoredOK /\ RestOK /\ QueueIsServed
  BY DEF StoredOK, RestOK, QueueIsServed, NoRow
<1>4. RunsAreRegistered /\ CancelOutlastsRun
  BY DEF RunsAreRegistered, CancelOutlastsRun, Holds
<1> QED
  BY <1>1, <1>2, <1>3, <1>4 DEF IInv

(* Every step keeps the invariant. *)
LEMMA NextIInv == IInv /\ [Next]_vars => IInv'
<1> SUFFICES ASSUME IInv, [Next]_vars PROVE IInv'
  OBVIOUS
<1>1. TypeOK' /\ RequestsOK'
  BY TypeStep, RequestsStep DEF IInv
<1>2. HandlesOK' /\ AgentsOK' /\ DraftOK' /\ StoredOK' /\ RestOK' /\ QueueIsServed' /\ CancelOutlastsRun'
  BY HandlesStep, AgentsStep, DraftStep, StoredStep, QueueStep, OutlastsStep
<1>3. RunsAreRegistered'
  BY RegisteredStep
<1> QED
  BY <1>1, <1>2, <1>3 DEF IInv

-------------------------------------------------------------------------------
(* Theorems.                                                               *)

(* The invariant holds in every state that the service reaches. *)
THEOREM InvariantHolds == Spec => []IInv
<1>1. Init => IInv
  BY InitIInv
<1>2. IInv /\ [Next]_vars => IInv'
  BY NextIInv
<1> QED
  BY <1>1, <1>2, PTL DEF Spec

(* No session is ever committed with a root agent in state running: only   *)
(* runs that have come back are, so that a restart needs no recovery.      *)
THEOREM OnlyRestIsCommitted == Spec => []CommittedAtRest
<1>1. IInv => CommittedAtRest
  BY DEF IInv, RestOK, CommittedAtRest
<1> QED
  BY <1>1, InvariantHolds, PTL

(* One run at most is going, and it alone holds the write lock; the        *)
(* registry has it unless it is a delivery, under the root agent by which  *)
(* a cancel looks for it, unless that agent is new and not committed.      *)
THEOREM RunsAreFound == Spec => []RunsAreRegistered
<1>1. IInv => RunsAreRegistered
  BY DEF IInv
<1> QED
  BY <1>1, InvariantHolds, PTL

(* A queued message always has a waiting root that will take it out.       *)
THEOREM QueueNeverStrands == Spec => []QueueIsServed
<1>1. IInv => QueueIsServed
  BY DEF IInv
<1> QED
  BY <1>1, InvariantHolds, PTL

(* A message whose request failed, or lost its client, is stored nowhere.  *)
THEOREM FailedIsForgotten == Spec => []NoGhostMessages
<1>1. IInv => NoGhostMessages
  BY DEF IInv, StoredOK, NoGhostMessages
<1> QED
  BY <1>1, InvariantHolds, PTL

(* The answer to a cancel comes after the run that it cancelled is over.   *)
THEOREM CancelComesAfterRun == Spec => []CancelOutlastsRun
<1>1. IInv => CancelOutlastsRun
  BY DEF IInv
<1> QED
  BY <1>1, InvariantHolds, PTL

(* A chat or a queue is acknowledged by the end of its run or at once.     *)
LEMMA AcknowledgedStep ==
  IInv /\ [Next]_vars =>
    \A q \in Requests :
      answer[q] # "ok" /\ answer'[q] = "ok" /\ kind'[q] \in Chats \union {"queue"} =>
        (\E z \in Sessions : Queue(q, z)) \/ FinishRun(q)
<1> DEFINE Goal ==
       \A q \in Requests :
         answer[q] # "ok" /\ answer'[q] = "ok" /\ kind'[q] \in Chats \union {"queue"} =>
           (\E z \in Sessions : Queue(q, z)) \/ FinishRun(q)
<1> SUFFICES ASSUME IInv, [Next]_vars PROVE Goal
  OBVIOUS
<1> USE DEF IInv, TypeOK, RequestsOK, RequestOK, Roots, AtRest, Chats
<1>1. ASSUME NEW r \in Requests, NEW s \in Sessions, NEW k \in Kinds, Refuse(r, k, s) PROVE Goal
  BY <1>1 DEF Refuse, ArriveAndAnswer, Arrive, registry
<1>2. ASSUME NEW r \in Requests, NEW s \in Sessions, NEW k \in Kinds, RefuseInNewSession(r, k, s) PROVE Goal
  BY <1>2 DEF RefuseInNewSession, ArriveAndAnswer, Arrive, registry
<1>3. ASSUME NEW r \in Requests, NEW s \in Sessions, StartChat(r, s) PROVE Goal
  BY <1>3 DEF StartChat, MessageIsRefused, Arrive, RootAgent, Begin, WithMessage, SessionRow, Register
<1>4. ASSUME NEW r \in Requests, NEW s \in Sessions, AnnounceChat(r, s) PROVE Goal
  BY <1>4 DEF AnnounceChat, MessageIsRefused, Arrive, RootAgent, Begin, WithMessage, SessionRow, registry
<1>5. ASSUME NEW r \in Requests, NEW s \in Sessions, StartDelivery(r, s) PROVE Goal
  BY <1>5 DEF StartDelivery, DeliveryIsRefused, Arrive, Begin, registry
<1>6. ASSUME NEW r \in Requests, NEW s \in Sessions, NEW k \in Edits, StartEdit(r, k, s) PROVE Goal
  BY <1>6 DEF StartEdit, EditIsRefused, ActiveRun, Arrive, RootAgent, Begin, Register
<1>7. ASSUME NEW r \in Requests, NEW s \in Sessions, Queue(r, s) PROVE Goal
  BY <1>7 DEF Queue, QueueIsRefused, ArriveAndAnswer, Arrive, registry
<1>8. ASSUME NEW r \in Requests, NEW s \in Sessions, Cancel(r, s) PROVE Goal
  BY <1>8 DEF Cancel, ActiveRun, ArriveAndAnswer, Arrive, registry
<1>9. ASSUME NEW r \in Requests, StartStream(r) PROVE Goal
  BY <1>9 DEF StartStream, Register, TakeUp, Rollback, registry
<1>10. ASSUME NEW r \in Requests, FinishRun(r) PROVE Goal
  <2>1. \A q \in Requests : q # r => answer'[q] = answer[q]
    BY <1>10 DEF FinishRun, Respond
  <2> QED
    BY <1>10, <2>1
<1>11. ASSUME NEW r \in Requests, RunRaises(r) PROVE Goal
  BY <1>11 DEF RunRaises, Rollback, TakeUp, Finish, IsRegistered, Respond, registry
<1>12. ASSUME NEW r \in Requests, EndErrorStream(r) PROVE Goal
  BY <1>12 DEF EndErrorStream, Finish, IsRegistered, Respond, registry
<1>13. ASSUME NEW r \in Requests, FinaliseStream(r) PROVE Goal
  BY <1>13 DEF FinaliseStream, Finish, IsRegistered, Respond, registry
<1>14. ASSUME NEW r \in Requests, CancelReturns(r) PROVE Goal
  BY <1>14 DEF CancelReturns, Respond, registry
<1>15. ASSUME NEW r \in Requests, Disconnect(r) PROVE Goal
  BY <1>15 DEF Disconnect, Rollback, TakeUp, Finish, IsRegistered, Respond, registry
<1>16. CASE Restart
  BY <1>16 DEF Restart, InProgress
<1>17. CASE UNCHANGED vars
  BY <1>17 DEF vars, registry, request
<1> HIDE DEF Goal
<1> QED
  BY <1>1, <1>2, <1>3, <1>4, <1>5, <1>6, <1>7, <1>8, <1>9, <1>10, <1>11, <1>12, <1>13, <1>14, <1>15,
     <1>16, <1>17 DEF Next, Proceed

(* A message that was acknowledged is stored, and only an edit that is     *)
(* acknowledged takes a stored message away.                               *)
THEOREM AcknowledgedIsKept == Spec => MessagesAreKept
<1> DEFINE Said(row) == row.queue \union row.said
<1>1. ASSUME IInv, [Next]_vars, NEW q \in Requests,
             answer[q] # "ok", answer'[q] = "ok", kind'[q] \in Chats \union {"queue"}
      PROVE  q \in Said(db'[session'[q]])
  <2>1. ASSUME NEW s \in Sessions, Queue(q, s) PROVE q \in Said(db'[session'[q]])
    BY <1>1, <2>1 DEF Queue, ArriveAndAnswer, Arrive, IInv, TypeOK, Rows
  <2>2. CASE FinishRun(q)
    <3>1. session' = session /\ kind' = kind /\ kind[q] # "queue"
      BY <1>1, <2>2 DEF FinishRun, Respond, IInv, RequestsOK, RequestOK, Runs, Chats, Edits
    <3>2. kind[q] \in Chats /\ kind[q] \notin Edits
      BY <1>1, <3>1 DEF Chats, Edits
    <3> QED
      BY <1>1, <2>2, <3>1, <3>2, RunsKeepMessages
  <2> QED
    BY <1>1, <2>1, <2>2, AcknowledgedStep
<1>2. ASSUME IInv, [Next]_vars, NEW s \in Sessions
      PROVE  \/ Said(db[s]) \subseteq Said(db'[s])
             \/ \E r \in Requests :
                  kind[r] \in Edits /\ session[r] = s /\ answer[r] # "ok" /\ answer'[r] = "ok"
  <2>1. ASSUME NEW r \in Requests, NEW z \in Sessions, Queue(r, z) PROVE Said(db[s]) \subseteq Said(db'[s])
    BY <1>2, <2>1 DEF Queue, IInv, TypeOK, Rows
  <2>2. ASSUME NEW r \in Requests, FinishRun(r), kind[r] \notin Edits PROVE Said(db[s]) \subseteq Said(db'[s])
    BY <1>2, <2>2, RunsKeepMessages
  <2>3. ASSUME NEW r \in Requests, FinishRun(r), kind[r] \in Edits
        PROVE  Said(db[s]) \subseteq Said(db'[s]) \/ (session[r] = s /\ answer[r] # "ok" /\ answer'[r] = "ok")
    <3>1. "ok" # None
      BY DEF Answers
    <3>2. answer[r] # "ok" /\ answer'[r] = "ok"
      BY <1>2, <2>3, <3>1 DEF FinishRun, Respond, IInv, TypeOK, RequestsOK, RequestOK
    <3>3. s # session[r] => db'[s] = db[s]
      BY <1>2, <2>3 DEF FinishRun, Commit, IInv, TypeOK
    <3> QED
      BY <3>2, <3>3
  <2> QED
    BY <1>2, <2>1, <2>2, <2>3, MessagesStay
<1>3. IInv /\ [Next]_vars =>
        [/\ \A r \in Requests :
              answer[r] # "ok" /\ answer'[r] = "ok" /\ kind'[r] \in Chats \union {"queue"} =>
                r \in db'[session'[r]].queue \union db'[session'[r]].said
         /\ \A s \in Sessions :
              \/ db[s].queue \union db[s].said \subseteq db'[s].queue \union db'[s].said
              \/ \E r \in Requests :
                   kind[r] \in Edits /\ session[r] = s /\ answer[r] # "ok" /\ answer'[r] = "ok"]_vars
  BY <1>1, <1>2
<1> QED
  BY <1>3, InvariantHolds, PTL DEF Spec, MessagesAreKept

===============================================================================
