------------------------------ MODULE Transcript ------------------------------
(***************************************************************************)
(* The transcripts of a session's agents: the items that the Runner's      *)
(* actions store, the messages a provider is given of them, the queued     *)
(* messages of a waiting session, the rewind that an edited message causes *)
(* and the answer that a request gets.  Sources: chat_service.py,          *)
(* runner.py, message_queue.py, the item and queued input repositories and *)
(* OpenRouterProvider._build_messages.                                     *)
(*                                                                         *)
(* The module puts its variables on top of the Runner's.  A request runs   *)
(* alone: a run writes its first row, which takes SQLite's write lock      *)
(* until the commit, before it suspends for the first time, and a request  *)
(* that writes meanwhile blocks the only event loop until it fails.  The   *)
(* stamp `at` of an item is its created_at: the clock advances with every  *)
(* item and with every message that is accepted into the queue.            *)
(***************************************************************************)
EXTENDS Runner, SequencesExt

CONSTANT MaxRequests   \* bound: chats, deliveries and edits of the session

ASSUME MaxRequestsAssumption == MaxRequests \in Nat

VARIABLES items,       \* the items of each agent, in the order of `sequence`
          clock,       \* the latest created_at or accepted_at
          pending,     \* accepted_at of the root's queued inputs, in that order
          request,     \* the request being served, or the last one served
          loose,       \* history: calls that a cancelled run or a rewind left open
          gone,        \* history: calls that a rewind removed
          rewound      \* history: the clock at the last rewind

itemVars       == <<items, clock, pending, request, loose, gone, rewound>>
transcriptVars == <<vars, itemVars>>

Kinds == {"user", "text", "call", "out"}
Item(kind, c, at) == [kind |-> kind, call |-> c, at |-> at]
Text    == [kind |-> "text", call |-> None]
User    == [kind |-> "user", call |-> None]
Call(c) == [kind |-> "call", call |-> c]

StampsOf(s) == {s[i].at : i \in DOMAIN s}
CallsOf(s)  == {s[i].call : i \in {j \in DOMAIN s : s[j].kind = "call"}}
Stamps      == UNION {StampsOf(items[a]) : a \in Agents}

(* The elements of s at the places that are wanted, in their order. *)
Selected(s, wanted) == FlattenSeq([i \in DOMAIN s |-> IF i \in wanted THEN <<s[i]>> ELSE <<>>])

(* What the Runner's log keeps of a transcript. *)
LogOf(s) ==
  FlattenSeq([i \in DOMAIN s |-> CASE s[i].kind = "call" -> <<CallItem(s[i].call)>>
                                    [] s[i].kind = "out"  -> <<OutputItem(s[i].call)>>
                                    [] OTHER              -> <<>>])

TranscriptInit ==
  /\ Init
  /\ items   = [a \in Agents |-> <<>>]
  /\ clock   = 0
  /\ pending = <<>>
  /\ request = [agent |-> None, last |-> 0, known |-> {}, since |-> 0, number |-> 0]
  /\ loose   = {}
  /\ gone    = {}
  /\ rewound = 0

-------------------------------------------------------------------------------
(* Items are stored.                                                       *)

(* The next sequence numbers of an agent, stored one after the other. *)
Stamped(new) == [i \in DOMAIN new |-> Item(new[i].kind, new[i].call, clock + i)]

(* Wrong: what was queued last is taken up first. *)
MaterializedLastFirst == [i \in DOMAIN pending |-> Item("user", None, pending[Len(pending) + 1 - i])]

(* consume_into_items: every pending input becomes a user message of the   *)
(* root that was created when it was accepted.                             *)
Materialized == [i \in DOMAIN pending |-> Item("user", None, pending[i])]

(* Wrong: a queued message becomes an item and stays pending. *)
PendingAfterKept(consumed) == pending

PendingAfter(consumed) == IF consumed THEN <<>> ELSE pending

(* A step of the runner stores `new` for agent a, and then the queued      *)
(* inputs if it consumed them.                                             *)
Store(a, new) ==
  LET consumed == queued' < queued
  IN /\ items' = [x \in Agents |->
                    items[x] \o (IF x = a THEN Stamped(new) ELSE <<>>)
                             \o (IF x = Root /\ consumed THEN Materialized ELSE <<>>)]
     /\ clock'   = clock + Len(new)
     /\ pending' = PendingAfter(consumed)
     /\ loose'   = loose \union
                     UNION {Open(x)' : x \in {y \in Agents : status'[y] = "cancelled" /\ status[y] # "cancelled"}}
     /\ UNCHANGED <<gone, rewound>>

-------------------------------------------------------------------------------
(* The run of a request.                                                   *)

(* A response's text parts are joined into one message, none if empty. *)
TextParts == {<<>>, <<Text>>}

OtherStep(a) ==
  \/ StartRun(a) \/ StopBeforeTurn(a) \/ ExecuteTurn(a) \/ GenerateFails(a)
  \/ CancelAtCall(a) \/ RejectCall(a) \/ AwaitTool(a) \/ AskHuman(a)
  \/ SyncToolReturns(a) \/ McpToolReturns(a) \/ EndTurn(a)
  \/ \E b \in Agents : ChildReturns(a, b)
  \/ RequestEnds(a) \/ PropagateChildResult(a)

(* What a step appends to the log of x. *)
Logged(x) ==
  LET new == SubSeq(log'[x], Len(log[x]) + 1, Len(log'[x]))
  IN [i \in DOMAIN new |-> [kind |-> "out", call |-> new[i].call]]

RunStep(a) ==
  /\ \/ \E text \in TextParts : FinalAnswer(a) /\ Store(a, text)
     \/ \E text \in TextParts : \E cs \in Batches :
          /\ ToSet(cs) \intersect gone = {}
          /\ StoreCalls(a, cs)
          /\ Store(a, text \o [i \in DOMAIN cs |-> Call(cs[i])])
     \/ \E b \in Agents : Delegate(a, b) /\ Store(b, <<User>>)
     \/ /\ OtherStep(a)
        /\ LET x == CHOOSE x \in Agents : log' = log \/ log'[x] # log[x] IN Store(x, Logged(x))
  /\ UNCHANGED request

-------------------------------------------------------------------------------
(* Requests.                                                               *)

(* The request remembers what the answer will be computed from: the agent, *)
(* its last sequence number and the items the session has.                 *)
Serve(a, last, known) ==
  /\ request.number < MaxRequests
  /\ request' = [agent |-> a, last |-> last, known |-> known, since |-> clock,
                 number |-> request.number + 1]

(* prepare_chat: the user's message is stored before the root runs. *)
Submit ==
  /\ StartChat
  /\ Serve(Root, Len(items[Root]), Stamps)
  /\ Store(Root, <<User>>)

(* _queue_session_input *)
QueueInput ==
  /\ Enqueue
  /\ clock'   = clock + 1
  /\ pending' = Append(pending, clock + 1)
  /\ UNCHANGED <<items, request, loose, gone, rewound>>

(* b is what agent a waits for, at the end of a chain of delegate waits of *)
(* which each agent below a is in the set through.                         *)
WaitPath(a, b, through) ==
  LET up[n \in 0..depth[b]] == IF n = 0 THEN b ELSE parent[up[n - 1]]
  IN \E n \in 0..depth[b] :
       /\ up[n] = a
       /\ \A m \in 0..n : status[up[m]] = "waiting"
       /\ \A m \in 0..(n - 1) :
            up[m] \in through /\ [call |-> source[up[m]], type |-> "agent"] \in waiting[up[m + 1]]

(* A delivery goes to an agent that has the human wait, or to one from     *)
(* which each delegate wait leads to an agent with one wait only.          *)
Addressees(b) ==
  {a \in Agents : WaitPath(a, b, {x \in Agents : Cardinality(waiting[x]) = 1})}

DeliverResult(b, e) ==
  /\ \E a \in Addressees(b) : Serve(a, Len(items[a]), Stamps)
  /\ Deliver(b, e)
  /\ Store(b, Logged(b))

CancelRequest == Cancel /\ UNCHANGED itemVars

(* Wrong: only the root's transcript is rewound. *)
KeptOfRoot(a, at) ==
  IF a = Root THEN Selected(items[a], {i \in DOMAIN items[a] : items[a][i].at <= at}) ELSE items[a]

(* The items that are not newer than the edited one, in all agents. *)
Kept(a, at) == Selected(items[a], {i \in DOMAIN items[a] : items[a][i].at <= at})

(* Wrong: a child that waits goes on waiting after the rewind. *)
RewoundKeepsWaits(a, stays) ==
  CASE a = Root      -> [status |-> "pending", waiting |-> {}]
    [] a \notin stays -> [status |-> "absent", waiting |-> {}]
    [] OTHER         -> [status |-> status[a], waiting |-> waiting[a]]

(* The row of an agent after the rewind; agents without an item left are   *)
(* deleted.                                                                *)
Rewound(a, stays) ==
  CASE a = Root                                    -> [status |-> "pending", waiting |-> {}]
    [] a \notin stays                               -> [status |-> "absent", waiting |-> {}]
    [] a \in stays \ {Root} /\ status[a] = "waiting" -> [status |-> "completed", waiting |-> {}]
    [] OTHER                                       -> [status |-> status[a], waiting |-> waiting[a]]

(* A queued message stands behind items that are newer than it. *)
OutOfOrder(n) == \E i \in 1..(n - 1) : items[Root][i].at > items[Root][n].at

(* Wrong: the answer to an edit starts at the end of the old transcript. *)
AnchorSequenceStale(n, at) == Len(items[Root])

(* clear_pending: what nobody consumed is deleted. *)
ClearPending == pending' = <<>> /\ queued' = 0

(* The sequence number of the edited message in the rewound transcript. *)
AnchorSequence(n, at) == Cardinality({i \in 1..n : items[Root][i].at <= at})

(* _prepare_edit_setup and _rewind_session_from_item for the n-th item of  *)
(* the root, a user message.                                               *)
Edit(n) ==
  LET at    == items[Root][n].at
      stays == {a \in Agents : a = Root \/ Kept(a, at) # <<>>}
      Row(a, old, none) == IF a \in stays THEN old ELSE none
  IN /\ current = None
     /\ items[Root][n].kind = "user"
     /\ items' = [a \in Agents |-> Kept(a, at)]
     /\ log'   = [a \in Agents |-> LogOf(items'[a])]
     /\ status'  = [a \in Agents |-> Rewound(a, stays).status]
     /\ waiting' = [a \in Agents |-> Rewound(a, stays).waiting]
     /\ parent'  = [a \in Agents |-> Row(a, parent[a], None)]
     /\ source'  = [a \in Agents |-> Row(a, source[a], None)]
     /\ depth'   = [a \in Agents |-> Row(a, depth[a], 0)]
     /\ ClearPending
     /\ Serve(Root, AnchorSequence(n, at), {s \in Stamps : s <= at})
     /\ Enter(Root)
     /\ gone'    = gone \union UNION {CallsOf(items[a]) \ CallsOf(items'[a]) : a \in Agents}
     /\ loose'   = loose \union (IF OutOfOrder(n) THEN Open(Root)' ELSE {})
     /\ rewound' = clock
     /\ UNCHANGED <<clock, todo, waits, turns, delivering, signal>>

(* Between requests the session rests. *)
AtRest == current = None /\ UNCHANGED transcriptVars

TranscriptNext ==
  \/ Submit \/ QueueInput \/ CancelRequest
  \/ \E b \in Agents : \E e \in waiting[b] : DeliverResult(b, e)
  \/ \E n \in DOMAIN items[Root] : Edit(n)
  \/ \E a \in Agents : RunStep(a)
  \/ AtRest

TranscriptSpec == TranscriptInit /\ [][TranscriptNext]_transcriptVars

-------------------------------------------------------------------------------
(* What is made of the items.                                              *)

(* Calls that stand next to each other are one assistant message. *)
AddMessage(ms, i) ==
  IF i.kind = "call" /\ ms # <<>> /\ Last(ms).role = "calls"
  THEN [ms EXCEPT ![Len(ms)].calls = @ \union {i.call}]
  ELSE Append(ms, CASE i.kind = "call" -> [role |-> "calls", calls |-> {i.call}]
                    [] i.kind = "out"  -> [role |-> "tool", calls |-> {i.call}]
                    [] i.kind = "text" -> [role |-> "assistant", calls |-> {}]
                    [] i.kind = "user" -> [role |-> "user", calls |-> {}])

(* map_items_to_provider_input, then _build_messages. *)
Messages(a) ==
  LET upto[n \in 0..Len(items[a])] ==
        IF n = 0 THEN <<>> ELSE AddMessage(upto[n - 1], items[a][n])
  IN upto[Len(items[a])]

(* list_by_session_chronological *)
Chronological ==
  LET all == UNION {ToSet(items[a]) : a \in Agents}
  IN [n \in 1..Cardinality(all) |->
        CHOOSE i \in all : Cardinality({j \in all : j.at <= i.at}) = n]

(* _build_chat_output without and with tool results. *)
PlainAnswer ==
  LET new == SubSeq(items[request.agent], request.last + 1, Len(items[request.agent]))
  IN Selected(new, {i \in DOMAIN new : new[i].kind \in {"text", "call"}})
FullAnswer ==
  LET all == Chronological
  IN Selected(all, {i \in DOMAIN all : all[i].at \notin request.known /\ all[i].kind # "user"})

(* _collect_active_waiting_agents: the agent and the agents it waits for.  *)
ActiveWaiting(a) == {b \in Agents : WaitPath(a, b, Agents)}

(* _append_waiting_tool_results, for the answer with tool results. *)
AnswerWaits == UNION {waiting[b] : b \in ActiveWaiting(request.agent)}

-------------------------------------------------------------------------------
ItemSet == [kind : Kinds, call : Calls \union {None}, at : Nat]

(* Every variable has its type, and the transcripts carry the Runner's log *)
(* and queue.                                                              *)
TranscriptTypeOK ==
  /\ TypeOK
  /\ items \in [Agents -> Seq(ItemSet)]
  /\ clock \in Nat /\ rewound \in 0..clock
  /\ pending \in Seq(1..clock) /\ Len(pending) = queued
  /\ \A a \in Agents : LogOf(items[a]) = log[a]
  /\ request.agent \in Agents \union {None}
  /\ request.known \subseteq 1..clock
  /\ loose \subseteq Calls /\ gone \subseteq Calls

(* Whatever the order in which tools, children, people and queued messages *)
(* answered, a provider is given each tool result after the call it        *)
(* belongs to, and each group of calls is followed by the results of all   *)
(* its calls before any other message.  Only a call that a cancelled run   *)
(* or the edit of a queued message left open has no result.                *)
ToolCallsArePaired ==
  \A a \in Agents : pc[a] = "generate" =>
    LET ms == Messages(a)
        ResultsFollow(i, c) ==
          \E j \in (i + 1)..Len(ms) :
            /\ c \in ms[j].calls
            /\ \A k \in (i + 1)..j : ms[k].role = "tool"
    IN \A i \in DOMAIN ms :
         /\ ms[i].role = "calls" => \A c \in ms[i].calls \ loose : ResultsFollow(i, c)
         /\ ms[i].role = "tool" =>
              \E j \in 1..(i - 1) : ms[j].role = "calls" /\ ms[i].calls \subseteq ms[j].calls

(* A message that was accepted into the queue gets into the root's         *)
(* transcript once, unless an edit clears the queue, and the user's        *)
(* messages, several of one queue among them, stand there in the order in  *)
(* which they were accepted (consume_into_items, clear_pending).           *)
QueueIsTakenOnce ==
  /\ [](/\ \A s \in ToSet(pending) : s \notin Stamps
        /\ \A i, j \in DOMAIN items[Root] :
             items[Root][i].kind = "user" /\ items[Root][j].kind = "user" /\ i < j =>
               items[Root][i].at < items[Root][j].at)
  /\ [][(\A n \in DOMAIN items[Root] : ~Edit(n)) =>
          ToSet(pending) \subseteq ToSet(pending') \union Stamps']_transcriptVars

(* Every child agent that exists has the task it was created with as its   *)
(* first message, and the call that created it is older and stands in its  *)
(* parent's transcript: a rewind cuts all transcripts of a session at the  *)
(* same moment (_rewind_session_from_item).                                *)
AgentsHaveTasks ==
  \A b \in Agents \ {Root} : status[b] # "absent" =>
    /\ items[b] # <<>> /\ items[b][1].kind = "user"
    /\ \E i \in DOMAIN items[parent[b]] :
         /\ items[parent[b]][i].kind = "call" /\ items[parent[b]][i].call = source[b]
         /\ items[parent[b]][i].at < items[b][1].at

(* After a rewind nobody can answer a question that was asked before it:   *)
(* every wait belongs to a call that was issued later.                     *)
RewindEndsWaits ==
  \A a \in Agents : \A e \in waiting[a] :
    \E i \in DOMAIN items[a] :
      items[a][i].kind = "call" /\ items[a][i].call = e.call /\ items[a][i].at > rewound

(* The answer to a request has what its run stored and nothing older,      *)
(* whether the run followed a chat, a delivery or an edit: the texts and   *)
(* calls of the addressed agent, or those and the results of all agents.   *)
(* One that says "waiting" names a wait that a person can answer, at       *)
(* whatever depth (_collect_active_waiting_agents).                        *)
AnswerIsTheRun ==
  current = None /\ request.agent # None =>
    /\ LET own == items[request.agent]
       IN PlainAnswer = Selected(own, {i \in DOMAIN own :
                                         own[i].at > request.since /\ own[i].kind \in {"text", "call"}})
    /\ LET all == Chronological
       IN FullAnswer = Selected(all, {i \in DOMAIN all :
                                        all[i].at > request.since /\ all[i].kind # "user"})
    /\ status[request.agent] = "waiting" => \E e \in AnswerWaits : e.type = "human"

(* docs/basic-chat-improvements.md:231 says that the rewind must clear the *)
(* waits and the newer history so that the new run starts from a clean     *)
(* point.  The root's transcript then has no call without a result, but    *)
(* for those a cancelled run left there before.                            *)
EditStartsClean ==
  [][\A n \in DOMAIN items[Root] : Edit(n) => Open(Root)' \subseteq loose]_transcriptVars
===============================================================================
