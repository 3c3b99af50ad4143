-------------------------------- MODULE Runner --------------------------------
(***************************************************************************)
(* The agent loop of src/app/runtime/runner.py: Runner.run_agent with the  *)
(* turns it executes, the tool calls of a response, delegation to child    *)
(* agents, waits for a human, deliver_result and the way a child's result  *)
(* travels up to the agents that wait for it.                              *)
(*                                                                         *)
(* One request at a time drives the agent tree of one session.  The call   *)
(* stack of nested run_agent coroutines is the chain of agents whose pc is *)
(* not "idle"; `current` is its top.  An action is the code between two    *)
(* points where another coroutine can run or where another function of the *)
(* runner takes over; a cancellation can arrive only where the code really *)
(* suspends (Awaiting).                                                    *)
(*                                                                         *)
(* An operator under the heading "Wrong:" is no part of the specification. *)
(* It is the definition that follows it with a mistake, and a property of  *)
(* the runs is false of the runner that makes it.                          *)
(***************************************************************************)
EXTENDS Naturals, Sequences, FiniteSets

CONSTANTS Agents,      \* agent ids
          Root,        \* the session's root agent
          Calls,       \* call ids; a provider never reuses one
          None,        \* no agent, or no call
          MaxDepth,    \* settings.MAX_DELEGATION_DEPTH
          MaxTurns,    \* settings.MAX_TURNS
          MaxBatch,    \* bound: calls in one provider response
          MaxQueued    \* bound: queued inputs pending at a time

ASSUME RunnerAssumption ==
  /\ Root \in Agents
  /\ None \notin Agents \union Calls
  /\ MaxDepth \in Nat
  /\ MaxTurns \in Nat
  /\ MaxBatch \in Nat
  /\ MaxQueued \in Nat

VARIABLES status,      \* AgentStatus of each agent, "absent" before its row exists
          parent,      \* parent_id
          source,      \* source_call_id: the delegate call that created the agent
          depth,       \* delegation depth
          waiting,     \* the agent's persisted waiting_for entries
          log,         \* function_call and function_call_output items, by sequence
          queued,      \* pending queued inputs of the root
          pc,          \* where the agent's run_agent activation stands
          todo,        \* calls of the current response that are not handled yet
          waits,       \* waiting_for list that the current turn is building
          turns,       \* turns_executed
          current,     \* the agent whose activation is on top of the stack
          delivering,  \* the request is a delivery (its result propagates)
          signal       \* the run's CancellationSignal is set

agentVars == <<status, parent, source, depth, waiting>>
runVars   == <<pc, todo, waits, turns, current, delivering, signal>>
vars      == <<agentVars, log, queued, runVars>>

CallItem(c)   == [type |-> "function_call", call |-> c]
OutputItem(c) == [type |-> "function_call_output", call |-> c]
Items         == [type : {"function_call", "function_call_output"}, call : Calls]
WaitEntries   == [call : Calls, type : {"human", "agent"}]

Statuses == {"absent", "pending", "running", "waiting", "completed", "failed", "cancelled"}
Terminal == {"completed", "failed", "cancelled"}
PCs      == {"idle", "start", "turn", "generate", "call", "sync", "mcp", "child", "returned"}

(* Where the coroutine suspends: the provider, a tool handler or an MCP    *)
(* server is being awaited.  The handlers of ask_user, message and         *)
(* delegate do not suspend.                                                *)
Awaiting == {"generate", "sync", "mcp"}

Issued(a)   == {c \in Calls : \E i \in DOMAIN log[a] : log[a][i] = CallItem(c)}
Answered(a) == {c \in Calls : \E i \in DOMAIN log[a] : log[a][i] = OutputItem(c)}
Open(a)     == Issued(a) \ Answered(a)
WaitCalls(W) == {e.call : e \in W}

Init ==
  /\ status     = [a \in Agents |-> "absent"]
  /\ parent     = [a \in Agents |-> None]
  /\ source     = [a \in Agents |-> None]
  /\ depth      = [a \in Agents |-> 0]
  /\ waiting    = [a \in Agents |-> {}]
  /\ log        = [a \in Agents |-> <<>>]
  /\ queued     = 0
  /\ pc         = [a \in Agents |-> "idle"]
  /\ todo       = [a \in Agents |-> <<>>]
  /\ waits      = [a \in Agents |-> {}]
  /\ turns      = [a \in Agents |-> 0]
  /\ current    = None
  /\ delivering = FALSE
  /\ signal     = FALSE

-------------------------------------------------------------------------------
(* Helpers.                                                                *)

(* Wrong: the output is written at the last sequence number. *)
StoreToolOutputInPlace(a, c) == log' = [log EXCEPT ![a] = [@ EXCEPT ![Len(@)] = OutputItem(c)]]

(* store_tool_output: the output gets the agent's next sequence number.    *)
StoreToolOutput(a, c) == log' = [log EXCEPT ![a] = Append(@, OutputItem(c))]

(* _consume_pending_queue_inputs: only the root takes queued inputs, and   *)
(* it takes all that are pending.                                          *)
ConsumeQueue(a) == queued' = IF a = Root THEN 0 ELSE queued

(* run_agent returns with the agent's row saved in status st; the caller   *)
(* finds the result there.                                                 *)
Return(a, st, entries) ==
  /\ status'  = [status EXCEPT ![a] = st]
  /\ waiting' = [waiting EXCEPT ![a] = entries]
  /\ pc'      = [pc EXCEPT ![a] = "returned"]
  /\ todo'    = [todo EXCEPT ![a] = <<>>]
  /\ waits'   = [waits EXCEPT ![a] = {}]
  /\ UNCHANGED <<parent, source, depth, turns, current, delivering, signal>>

(* Wrong: the turn that failed is tried again and not counted. *)
FailRunRetries(a) ==
  /\ pc' = [pc EXCEPT ![a] = "turn"]
  /\ UNCHANGED <<agentVars, todo, waits, turns, current, delivering, signal>>

(* _cancel_run and _fail_run. *)
CancelRun(a) == Return(a, "cancelled", {})
FailRun(a)   == Return(a, "failed", waiting[a])

(* The activation moves on to another point without touching the rows.     *)
Goto(a, label) ==
  /\ pc' = [pc EXCEPT ![a] = label]
  /\ UNCHANGED <<agentVars, todo, waits, turns, current, delivering, signal>>

(* The first call of todo has been handled; added entries join the turn's  *)
(* waiting_for list.                                                       *)
CallHandled(a, added) ==
  /\ todo'  = [todo EXCEPT ![a] = Tail(@)]
  /\ waits' = [waits EXCEPT ![a] = @ \union added]
  /\ pc'    = [pc EXCEPT ![a] = "call"]

(* A turn of status "continue": waiting_for is [] and the loop goes on.    *)
ContinueRun(a) ==
  /\ waiting' = [waiting EXCEPT ![a] = {}]
  /\ turns'   = [turns EXCEPT ![a] = @ + 1]
  /\ pc'      = [pc EXCEPT ![a] = "turn"]
  /\ UNCHANGED <<status, parent, source, depth, todo, waits, current, delivering, signal>>

(* run_agent is entered for an agent whose row was just saved as PENDING.  *)
Enter(a) ==
  /\ pc'      = [pc EXCEPT ![a] = "start"]
  /\ current' = a

-------------------------------------------------------------------------------
(* Requests that reach the runner.                                         *)

(* A new chat turn: the root's row is created, or reset to PENDING with no *)
(* waits unless it is running or waiting, and the root is run.             *)
StartChat ==
  /\ current = None
  /\ status[Root] \notin {"running", "waiting"}
  /\ status'  = [status EXCEPT ![Root] = "pending"]
  /\ waiting' = [waiting EXCEPT ![Root] = {}]
  /\ Enter(Root)
  /\ UNCHANGED <<parent, source, depth, log, queued, todo, waits, turns, delivering, signal>>

(* A message queued for a waiting root. *)
Enqueue ==
  /\ current = None
  /\ status[Root] = "waiting"
  /\ queued < MaxQueued
  /\ queued' = queued + 1
  /\ UNCHANGED <<agentVars, log, runVars>>

(* Wrong: the wait that was answered stays in waiting_for. *)
DeliverKeepsWait(a, e) ==
  /\ current = None
  /\ status[a] = "waiting"
  /\ e \in waiting[a] /\ e.type = "human"
  /\ StoreToolOutput(a, e.call)
  /\ UNCHANGED <<agentVars, queued, runVars>>

(* deliver_result for a human wait of a waiting agent.  A delivery that is *)
(* addressed to an ancestor walks down its agent waits, changing nothing,  *)
(* and ends in this step at the agent it reaches; one that is rejected on  *)
(* the way changes nothing at all.                                         *)
Deliver(a, e) ==
  /\ current = None
  /\ status[a] = "waiting"
  /\ e \in waiting[a] /\ e.type = "human"
  /\ StoreToolOutput(a, e.call)
  /\ waiting' = [waiting EXCEPT ![a] = @ \ {e}]
  /\ \/ /\ waiting'[a] # {}
        /\ UNCHANGED <<status, runVars>>
     \/ /\ waiting'[a] = {}
        /\ status' = [status EXCEPT ![a] = "pending"]
        /\ delivering' = TRUE
        /\ Enter(a)
        /\ UNCHANGED <<todo, waits, turns, signal>>
  /\ UNCHANGED <<parent, source, depth, queued>>

(* ActiveRunRegistry.cancel: the signal of a registered run is set while   *)
(* the run is suspended.  Deliveries are not registered.                   *)
Cancel ==
  /\ current # None /\ pc[current] \in Awaiting
  /\ ~delivering /\ ~signal
  /\ signal' = TRUE
  /\ UNCHANGED <<agentVars, log, queued, pc, todo, waits, turns, current, delivering>>

-------------------------------------------------------------------------------
(* run_agent: the loop over turns.                                         *)

(* The row becomes RUNNING. *)
StartRun(a) ==
  /\ current = a /\ pc[a] = "start"
  /\ status' = [status EXCEPT ![a] = "running"]
  /\ turns'  = [turns EXCEPT ![a] = 0]
  /\ pc'     = [pc EXCEPT ![a] = "turn"]
  /\ UNCHANGED <<parent, source, depth, waiting, log, queued, todo, waits, current, delivering, signal>>

StopBeforeTurn(a) ==
  /\ current = a /\ pc[a] = "turn"
  /\ \/ signal /\ CancelRun(a)
     \/ ~signal /\ turns[a] >= MaxTurns /\ FailRun(a)
  /\ UNCHANGED <<log, queued>>

(* execute_turn up to `await provider.generate`; a model reference that no *)
(* provider knows fails the turn.                                          *)
ExecuteTurn(a) ==
  /\ current = a /\ pc[a] = "turn"
  /\ ~signal /\ turns[a] < MaxTurns
  /\ ConsumeQueue(a)
  /\ Goto(a, "generate") \/ FailRun(a)
  /\ UNCHANGED log

(* The provider raises, or the cancellation is seen after it answers. *)
GenerateFails(a) ==
  /\ current = a /\ pc[a] = "generate"
  /\ FailRun(a) \/ (signal /\ CancelRun(a))
  /\ UNCHANGED <<log, queued>>

FreshCalls == Calls \ UNION {Issued(a) : a \in Agents}

Batches ==
  {cs \in UNION {[1..n -> FreshCalls] : n \in 1..MaxBatch} :
     \A i, j \in DOMAIN cs : cs[i] = cs[j] => i = j}

(* handle_turn_response for a response with calls: all of them are stored  *)
(* before the first is handled.                                            *)
StoreCalls(a, cs) ==
  /\ current = a /\ pc[a] = "generate" /\ ~signal
  /\ log'  = [log EXCEPT ![a] = @ \o [i \in DOMAIN cs |-> CallItem(cs[i])]]
  /\ todo' = [todo EXCEPT ![a] = cs]
  /\ pc'   = [pc EXCEPT ![a] = "call"]
  /\ UNCHANGED <<agentVars, queued, waits, turns, current, delivering, signal>>

(* A response without calls completes the run, unless queued inputs came   *)
(* in for the root.                                                        *)
FinalAnswer(a) ==
  /\ current = a /\ pc[a] = "generate" /\ ~signal
  /\ ConsumeQueue(a)
  /\ IF a = Root /\ queued > 0 THEN ContinueRun(a) ELSE Return(a, "completed", {})
  /\ UNCHANGED log

-------------------------------------------------------------------------------
(* handle_turn_response: the loop over the calls of the response.          *)

CancelAtCall(a) ==
  /\ current = a /\ pc[a] = "call" /\ todo[a] # <<>>
  /\ signal
  /\ CancelRun(a)
  /\ UNCHANGED <<log, queued>>

(* Wrong: the next call is handled without a look at the signal. *)
AtCallUnchecked(a) == current = a /\ pc[a] = "call" /\ todo[a] # <<>>

AtCall(a) == current = a /\ pc[a] = "call" /\ todo[a] # <<>> /\ ~signal

(* Wrong: the error is logged but not stored as the output of the call. *)
RejectCallSilently(a) ==
  /\ AtCall(a)
  /\ CallHandled(a, {})
  /\ UNCHANGED <<agentVars, log, queued, turns, current, delivering, signal>>

(* The call fails at once: no such tool, arguments the ask_user or the     *)
(* delegate handler refuses, a delegation that is too deep or names an     *)
(* agent template that does not load.                                      *)
RejectCall(a) ==
  /\ AtCall(a)
  /\ StoreToolOutput(a, Head(todo[a]))
  /\ CallHandled(a, {})
  /\ UNCHANGED <<agentVars, queued, turns, current, delivering, signal>>

(* A sync tool or an MCP server starts to work on the call. *)
AwaitTool(a) ==
  /\ AtCall(a)
  /\ Goto(a, "sync") \/ Goto(a, "mcp")
  /\ UNCHANGED <<log, queued>>

(* A human tool: no output yet, the turn will wait for one. *)
AskHuman(a) ==
  /\ AtCall(a)
  /\ CallHandled(a, {[call |-> Head(todo[a]), type |-> "human"]})
  /\ UNCHANGED <<agentVars, log, queued, turns, current, delivering, signal>>

(* _handle_agent_function_call: a child is created and run on the parent's *)
(* stack, with the parent's signal.                                        *)
Delegate(a, b) ==
  /\ AtCall(a)
  /\ depth[a] + 1 <= MaxDepth
  /\ b \in Agents \ {Root} /\ status[b] = "absent"
  /\ status' = [status EXCEPT ![b] = "pending"]
  /\ parent' = [parent EXCEPT ![b] = a]
  /\ source' = [source EXCEPT ![b] = Head(todo[a])]
  /\ depth'  = [depth EXCEPT ![b] = depth[a] + 1]
  /\ pc'     = [pc EXCEPT ![a] = "child", ![b] = "start"]
  /\ current' = b
  /\ UNCHANGED <<waiting, log, queued, todo, waits, turns, delivering, signal>>

(* The output of a sync tool is stored before the cancellation is seen. *)
SyncToolReturns(a) ==
  /\ current = a /\ pc[a] = "sync"
  /\ StoreToolOutput(a, Head(todo[a]))
  /\ \/ signal /\ CancelRun(a)
     \/ /\ ~signal
        /\ CallHandled(a, {})
        /\ UNCHANGED <<agentVars, turns, current, delivering, signal>>
  /\ UNCHANGED queued

(* An MCP result is dropped when the run is cancelled; an MCP failure is   *)
(* stored without looking at the signal.                                   *)
McpToolReturns(a) ==
  /\ current = a /\ pc[a] = "mcp"
  /\ \/ signal /\ CancelRun(a) /\ UNCHANGED log
     \/ /\ StoreToolOutput(a, Head(todo[a]))
        /\ CallHandled(a, {})
        /\ UNCHANGED <<agentVars, turns, current, delivering, signal>>
  /\ UNCHANGED queued

(* All calls are handled: the turn waits, or the run goes on. *)
EndTurn(a) ==
  /\ current = a /\ pc[a] = "call" /\ todo[a] = <<>>
  /\ \/ /\ waits[a] # {}
        /\ Return(a, "waiting", waits[a])
        /\ UNCHANGED queued
     \/ /\ waits[a] = {}
        /\ ConsumeQueue(a)
        /\ ContinueRun(a)
  /\ UNCHANGED log

-------------------------------------------------------------------------------
(* What happens with the result of a run.                                  *)

(* b returns into the delegate call of its parent a. *)
ChildReturns(a, b) ==
  /\ current = b /\ pc[b] = "returned"
  /\ parent[b] = a /\ pc[a] = "child"
  /\ current' = a
  /\ \/ /\ signal
        /\ status'  = [status EXCEPT ![a] = "cancelled"]
        /\ waiting' = [waiting EXCEPT ![a] = {}]
        /\ pc'      = [pc EXCEPT ![a] = "returned", ![b] = "idle"]
        /\ todo'    = [todo EXCEPT ![a] = <<>>]
        /\ waits'   = [waits EXCEPT ![a] = {}]
        /\ UNCHANGED log
     \/ /\ ~signal
        /\ pc'   = [pc EXCEPT ![a] = "call", ![b] = "idle"]
        /\ todo' = [todo EXCEPT ![a] = Tail(@)]
        /\ \/ /\ status[b] = "waiting"
              /\ waits' = [waits EXCEPT ![a] =
                             @ \union {[call |-> Head(todo[a]), type |-> "agent"]}]
              /\ UNCHANGED log
           \/ /\ status[b] # "waiting"
              /\ StoreToolOutput(a, Head(todo[a]))
              /\ UNCHANGED waits
        /\ UNCHANGED <<status, waiting>>
  /\ UNCHANGED <<parent, source, depth, queued, turns, delivering, signal>>

(* No delegate call of a parent is waiting for b on the stack. *)
BottomOfStack(b) == parent[b] # None => pc[parent[b]] # "child"

(* Wrong: only a child that completed answers its parent. *)
PropagatesSuccess(b) ==
  /\ delivering
  /\ parent[b] # None
  /\ status[b] = "completed"
  /\ source[b] \in WaitCalls(waiting[parent[b]])

(* _propagate_child_result has a parent wait to resolve for b. *)
Propagates(b) ==
  /\ delivering
  /\ parent[b] # None
  /\ status[b] \notin {"waiting", "cancelled"}
  /\ source[b] \in WaitCalls(waiting[parent[b]])

(* The run of b ends the request. *)
RequestEnds(b) ==
  /\ current = b /\ pc[b] = "returned" /\ BottomOfStack(b)
  /\ ~Propagates(b)
  /\ pc' = [pc EXCEPT ![b] = "idle"]
  /\ current' = None /\ delivering' = FALSE /\ signal' = FALSE
  /\ UNCHANGED <<agentVars, log, queued, todo, waits, turns>>

(* Wrong: the parent's wait is not removed. *)
PropagateKeepsWait(b) ==
  /\ current = b /\ pc[b] = "returned" /\ BottomOfStack(b)
  /\ Propagates(b)
  /\ StoreToolOutput(parent[b], source[b])
  /\ status' = [status EXCEPT ![parent[b]] = "waiting"]
  /\ pc' = [pc EXCEPT ![b] = "idle"]
  /\ current' = None /\ delivering' = FALSE
  /\ UNCHANGED <<parent, source, depth, waiting, queued, todo, waits, turns, signal>>

(* _propagate_child_result: the result answers the parent's delegate call, *)
(* and the parent runs once nothing else is waited for.                    *)
PropagateChildResult(b) ==
  /\ current = b /\ pc[b] = "returned" /\ BottomOfStack(b)
  /\ Propagates(b)
  /\ LET p    == parent[b]
         rest == {e \in waiting[p] : e.call # source[b]}
     IN /\ StoreToolOutput(p, source[b])
        /\ waiting' = [waiting EXCEPT ![p] = rest]
        /\ \/ /\ rest # {}
              /\ status' = [status EXCEPT ![p] = "waiting"]
              /\ pc' = [pc EXCEPT ![b] = "idle"]
              /\ current' = None /\ delivering' = FALSE
           \/ /\ rest = {}
              /\ status' = [status EXCEPT ![p] = "pending"]
              /\ pc' = [pc EXCEPT ![b] = "idle", ![p] = "start"]
              /\ current' = p
              /\ UNCHANGED delivering
  /\ UNCHANGED <<parent, source, depth, queued, todo, waits, turns, signal>>

-------------------------------------------------------------------------------
Step(a) ==
  \/ StartRun(a) \/ StopBeforeTurn(a) \/ ExecuteTurn(a) \/ GenerateFails(a)
  \/ FinalAnswer(a) \/ \E cs \in Batches : StoreCalls(a, cs)
  \/ CancelAtCall(a) \/ RejectCall(a) \/ AwaitTool(a) \/ AskHuman(a)
  \/ SyncToolReturns(a) \/ McpToolReturns(a) \/ EndTurn(a)
  \/ \E b \in Agents : Delegate(a, b) \/ ChildReturns(a, b)
  \/ RequestEnds(a) \/ PropagateChildResult(a)

Next ==
  \/ StartChat \/ Enqueue \/ Cancel
  \/ \E a \in Agents : \E e \in waiting[a] : Deliver(a, e)
  \/ \E a \in Agents : Step(a)

(* The event loop keeps running the coroutine: the provider client, the    *)
(* MCP client and the tools answer or time out.                            *)
Fairness == \A a \in Agents : WF_vars(Step(a))

Spec     == Init /\ [][Next]_vars
FairSpec == Spec /\ Fairness

-------------------------------------------------------------------------------
(* Every variable has its type. *)
TypeOK ==
  /\ status \in [Agents -> Statuses]
  /\ parent \in [Agents -> Agents \union {None}]
  /\ source \in [Agents -> Calls \union {None}]
  /\ depth \in [Agents -> Nat]
  /\ waiting \in [Agents -> SUBSET WaitEntries]
  /\ log \in [Agents -> Seq(Items)]
  /\ queued \in Nat
  /\ pc \in [Agents -> PCs]
  /\ todo \in [Agents -> Seq(Calls)]
  /\ waits \in [Agents -> SUBSET WaitEntries]
  /\ turns \in [Agents -> Nat]
  /\ current \in Agents \union {None}
  /\ delivering \in BOOLEAN
  /\ signal \in BOOLEAN

(* A call gets one output at most, and only after the call itself, in the  *)
(* transcript of the agent that issued it: no matter whether the answer    *)
(* comes from a tool, a child on the stack, a delivery or a propagated     *)
(* child result (store_tool_output and its eight callers).                 *)
AnsweredOnce ==
  \A a \in Agents : \A i \in DOMAIN log[a] :
    log[a][i].type = "function_call_output" =>
      /\ \E j \in 1..(i - 1) : log[a][j] = CallItem(log[a][i].call)
      /\ \A j \in DOMAIN log[a] : log[a][j] = log[a][i] => j = i

(* What an agent is persisted as waiting for is an issued call without an  *)
(* output, and only a waiting agent waits: deliver_result can trust the    *)
(* entry it finds.                                                         *)
WaitsAreOpen ==
  \A a \in Agents :
    /\ WaitCalls(waiting[a]) \subseteq Open(a)
    /\ waiting[a] # {} <=> status[a] = "waiting"

(* Between requests every delegate wait leads to a child that was created  *)
(* by that call and is itself waiting, so that every waiting agent can be  *)
(* resumed through some human wait below it (deliver_result,               *)
(* get_child_by_source_call).                                              *)
WaitChain ==
  current = None =>
    \A a \in Agents : \A e \in waiting[a] :
      e.type = "agent" =>
        \E b \in Agents :
          parent[b] = a /\ source[b] = e.call /\ status[b] = "waiting"

(* Between requests no agent is left pending or running ("child runs may   *)
(* not be orphaned in state running").                                     *)
NoneLeftRunning ==
  current = None => \A a \in Agents : status[a] \notin {"pending", "running"}

(* A child that completed has every call answered, and one that waits has  *)
(* exactly its open calls among its waits: nothing it asked for is lost.   *)
ChildSettled ==
  \A a \in Agents \ {Root} :
    /\ status[a] = "completed" => Open(a) = {}
    /\ status[a] = "waiting" /\ pc[a] = "idle" => Open(a) = WaitCalls(waiting[a])

(* A call is the source of one child at most, and delegation never goes    *)
(* deeper than max_delegation_depth.                                       *)
DelegationTree ==
  \A b \in Agents :
    /\ depth[b] <= MaxDepth
    /\ parent[b] # None =>
         /\ depth[b] = depth[parent[b]] + 1
         /\ source[b] \in Issued(parent[b])
         /\ \A c \in Agents : source[c] = source[b] => c = b

(* The strengthening of these invariants that every step preserves.        *)

Pending(a) == {todo[a][i] : i \in DOMAIN todo[a]}
Handling   == {"call", "sync", "mcp", "child"}

(* The activations form one stack: each agent on it, but the top, is in a  *)
(* delegate call, and the depth grows by one from an agent to the one that *)
(* it called, so that the agent at the bottom is the only one that no      *)
(* delegate call waits for.                                                *)
StackOK ==
  /\ \A a \in Agents : pc[a] \notin {"idle", "child"} <=> current = a
  /\ \A a \in Agents : pc[a] = "child" => current # None /\ depth[a] < depth[current]
  /\ \A a, b \in Agents :
       pc[a] # "idle" /\ pc[b] # "idle" =>
         /\ depth[a] = depth[b] => a = b
         /\ BottomOfStack(a) => depth[a] <= depth[b]

(* Delegation builds a tree from agents that exist. *)
TreeOK ==
  \A b \in Agents :
    /\ depth[b] <= MaxDepth
    /\ parent[b] # None =>
         status[parent[b]] # "absent" /\ depth[b] = depth[parent[b]] + 1
    /\ status[b] = "absent" => parent[b] = None /\ pc[b] = "idle"
    /\ status[b] = "pending" <=> pc[b] = "start"
    /\ status[b] = "running" <=> pc[b] \notin {"idle", "start", "returned"}

(* A call belongs to one agent.  The calls still to be handled and the     *)
(* calls waited for are open, and each is named once.                      *)
CallsOK ==
  /\ \A a, b \in Agents : a # b => Issued(a) \intersect Issued(b) = {}
  /\ \A a \in Agents :
       /\ pc[a] \in Handling \ {"call"} => todo[a] # <<>>
       /\ pc[a] \notin Handling => todo[a] = <<>> /\ waits[a] = {}
       /\ \A i, j \in DOMAIN todo[a] : todo[a][i] = todo[a][j] => i = j
       /\ Pending(a) \subseteq Open(a)
       /\ WaitCalls(waits[a]) \subseteq Open(a) \ Pending(a)
       /\ \A e, f \in waits[a] : e.call = f.call => e = f
       /\ \A e, f \in waiting[a] : e.call = f.call => e = f

(* A delegate call that was not handled yet has created no child, and the  *)
(* one that is being handled has created the child on the stack.           *)
SourcesOK ==
  /\ \A b \in Agents : source[b] = None <=> parent[b] = None
  /\ \A b \in Agents : parent[b] # None => source[b] \in Issued(parent[b])
  /\ \A b, c \in Agents : source[b] # None /\ source[b] = source[c] => b = c
  /\ \A a, c \in Agents :
       source[c] \in Pending(a) => pc[a] = "child" /\ source[c] = Head(todo[a])
  /\ \A a, b \in Agents :
       pc[a] = "child" /\ pc[b] # "idle" /\ parent[b] = a => source[b] = Head(todo[a])

(* A delegate wait leads to the child, which waits itself unless its run   *)
(* is the one that a delivery resumed.                                     *)
ChainOK ==
  /\ delivering => ~signal /\ current # None
  /\ signal => current # None
  /\ delivering => \A a \in Agents : pc[a] = "returned" => status[a] # "cancelled"
  /\ \A a \in Agents : \A e \in waits[a] \union waiting[a] :
       e.type = "agent" =>
         \E b \in Agents :
           /\ parent[b] = a /\ source[b] = e.call
           /\ status[b] = "waiting" \/ (delivering /\ pc[b] # "idle" /\ BottomOfStack(b))

(* A child that did not fail and was not cancelled keeps track of every    *)
(* open call.                                                              *)
NothingLost ==
  \A a \in Agents \ {Root} :
    status[a] \notin {"failed", "cancelled"} =>
      Open(a) = Pending(a) \union WaitCalls(waits[a]) \union WaitCalls(waiting[a])

IInv ==
  /\ TypeOK /\ StackOK /\ TreeOK
  /\ AnsweredOnce /\ CallsOK /\ WaitsAreOpen /\ SourcesOK
  /\ ChainOK /\ NothingLost

(* Once the signal is set the run starts no provider call, no tool and no  *)
(* child, and issues no call: only what was in flight finishes.            *)
CancelStopsWork ==
  [][signal /\ signal' =>
       /\ \A a \in Agents : pc'[a] \in Awaiting => pc[a] = pc'[a]
       /\ \A a \in Agents : Issued(a)' = Issued(a)
       /\ \A a \in Agents : status[a] = "absent" => status'[a] = "absent"]_vars

(* A child that completed, failed or was cancelled never runs again: no    *)
(* delivery or propagation revives it.                                     *)
ChildrenStayEnded ==
  [][\A a \in Agents \ {Root} :
       status[a] \in Terminal => status'[a] = status[a]]_vars

(* A request ends: max_turns, the depth bound and the answers of the       *)
(* outside world bring every run back to its caller.                       *)
RequestEventuallyEnds == current # None ~> current = None

(* The runner implements the call ledger: every step issues new calls,     *)
(* settles one call or leaves the ledger alone.                            *)
Slot(a, i) == <<a, i>>
Ledger == INSTANCE CallLedger WITH
  issued <- UNION {Issued(a) : a \in Agents},
  answer <- [c \in Calls |->
              UNION {{Slot(a, i) : i \in {j \in DOMAIN log[a] : log[a][j] = OutputItem(c)}} :
                       a \in Agents}]
LedgerSpec == Ledger!Spec
===============================================================================
