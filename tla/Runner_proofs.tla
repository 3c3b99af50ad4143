----------------------------- MODULE Runner_proofs -----------------------------
(***************************************************************************)
(* Theorems of Runner, for every set of agents and calls and every value   *)
(* of the bounds.                                                          *)
(***************************************************************************)
EXTENDS Runner, SequenceTheorems, TLAPS

USE RunnerAssumption DEF RunnerAssumption

(* Batches of distinct fresh calls are sequences of calls. *)
LEMMA BatchType ==
  ASSUME NEW cs \in Batches
  PROVE  /\ cs \in Seq(Calls)
         /\ \A i \in DOMAIN cs : cs[i] \in FreshCalls
         /\ \A i, j \in DOMAIN cs : cs[i] = cs[j] => i = j
<1>1. PICK n \in 1..MaxBatch : cs \in [1..n -> FreshCalls]
  BY DEF Batches
<1>2. n \in Nat
  BY <1>1
<1>3. FreshCalls \subseteq Calls
  BY DEF FreshCalls
<1>4. cs \in Seq(Calls)
  BY <1>1, <1>2, <1>3
<1> QED
  BY <1>1, <1>2, <1>4 DEF Batches

(* The first call of a response is a call, and the rest are calls. *)
LEMMA TodoType ==
  ASSUME TypeOK, NEW a \in Agents, todo[a] # <<>>
  PROVE  /\ Head(todo[a]) \in Calls
         /\ Tail(todo[a]) \in Seq(Calls)
<1>1. todo[a] \in Seq(Calls)
  BY DEF TypeOK
<1> QED
  BY <1>1, HeadTailProperties

(* Storing an output keeps the transcripts' type. *)
LEMMA OutputType ==
  ASSUME TypeOK, NEW a \in Agents, NEW c \in Calls, StoreToolOutput(a, c)
  PROVE  log' \in [Agents -> Seq(Items)]
<1>1. OutputItem(c) \in Items
  BY DEF OutputItem, Items
<1>2. log[a] \in Seq(Items)
  BY DEF TypeOK
<1>3. Append(log[a], OutputItem(c)) \in Seq(Items)
  BY <1>1, <1>2, AppendProperties
<1> QED
  BY <1>3 DEF StoreToolOutput, TypeOK

(* So does storing the calls of a response. *)
LEMMA CallsType ==
  ASSUME TypeOK, NEW a \in Agents, NEW cs \in Batches, StoreCalls(a, cs)
  PROVE  /\ [i \in DOMAIN cs |-> CallItem(cs[i])] \in Seq(Items)
         /\ log' \in [Agents -> Seq(Items)]
<1> DEFINE items == [i \in DOMAIN cs |-> CallItem(cs[i])]
<1>1. cs \in Seq(Calls)
  BY BatchType
<1>2. /\ Len(cs) \in Nat
      /\ DOMAIN cs = 1..Len(cs)
      /\ \A i \in 1..Len(cs) : cs[i] \in Calls
  BY <1>1, LenProperties
<1>3. \A i \in DOMAIN cs : CallItem(cs[i]) \in Items
  BY <1>2 DEF CallItem, Items
<1>4. items \in [1..Len(cs) -> Items]
  BY <1>2, <1>3
<1>5. items \in Seq(Items)
  BY <1>2, <1>4, SeqDef
<1>6. log[a] \in Seq(Items)
  BY DEF TypeOK
<1>7. log[a] \o items \in Seq(Items)
  BY <1>5, <1>6, ConcatProperties
<1> QED
  BY <1>5, <1>7 DEF StoreCalls, TypeOK

(* Returning from run_agent keeps the types of everything it writes. *)
LEMMA ReturnType ==
  ASSUME TypeOK, NEW a \in Agents, NEW st \in Statuses, NEW W \in SUBSET WaitEntries,
         Return(a, st, W),
         log' \in [Agents -> Seq(Items)], queued' \in Nat
  PROVE  TypeOK'
<1>1. todo' \in [Agents -> Seq(Calls)]
  BY EmptySeq DEF Return, TypeOK
<1>2. pc' \in [Agents -> PCs]
  BY DEF Return, TypeOK, PCs
<1> QED
  BY <1>1, <1>2 DEF Return, TypeOK

LEMMA StopType ==
  ASSUME TypeOK, NEW a \in Agents, CancelRun(a) \/ FailRun(a),
         log' \in [Agents -> Seq(Items)], queued' \in Nat
  PROVE  TypeOK'
<1>1. "cancelled" \in Statuses /\ "failed" \in Statuses
  BY DEF Statuses
<1>2. {} \in SUBSET WaitEntries /\ waiting[a] \in SUBSET WaitEntries
  BY DEF TypeOK
<1>3. CASE Return(a, "cancelled", {})
  BY <1>1, <1>2, <1>3, ReturnType
<1>4. CASE Return(a, "failed", waiting[a])
  BY <1>1, <1>2, <1>4, ReturnType
<1> QED
  BY <1>3, <1>4 DEF CancelRun, FailRun

(* Every variable keeps its type. *)
LEMMA TypeInit == Init => TypeOK
<1> SUFFICES ASSUME Init PROVE TypeOK
  OBVIOUS
<1>1. log \in [Agents -> Seq(Items)] /\ todo \in [Agents -> Seq(Calls)]
  BY EmptySeq DEF Init
<1>2. status \in [Agents -> Statuses] /\ pc \in [Agents -> PCs]
  BY DEF Init, Statuses, PCs
<1>3. waiting \in [Agents -> SUBSET WaitEntries] /\ waits \in [Agents -> SUBSET WaitEntries]
  BY DEF Init
<1> QED
  BY <1>1, <1>2, <1>3 DEF Init, TypeOK

LEMMA TypeStep == TypeOK /\ CallsOK /\ [Next]_vars => TypeOK'
<1> SUFFICES ASSUME TypeOK, CallsOK, [Next]_vars PROVE TypeOK'
  OBVIOUS
<1> USE DEF agentVars, runVars
<1>0. ASSUME UNCHANGED vars PROVE TypeOK'
  BY <1>0 DEF vars, TypeOK
<1>1. CASE StartChat
  BY <1>1 DEF StartChat, Enter, TypeOK, Statuses, PCs
<1>2. CASE Enqueue
  BY <1>2 DEF Enqueue, TypeOK
<1>3. CASE Cancel
  BY <1>3 DEF Cancel, TypeOK
<1>4. ASSUME NEW a \in Agents, NEW e \in waiting[a], Deliver(a, e) PROVE TypeOK'
  <2>1. e.call \in Calls
    BY <1>4 DEF WaitEntries, TypeOK
  <2>2. log' \in [Agents -> Seq(Items)]
    BY <1>4, <2>1, OutputType DEF Deliver
  <2> QED
    BY <1>4, <2>2 DEF Deliver, Enter, TypeOK, Statuses, PCs
<1>5. ASSUME NEW a \in Agents, Step(a) PROVE TypeOK'
  <2>1. CASE StartRun(a)
    BY <2>1 DEF StartRun, TypeOK, Statuses, PCs
  <2>2. CASE StopBeforeTurn(a)
    BY <2>2, StopType DEF StopBeforeTurn, TypeOK
  <2>3. CASE ExecuteTurn(a)
    <3>1. queued' \in Nat
      BY <2>3 DEF ExecuteTurn, ConsumeQueue, TypeOK
    <3>2. CASE Goto(a, "generate")
      BY <2>3, <3>1, <3>2 DEF ExecuteTurn, Goto, TypeOK, PCs
    <3>3. CASE FailRun(a)
      BY <2>3, <3>1, <3>3, StopType DEF ExecuteTurn, TypeOK
    <3> QED
      BY <2>3, <3>2, <3>3 DEF ExecuteTurn
  <2>4. CASE GenerateFails(a)
    BY <2>4, StopType DEF GenerateFails, TypeOK
  <2>5. CASE FinalAnswer(a)
    <3>1. queued' \in Nat /\ log' \in [Agents -> Seq(Items)]
      BY <2>5 DEF FinalAnswer, ConsumeQueue, TypeOK
    <3>2. CASE ContinueRun(a)
      <4>1. pc' \in [Agents -> PCs] /\ turns' \in [Agents -> Nat]
        BY <3>2 DEF ContinueRun, TypeOK, PCs
      <4> QED
        BY <2>5, <3>1, <3>2, <4>1 DEF ContinueRun, TypeOK
    <3>3. CASE Return(a, "completed", {})
      <4>1. "completed" \in Statuses /\ {} \in SUBSET WaitEntries
        BY DEF Statuses
      <4> QED
        BY <3>1, <3>3, <4>1, ReturnType
    <3> QED
      BY <2>5, <3>2, <3>3 DEF FinalAnswer
  <2>6. ASSUME NEW cs \in Batches, StoreCalls(a, cs) PROVE TypeOK'
    <3>1. cs \in Seq(Calls) /\ log' \in [Agents -> Seq(Items)]
      BY <2>6, BatchType, CallsType
    <3> QED
      BY <2>6, <3>1 DEF StoreCalls, TypeOK, PCs
  <2>7. CASE CancelAtCall(a)
    BY <2>7, StopType DEF CancelAtCall, TypeOK
  <2>8. CASE RejectCall(a)
    <3>1. log' \in [Agents -> Seq(Items)] /\ Tail(todo[a]) \in Seq(Calls)
      BY <2>8, TodoType, OutputType DEF RejectCall, AtCall
    <3> QED
      BY <2>8, <3>1 DEF RejectCall, CallHandled, TypeOK, PCs
  <2>9. CASE AwaitTool(a)
    BY <2>9 DEF AwaitTool, Goto, TypeOK, PCs
  <2>10. CASE AskHuman(a)
    <3>1. /\ [call |-> Head(todo[a]), type |-> "human"] \in WaitEntries
          /\ Tail(todo[a]) \in Seq(Calls)
      BY <2>10, TodoType DEF AskHuman, AtCall, WaitEntries
    <3> QED
      BY <2>10, <3>1 DEF AskHuman, CallHandled, TypeOK, PCs
  <2>11. ASSUME SyncToolReturns(a) \/ McpToolReturns(a) PROVE TypeOK'
    <3>1. todo[a] # <<>>
      BY <2>11 DEF SyncToolReturns, McpToolReturns, CallsOK, Handling
    <3>2. log' \in [Agents -> Seq(Items)] /\ queued' \in Nat
      <4>1. Head(todo[a]) \in Calls
        BY <3>1, TodoType
      <4>2. CASE StoreToolOutput(a, Head(todo[a]))
        BY <2>11, <4>1, <4>2, OutputType DEF SyncToolReturns, McpToolReturns, TypeOK
      <4>3. CASE UNCHANGED log
        BY <2>11, <4>3 DEF SyncToolReturns, McpToolReturns, TypeOK
      <4> QED
        BY <2>11, <4>2, <4>3 DEF SyncToolReturns, McpToolReturns
    <3>3. CASE CancelRun(a)
      BY <3>2, <3>3, StopType
    <3>4. CASE CallHandled(a, {}) /\ UNCHANGED <<agentVars, turns, current, delivering, signal>>
      <4>1. Tail(todo[a]) \in Seq(Calls)
        BY <3>1, TodoType
      <4> QED
        BY <3>2, <3>4, <4>1 DEF CallHandled, TypeOK, PCs
    <3> QED
      BY <2>11, <3>3, <3>4 DEF SyncToolReturns, McpToolReturns
  <2>12. CASE EndTurn(a)
    <3>1. log' \in [Agents -> Seq(Items)] /\ queued' \in Nat
      BY <2>12 DEF EndTurn, ConsumeQueue, TypeOK
    <3>2. CASE Return(a, "waiting", waits[a])
      <4>1. "waiting" \in Statuses /\ waits[a] \in SUBSET WaitEntries
        BY DEF Statuses, TypeOK
      <4> QED
        BY <3>1, <3>2, <4>1, ReturnType
    <3>3. CASE ContinueRun(a)
      <4>1. pc' \in [Agents -> PCs] /\ turns' \in [Agents -> Nat]
        BY <3>3 DEF ContinueRun, TypeOK, PCs
      <4> QED
        BY <3>1, <3>3, <4>1 DEF ContinueRun, TypeOK
    <3> QED
      BY <2>12, <3>2, <3>3 DEF EndTurn
  <2>13. ASSUME NEW b \in Agents, Delegate(a, b) PROVE TypeOK'
    <3>1. Head(todo[a]) \in Calls
      BY <2>13, TodoType DEF Delegate, AtCall
    <3>2. status' \in [Agents -> Statuses] /\ pc' \in [Agents -> PCs]
      <4>1. status' = [status EXCEPT ![b] = "pending"]
        BY <2>13 DEF Delegate
      <4>2. pc' = [pc EXCEPT ![a] = "child", ![b] = "start"]
        BY <2>13 DEF Delegate
      <4> QED
        BY <4>1, <4>2 DEF TypeOK, Statuses, PCs
    <3>3. /\ parent' \in [Agents -> Agents \union {None}]
          /\ source' \in [Agents -> Calls \union {None}]
          /\ depth' \in [Agents -> Nat]
      <4>1. /\ parent' = [parent EXCEPT ![b] = a]
            /\ source' = [source EXCEPT ![b] = Head(todo[a])]
            /\ depth' = [depth EXCEPT ![b] = depth[a] + 1]
        BY <2>13 DEF Delegate
      <4>2. parent' \in [Agents -> Agents \union {None}]
        BY <4>1 DEF TypeOK
      <4>3. source' \in [Agents -> Calls \union {None}]
        BY <3>1, <4>1 DEF TypeOK
      <4>4. depth' \in [Agents -> Nat]
        <5>1. depth \in [Agents -> Nat]
          BY DEF TypeOK
        <5>2. depth[a] + 1 \in Nat
          BY <5>1
        <5>3. depth' = [depth EXCEPT ![b] = depth[a] + 1]
          BY <4>1
        <5> QED
          BY <5>1, <5>2, <5>3
      <4> QED
        BY <4>2, <4>3, <4>4
    <3>4. /\ current' \in Agents
          /\ UNCHANGED <<waiting, log, queued, todo, waits, turns, delivering, signal>>
      BY <2>13 DEF Delegate
    <3> QED
      BY <3>2, <3>3, <3>4 DEF TypeOK
  <2>14. ASSUME NEW b \in Agents, ChildReturns(a, b) PROVE TypeOK'
    <3>1. todo[a] # <<>>
      BY <2>14 DEF ChildReturns, CallsOK, Handling
    <3>2. /\ [call |-> Head(todo[a]), type |-> "agent"] \in WaitEntries
          /\ Tail(todo[a]) \in Seq(Calls)
          /\ <<>> \in Seq(Calls)
      BY <3>1, TodoType, EmptySeq DEF WaitEntries
    <3>3. log' \in [Agents -> Seq(Items)]
      BY <2>14, <3>1, TodoType, OutputType DEF ChildReturns, TypeOK
    <3>4. todo' \in [Agents -> Seq(Calls)] /\ waits' \in [Agents -> SUBSET WaitEntries]
      <4>1. todo' = [todo EXCEPT ![a] = <<>>] \/ todo' = [todo EXCEPT ![a] = Tail(@)]
        BY <2>14 DEF ChildReturns
      <4>2. \/ waits' = [waits EXCEPT ![a] = {}]
            \/ waits' = waits
            \/ waits' = [waits EXCEPT ![a] = @ \union {[call |-> Head(todo[a]), type |-> "agent"]}]
        BY <2>14 DEF ChildReturns
      <4>3. todo' \in [Agents -> Seq(Calls)]
        BY <3>2, <4>1 DEF TypeOK
      <4>4. waits[a] \union {[call |-> Head(todo[a]), type |-> "agent"]} \in SUBSET WaitEntries
        BY <3>2 DEF TypeOK
      <4>5. waits' \in [Agents -> SUBSET WaitEntries]
        BY <4>2, <4>4 DEF TypeOK
      <4> QED
        BY <4>3, <4>5
    <3>5. status' \in [Agents -> Statuses] /\ pc' \in [Agents -> PCs]
      BY <2>14 DEF ChildReturns, TypeOK, Statuses, PCs
    <3> QED
      BY <2>14, <3>3, <3>4, <3>5 DEF ChildReturns, TypeOK
  <2>15. CASE RequestEnds(a)
    BY <2>15 DEF RequestEnds, TypeOK, PCs
  <2>16. CASE PropagateChildResult(a)
    <3>1. parent[a] \in Agents /\ source[a] \in Calls
      <4>1. parent[a] # None /\ source[a] \in WaitCalls(waiting[parent[a]])
        BY <2>16 DEF PropagateChildResult, Propagates
      <4>2. parent[a] \in Agents
        BY <4>1 DEF TypeOK
      <4>3. waiting[parent[a]] \subseteq WaitEntries
        BY <4>2 DEF TypeOK
      <4>4. WaitCalls(waiting[parent[a]]) \subseteq Calls
        BY <4>3 DEF WaitCalls, WaitEntries
      <4> QED
        BY <4>1, <4>2, <4>4
    <3>2. log' \in [Agents -> Seq(Items)]
      BY <2>16, <3>1, OutputType DEF PropagateChildResult
    <3>3. status' \in [Agents -> Statuses] /\ pc' \in [Agents -> PCs]
      BY <2>16 DEF PropagateChildResult, TypeOK, Statuses, PCs
    <3>4. waiting' \in [Agents -> SUBSET WaitEntries] /\ current' \in Agents \union {None}
      BY <2>16, <3>1 DEF PropagateChildResult, TypeOK
    <3> QED
      BY <2>16, <3>2, <3>3, <3>4 DEF PropagateChildResult, TypeOK
  <2> QED
    BY <1>5, <2>1, <2>2, <2>3, <2>4, <2>5, <2>6, <2>7, <2>8, <2>9, <2>10, <2>11, <2>12,
       <2>13, <2>14, <2>15, <2>16 DEF Step
<1> QED
  BY <1>0, <1>1, <1>2, <1>3, <1>4, <1>5 DEF Next

-------------------------------------------------------------------------------
(* The call stack and the delegation tree.                                 *)

(* Between requests no agent is on the stack. *)
LEMMA AllIdle ==
  ASSUME TypeOK, StackOK, current = None
  PROVE  \A a \in Agents : pc[a] = "idle"
BY DEF StackOK

(* Only the top is, when no delegate call waits for it. *)
LEMMA OnlyTop ==
  ASSUME TypeOK, StackOK, NEW b \in Agents, current = b, BottomOfStack(b)
  PROVE  \A a \in Agents \ {b} : pc[a] = "idle"
<1> SUFFICES ASSUME NEW a \in Agents \ {b}, pc[a] # "idle" PROVE FALSE
  OBVIOUS
<1>1. pc[a] = "child" /\ pc[b] # "idle"
  BY DEF StackOK
<1>2. depth[a] < depth[b] /\ depth[b] <= depth[a]
  BY <1>1 DEF StackOK
<1> QED
  BY <1>2 DEF TypeOK

(* Most steps of an activation move the top of the stack to another point  *)
(* of run_agent, and rewrite the row of that agent only.                   *)
TopMoves(a) ==
  /\ current = a /\ pc[a] \in {"start", "turn", "generate", "call", "sync", "mcp"}
  /\ \E l \in {"turn", "generate", "call", "sync", "mcp", "returned"},
        st \in Statuses \ {"absent", "pending"} :
       /\ pc' = [pc EXCEPT ![a] = l]
       /\ status' = [status EXCEPT ![a] = st]
       /\ st = "running" <=> l # "returned"
       /\ st = "cancelled" => signal
  /\ UNCHANGED <<parent, source, depth, current, delivering, signal>>

LocalStep(a) ==
  \/ StartRun(a) \/ StopBeforeTurn(a) \/ ExecuteTurn(a) \/ GenerateFails(a)
  \/ FinalAnswer(a) \/ \E cs \in Batches : StoreCalls(a, cs)
  \/ CancelAtCall(a) \/ RejectCall(a) \/ AwaitTool(a) \/ AskHuman(a)
  \/ SyncToolReturns(a) \/ McpToolReturns(a) \/ EndTurn(a)

LEMMA LocalStepMovesTop ==
  ASSUME TypeOK, TreeOK, NEW a \in Agents, LocalStep(a)
  PROVE  TopMoves(a)
<1> DEFINE points == {"turn", "generate", "call", "sync", "mcp"}
<1>0. /\ pc[a] = "start" => status[a] = "pending"
      /\ pc[a] \in points => status[a] = "running"
      /\ status[a] \in Statuses
  BY DEF TreeOK, TypeOK
<1>1. ASSUME current = a, pc[a] \in points,
             NEW l \in points, pc' = [pc EXCEPT ![a] = l],
             UNCHANGED <<status, parent, source, depth, current, delivering, signal>>
      PROVE  TopMoves(a)
  <2>1. status' = [status EXCEPT ![a] = "running"] /\ "running" \in Statuses
    BY <1>0, <1>1 DEF TypeOK, Statuses
  <2> QED
    BY <1>1, <2>1 DEF TopMoves
<1>2. ASSUME current = a, pc[a] \in points,
             NEW st \in {"completed", "failed", "cancelled", "waiting"}, NEW W, Return(a, st, W),
             st = "cancelled" => signal
      PROVE  TopMoves(a)
  BY <1>2 DEF TopMoves, Return, Statuses
<1> DEFINE Stops == (CancelRun(a) /\ signal) \/ FailRun(a)
<1>3. ASSUME current = a, pc[a] \in points, Stops
      PROVE  TopMoves(a)
  BY <1>2, <1>3 DEF CancelRun, FailRun
<1> HIDE DEF Stops
<1> USE DEF agentVars
<1>4. CASE StartRun(a)
  <2>1. /\ pc' = [pc EXCEPT ![a] = "turn"]
        /\ status' = [status EXCEPT ![a] = "running"]
        /\ current = a /\ pc[a] = "start"
        /\ UNCHANGED <<parent, source, depth, current, delivering, signal>>
    BY <1>4 DEF StartRun
  <2>2. \E l \in {"turn", "generate", "call", "sync", "mcp", "returned"},
           st \in Statuses \ {"absent", "pending"} :
          /\ pc' = [pc EXCEPT ![a] = l]
          /\ status' = [status EXCEPT ![a] = st]
          /\ st = "running" <=> l # "returned"
          /\ st = "cancelled" => signal
    <3> USE DEF Statuses
    <3> WITNESS "turn" \in {"turn", "generate", "call", "sync", "mcp", "returned"},
                "running" \in Statuses \ {"absent", "pending"}
    <3> QED
      BY <2>1
  <2> QED
    BY <2>1, <2>2 DEF TopMoves
<1>5. CASE StopBeforeTurn(a) \/ GenerateFails(a) \/ CancelAtCall(a)
  BY <1>3, <1>5 DEF StopBeforeTurn, GenerateFails, CancelAtCall, Stops
<1>6. CASE ExecuteTurn(a)
  BY <1>1, <1>3, <1>6 DEF ExecuteTurn, Goto, Stops
<1>7. CASE FinalAnswer(a)
  BY <1>1, <1>2, <1>7 DEF FinalAnswer, ContinueRun
<1>8. CASE \E cs \in Batches : StoreCalls(a, cs)
  BY <1>1, <1>8 DEF StoreCalls
<1>9. CASE RejectCall(a) \/ AskHuman(a)
  BY <1>1, <1>9 DEF RejectCall, AskHuman, AtCall, CallHandled
<1>10. CASE AwaitTool(a)
  BY <1>1, <1>10 DEF AwaitTool, AtCall, Goto
<1>11. CASE SyncToolReturns(a) \/ McpToolReturns(a)
  BY <1>1, <1>3, <1>11 DEF SyncToolReturns, McpToolReturns, CallHandled, Stops
<1>12. CASE EndTurn(a)
  BY <1>1, <1>2, <1>12 DEF EndTurn, ContinueRun
<1> QED
  BY <1>4, <1>5, <1>6, <1>7, <1>8, <1>9, <1>10, <1>11, <1>12 DEF LocalStep

(* Where the top of the stack is does not matter to the shape of the stack *)
(* and of the tree.                                                        *)
LEMMA TopMoveKeepsStack ==
  ASSUME TypeOK, StackOK, TreeOK, NEW a \in Agents, TopMoves(a)
  PROVE  StackOK' /\ TreeOK'
<1>1. PICK l \in {"turn", "generate", "call", "sync", "mcp", "returned"},
           st \in Statuses \ {"absent", "pending"} :
        /\ pc' = [pc EXCEPT ![a] = l]
        /\ status' = [status EXCEPT ![a] = st]
        /\ st = "running" <=> l # "returned"
  BY DEF TopMoves
<1>2. /\ current = a /\ pc[a] \in {"start", "turn", "generate", "call", "sync", "mcp"}
      /\ UNCHANGED <<parent, depth, current>>
  BY DEF TopMoves
<1>3. ASSUME NEW x \in Agents
      PROVE  /\ pc'[x] = "child" <=> pc[x] = "child"
             /\ pc'[x] = "idle" <=> pc[x] = "idle"
  <2>1. pc'[x] = IF x = a THEN l ELSE pc[x]
    BY <1>1 DEF TypeOK
  <2> QED
    BY <1>2, <2>1
<1>4. \A x \in Agents : BottomOfStack(x)' => BottomOfStack(x)
  <2>1. \A x \in Agents : parent[x] \in Agents \union {None}
    BY DEF TypeOK
  <2> QED
    BY <1>2, <1>3, <2>1 DEF BottomOfStack
<1>5. StackOK'
  <2>1. \A x \in Agents : pc'[x] \notin {"idle", "child"} <=> current' = x
    BY <1>2, <1>3 DEF StackOK
  <2>2. \A x \in Agents : pc'[x] = "child" => current' # None /\ depth'[x] < depth'[current']
    BY <1>2, <1>3 DEF StackOK
  <2>3. ASSUME NEW x \in Agents, NEW y \in Agents, pc'[x] # "idle", pc'[y] # "idle"
        PROVE  /\ depth'[x] = depth'[y] => x = y
               /\ BottomOfStack(x)' => depth'[x] <= depth'[y]
    <3>1. pc[x] # "idle" /\ pc[y] # "idle"
      BY <1>3, <2>3
    <3> QED
      BY <1>2, <1>4, <3>1 DEF StackOK
  <2> QED
    BY <2>1, <2>2, <2>3 DEF StackOK
<1>6. TreeOK'
  <2>1. \A x \in Agents \ {a} : status'[x] = status[x] /\ pc'[x] = pc[x]
    BY <1>1 DEF TypeOK
  <2>2. status'[a] = st /\ pc'[a] = l
    BY <1>1 DEF TypeOK
  <2>3. status[a] # "absent"
    BY <1>2 DEF TreeOK
  <2>4. \A x \in Agents : status'[x] = "absent" <=> status[x] = "absent"
    BY <2>1, <2>2, <2>3
  <2>5. ASSUME NEW b \in Agents
        PROVE  /\ depth[b] <= MaxDepth
               /\ parent[b] # None =>
                    status'[parent[b]] # "absent" /\ depth[b] = depth[parent[b]] + 1
    <3>1. parent[b] \in Agents \union {None}
      BY DEF TypeOK
    <3> QED
      BY <2>4, <3>1 DEF TreeOK
  <2>6. ASSUME NEW b \in Agents
        PROVE  /\ status'[b] = "absent" => parent[b] = None /\ pc'[b] = "idle"
               /\ status'[b] = "pending" <=> pc'[b] = "start"
               /\ status'[b] = "running" <=> pc'[b] \notin {"idle", "start", "returned"}
    <3>1. CASE b = a
      BY <1>1, <2>2, <3>1
    <3>2. CASE b # a
      BY <2>1, <3>2 DEF TreeOK
    <3> QED
      BY <3>1, <3>2
  <2> QED
    BY <1>2, <2>5, <2>6 DEF TreeOK
<1> QED
  BY <1>5, <1>6

(* One agent gets onto the empty stack. *)
LEMMA EnterKeepsStack ==
  ASSUME TypeOK, StackOK, TreeOK, NEW a \in Agents,
         \A x \in Agents : pc'[x] = IF x = a THEN "start" ELSE "idle",
         current' = a, depth' = depth
  PROVE  StackOK'
<1>1. depth[a] \in Nat /\ a # None
  BY DEF TypeOK
<1>2. depth[a] <= depth[a]
  BY <1>1
<1>3. \A x, y \in Agents : pc'[x] # "idle" /\ pc'[y] # "idle" => x = a /\ y = a
  OBVIOUS
<1>4. \A x \in Agents : pc'[x] \notin {"idle", "child"} <=> current' = x
  OBVIOUS
<1>5. \A x \in Agents : pc'[x] # "child"
  OBVIOUS
<1> QED
  BY <1>2, <1>3, <1>4, <1>5 DEF StackOK

(* The stack becomes empty. *)
LEMMA EmptyStack ==
  ASSUME \A x \in Agents : pc'[x] = "idle", current' = None
  PROVE  StackOK'
BY DEF StackOK

LEMMA StackStep ==
  TypeOK /\ StackOK /\ TreeOK /\ WaitsAreOpen /\ [Next]_vars => StackOK' /\ TreeOK'
<1> SUFFICES ASSUME TypeOK, StackOK, TreeOK, WaitsAreOpen, [Next]_vars
             PROVE  StackOK' /\ TreeOK'
  OBVIOUS
<1> USE DEF agentVars, runVars
<1>t. /\ pc \in [Agents -> PCs] /\ status \in [Agents -> Statuses]
      /\ parent \in [Agents -> Agents \union {None}]
      /\ depth \in [Agents -> Nat]
      /\ current \in Agents \union {None}
  BY DEF TypeOK
<1>0. ASSUME UNCHANGED <<status, parent, depth, pc, current>> PROVE StackOK' /\ TreeOK'
  BY <1>0 DEF StackOK, TreeOK, BottomOfStack
<1>1. CASE StartChat
  <2>1. \A x \in Agents : pc'[x] = IF x = Root THEN "start" ELSE "idle"
    BY <1>1, <1>t, AllIdle DEF StartChat, Enter
  <2>2. StackOK'
    BY <1>1, <2>1, EnterKeepsStack DEF StartChat, Enter
  <2>3. TreeOK'
    BY <1>1, <1>t, <2>1, AllIdle DEF StartChat, TreeOK, Statuses
  <2> QED
    BY <2>2, <2>3
<1>2. CASE Enqueue \/ Cancel
  BY <1>0, <1>2 DEF Enqueue, Cancel
<1>3. ASSUME NEW a \in Agents, NEW e \in waiting[a], Deliver(a, e)
      PROVE  StackOK' /\ TreeOK'
  <2>1. CASE UNCHANGED <<status, runVars>>
    BY <1>0, <1>3, <2>1 DEF Deliver
  <2>2. CASE status' = [status EXCEPT ![a] = "pending"] /\ Enter(a)
    <3>1. \A x \in Agents : pc'[x] = IF x = a THEN "start" ELSE "idle"
      BY <1>3, <1>t, <2>2, AllIdle DEF Deliver, Enter
    <3>2. StackOK'
      BY <1>3, <2>2, <3>1, EnterKeepsStack DEF Deliver, Enter
    <3>3. TreeOK'
      BY <1>3, <1>t, <2>2, <3>1, AllIdle DEF Deliver, TreeOK, Statuses
    <3> QED
      BY <3>2, <3>3
  <2> QED
    BY <1>3, <2>1, <2>2 DEF Deliver
<1>4. ASSUME NEW a \in Agents, LocalStep(a) PROVE StackOK' /\ TreeOK'
  BY <1>4, LocalStepMovesTop, TopMoveKeepsStack
<1>5. ASSUME NEW a \in Agents, NEW b \in Agents, Delegate(a, b)
      PROVE  StackOK' /\ TreeOK'
  <2>1. /\ current = a /\ pc[a] = "call" /\ pc[b] = "idle" /\ a # b
        /\ status[b] = "absent" /\ parent[b] = None /\ current' = b
        /\ depth[a] + 1 <= MaxDepth
    BY <1>5 DEF Delegate, AtCall, TreeOK
  <2>2. ASSUME NEW x \in Agents
        PROVE  /\ pc'[x] = IF x = b THEN "start" ELSE IF x = a THEN "child" ELSE pc[x]
               /\ status'[x] = IF x = b THEN "pending" ELSE status[x]
               /\ depth'[x] = IF x = b THEN depth[a] + 1 ELSE depth[x]
               /\ parent'[x] = IF x = b THEN a ELSE parent[x]
    BY <1>5, <1>t, <2>1 DEF Delegate
  <2>3. \A x \in Agents : pc[x] # "idle" => depth[x] <= depth[a]
    BY <1>t, <2>1 DEF StackOK
  <2>4. \A x \in Agents : parent[x] # None => parent[x] # b
    BY <2>1 DEF TreeOK
  <2>5. ASSUME NEW x \in Agents, BottomOfStack(x)' PROVE x # b /\ BottomOfStack(x)
    <3>1. x # b
      BY <1>t, <2>1, <2>2, <2>5 DEF BottomOfStack
    <3>2. CASE parent[x] = None
      BY <3>1, <3>2 DEF BottomOfStack
    <3>3. CASE parent[x] # None
      <4>1. parent[x] \in Agents /\ parent'[x] = parent[x] /\ pc'[parent[x]] # "child"
        BY <1>t, <2>2, <2>5, <3>1, <3>3 DEF BottomOfStack
      <4> QED
        BY <2>2, <2>4, <3>1, <3>3, <4>1 DEF BottomOfStack
    <3> QED
      BY <3>2, <3>3
  <2>6. StackOK'
    <3>1. \A x \in Agents : pc'[x] \notin {"idle", "child"} <=> current' = x
      BY <2>1, <2>2 DEF StackOK
    <3>2. \A x \in Agents : pc'[x] = "child" => current' # None /\ depth'[x] < depth'[current']
      BY <1>t, <2>1, <2>2, <2>3
    <3>3. ASSUME NEW x \in Agents, NEW y \in Agents, pc'[x] # "idle", pc'[y] # "idle"
          PROVE  /\ depth'[x] = depth'[y] => x = y
                 /\ BottomOfStack(x)' => depth'[x] <= depth'[y]
      <4>1. /\ x # b => pc[x] # "idle" /\ depth[x] \in Nat /\ depth[x] <= depth[a]
            /\ y # b => pc[y] # "idle" /\ depth[y] \in Nat /\ depth[y] <= depth[a]
            /\ depth[a] \in Nat
        BY <1>t, <2>1, <2>2, <2>3, <3>3
      <4>2. x # b /\ y # b =>
              /\ depth[x] = depth[y] => x = y
              /\ BottomOfStack(x) => depth[x] <= depth[y]
        BY <4>1 DEF StackOK
      <4> QED
        BY <2>2, <2>5, <4>1, <4>2
    <3> QED
      BY <3>1, <3>2, <3>3 DEF StackOK
  <2>7. TreeOK'
    <3> SUFFICES ASSUME NEW x \in Agents
                 PROVE  /\ depth'[x] <= MaxDepth
                        /\ parent'[x] # None =>
                             status'[parent'[x]] # "absent" /\ depth'[x] = depth'[parent'[x]] + 1
                        /\ status'[x] = "absent" => parent'[x] = None /\ pc'[x] = "idle"
                        /\ status'[x] = "pending" <=> pc'[x] = "start"
                        /\ status'[x] = "running" <=> pc'[x] \notin {"idle", "start", "returned"}
      BY DEF TreeOK
    <3>1. CASE x = b
      BY <1>t, <2>1, <2>2, <3>1 DEF TreeOK
    <3>2. CASE x # b
      <4>1. /\ depth[x] <= MaxDepth
            /\ parent[x] # None =>
                 status[parent[x]] # "absent" /\ depth[x] = depth[parent[x]] + 1
            /\ status[x] = "absent" => parent[x] = None /\ pc[x] = "idle"
            /\ status[x] = "pending" <=> pc[x] = "start"
            /\ status[x] = "running" <=> pc[x] \notin {"idle", "start", "returned"}
        BY DEF TreeOK
      <4>2. parent[x] # None => parent[x] \in Agents /\ parent[x] # b
        BY <1>t, <2>4
      <4> QED
        BY <2>1, <2>2, <3>2, <4>1, <4>2
    <3> QED
      BY <3>1, <3>2
  <2> QED
    BY <2>6, <2>7
<1>6. ASSUME NEW a \in Agents, NEW b \in Agents, ChildReturns(a, b)
      PROVE  StackOK' /\ TreeOK'
  <2>1. /\ current = b /\ pc[b] = "returned" /\ parent[b] = a /\ pc[a] = "child" /\ a # b
        /\ current' = a /\ parent' = parent /\ depth' = depth
        /\ a # None /\ depth[b] = depth[a] + 1
    BY <1>6 DEF ChildReturns, TreeOK
  <2>2. PICK l \in {"returned", "call"} : pc' = [pc EXCEPT ![a] = l, ![b] = "idle"]
    BY <1>6 DEF ChildReturns
  <2>3. \A x \in Agents : pc'[x] = IF x = b THEN "idle" ELSE IF x = a THEN l ELSE pc[x]
    BY <1>t, <2>1, <2>2
  <2>4. \/ l = "returned" /\ status' = [status EXCEPT ![a] = "cancelled"]
        \/ l = "call" /\ status' = status
    <3>1. \/ /\ pc' = [pc EXCEPT ![a] = "returned", ![b] = "idle"]
             /\ status' = [status EXCEPT ![a] = "cancelled"]
          \/ /\ pc' = [pc EXCEPT ![a] = "call", ![b] = "idle"]
             /\ status' = status
      BY <1>6 DEF ChildReturns
    <3> QED
      BY <1>t, <2>1, <2>3, <3>1
  <2>5. ASSUME NEW x \in Agents, pc'[x] # "idle" PROVE x # b /\ pc[x] # "idle"
    BY <2>1, <2>3, <2>5
  <2>6. ASSUME NEW x \in Agents, pc'[x] # "idle", BottomOfStack(x)' PROVE BottomOfStack(x)
    <3>1. parent[x] # a
      <4>1. parent[x] = a => depth[x] = depth[b]
        BY <2>1 DEF TreeOK
      <4> QED
        BY <2>1, <2>5, <2>6, <4>1 DEF StackOK
    <3>2. parent[x] # None => parent[x] \in Agents /\ pc'[parent[x]] # "child"
      BY <1>t, <2>1, <2>6 DEF BottomOfStack
    <3> QED
      BY <2>1, <2>3, <3>1, <3>2 DEF BottomOfStack
  <2>7. StackOK'
    <3>1. \A x \in Agents : pc'[x] \notin {"idle", "child"} <=> current' = x
      BY <2>1, <2>3 DEF StackOK
    <3>2. ASSUME NEW x \in Agents, pc'[x] = "child" PROVE depth[x] < depth[a]
      <4>1. x # a /\ pc[x] = "child"
        BY <2>1, <2>3, <3>2
      <4>2. depth[x] < depth[b] /\ depth[x] # depth[a]
        BY <2>1, <4>1 DEF StackOK
      <4> QED
        BY <1>t, <2>1, <4>2
    <3>3. ASSUME NEW x \in Agents, NEW y \in Agents, pc'[x] # "idle", pc'[y] # "idle"
          PROVE  /\ depth[x] = depth[y] => x = y
                 /\ BottomOfStack(x)' => depth[x] <= depth[y]
      BY <2>5, <2>6, <3>3 DEF StackOK
    <3> QED
      BY <2>1, <3>1, <3>2, <3>3 DEF StackOK
  <2>8. TreeOK'
    BY <1>t, <2>1, <2>3, <2>4 DEF TreeOK
  <2> QED
    BY <2>7, <2>8
<1>7. ASSUME NEW b \in Agents, RequestEnds(b) PROVE StackOK' /\ TreeOK'
  <2>1. \A x \in Agents : pc'[x] = "idle"
    BY <1>7, <1>t, OnlyTop DEF RequestEnds
  <2>2. StackOK'
    BY <1>7, <2>1, EmptyStack DEF RequestEnds
  <2>3. TreeOK'
    BY <1>7, <1>t, <2>1, OnlyTop DEF RequestEnds, TreeOK
  <2> QED
    BY <2>2, <2>3
<1>8. ASSUME NEW b \in Agents, PropagateChildResult(b) PROVE StackOK' /\ TreeOK'
  <2> DEFINE p == parent[b]
  <2>1. /\ p \in Agents /\ p # b /\ status[p] = "waiting" /\ pc[b] = "returned"
        /\ \A x \in Agents : x # b => pc[x] = "idle"
    <3>1. /\ current = b /\ pc[b] = "returned" /\ BottomOfStack(b)
          /\ p # None /\ source[b] \in WaitCalls(waiting[p])
      BY <1>8 DEF PropagateChildResult, Propagates
    <3>2. p \in Agents /\ waiting[p] # {}
      BY <1>t, <3>1 DEF WaitCalls
    <3>3. depth[b] = depth[p] + 1
      BY <3>1 DEF TreeOK
    <3>4. p # b
      BY <1>t, <3>2, <3>3
    <3> QED
      BY <3>1, <3>2, <3>4, OnlyTop DEF WaitsAreOpen
  <2>2. parent' = parent /\ depth' = depth
    BY <1>8 DEF PropagateChildResult
  <2>3. CASE /\ status' = [status EXCEPT ![p] = "waiting"]
             /\ pc' = [pc EXCEPT ![b] = "idle"]
             /\ current' = None
    <3>1. \A x \in Agents : pc'[x] = "idle"
      BY <1>t, <2>1, <2>3
    <3>2. StackOK'
      BY <2>3, <3>1, EmptyStack
    <3>3. TreeOK'
      BY <1>t, <2>1, <2>2, <2>3, <3>1 DEF TreeOK
    <3> QED
      BY <3>2, <3>3
  <2>4. CASE /\ status' = [status EXCEPT ![p] = "pending"]
             /\ pc' = [pc EXCEPT ![b] = "idle", ![p] = "start"]
             /\ current' = p
    <3>1. \A x \in Agents : pc'[x] = IF x = p THEN "start" ELSE "idle"
      BY <1>t, <2>1, <2>4
    <3>2. StackOK'
      BY <2>1, <2>2, <2>4, <3>1, EnterKeepsStack
    <3>3. TreeOK'
      BY <1>t, <2>1, <2>2, <2>4, <3>1 DEF TreeOK
    <3> QED
      BY <3>2, <3>3
  <2> QED
    BY <1>8, <2>3, <2>4 DEF PropagateChildResult
<1>9. CASE UNCHANGED vars
  BY <1>0, <1>9 DEF vars
<1> QED
  BY <1>1, <1>2, <1>3, <1>4, <1>5, <1>6, <1>7, <1>8, <1>9 DEF Next, Step, LocalStep

-------------------------------------------------------------------------------
(* The call ledger.                                                        *)

(* Items are told apart by their type and their call. *)
LEMMA ItemsDiffer ==
  ASSUME NEW c, NEW d
  PROVE  /\ CallItem(c) # OutputItem(d)
         /\ CallItem(c) = CallItem(d) => c = d
         /\ OutputItem(c) = OutputItem(d) => c = d
         /\ CallItem(c).type = "function_call" /\ CallItem(c).call = c
         /\ OutputItem(c).type = "function_call_output" /\ OutputItem(c).call = c
BY DEF CallItem, OutputItem

(* An output that is stored answers its call, and nothing else. *)
LEMMA OutputLog ==
  ASSUME TypeOK, NEW a \in Agents, NEW c \in Calls, StoreToolOutput(a, c),
         NEW x \in Agents
  PROVE  /\ Issued(x)' = Issued(x)
         /\ Answered(x)' = IF x = a THEN Answered(x) \union {c} ELSE Answered(x)
<1>1. log[a] \in Seq(Items) /\ OutputItem(c) \in Items
  BY DEF TypeOK, OutputItem, Items
<1>2. CASE x # a
  BY <1>2 DEF StoreToolOutput, TypeOK, Issued, Answered
<1>3. CASE x = a
  <2> DEFINE q == log[a]  r == log'[a]
  <2>1. /\ Len(q) \in Nat
        /\ DOMAIN q = 1..Len(q) /\ DOMAIN r = 1..(Len(q) + 1)
        /\ \A i \in 1..Len(q) : r[i] = q[i]
        /\ r[Len(q) + 1] = OutputItem(c)
    <3>1. r = Append(q, OutputItem(c))
      BY DEF StoreToolOutput, TypeOK
    <3> QED
      BY <1>1, <3>1, AppendProperties, LenProperties
  <2> HIDE DEF q, r
  <2>2. \A d : (\E i \in DOMAIN r : r[i] = CallItem(d)) <=> (\E i \in DOMAIN q : q[i] = CallItem(d))
    BY <2>1, ItemsDiffer
  <2>3. \A d : (\E i \in DOMAIN r : r[i] = OutputItem(d)) <=>
               (d = c \/ \E i \in DOMAIN q : q[i] = OutputItem(d))
    BY <2>1, ItemsDiffer
  <2> QED
    BY <1>3, <2>2, <2>3 DEF Issued, Answered, q, r
<1> QED
  BY <1>2, <1>3

(* Storing the output of an open call keeps every call answered once. *)
LEMMA OutputOnce ==
  ASSUME TypeOK, AnsweredOnce, NEW a \in Agents, NEW c \in Open(a), StoreToolOutput(a, c)
  PROVE  AnsweredOnce'
<1>1. /\ c \in Calls
      /\ \E i \in DOMAIN log[a] : log[a][i] = CallItem(c)
      /\ \A i \in DOMAIN log[a] : log[a][i] # OutputItem(c)
  BY DEF Open, Issued, Answered
<1>2. SUFFICES ASSUME NEW x \in Agents, NEW i \in DOMAIN log'[x],
                      log'[x][i].type = "function_call_output"
               PROVE  /\ \E j \in 1..(i - 1) : log'[x][j] = CallItem(log'[x][i].call)
                      /\ \A j \in DOMAIN log'[x] : log'[x][j] = log'[x][i] => j = i
  BY DEF AnsweredOnce
<1>3. CASE x # a
  BY <1>2, <1>3 DEF StoreToolOutput, TypeOK, AnsweredOnce
<1>4. CASE x = a
  <2> DEFINE q == log[a]  r == log'[a]
  <2>1. /\ Len(q) \in Nat
        /\ DOMAIN q = 1..Len(q) /\ DOMAIN r = 1..(Len(q) + 1)
        /\ \A k \in 1..Len(q) : r[k] = q[k]
        /\ r[Len(q) + 1] = OutputItem(c)
    <3>1. q \in Seq(Items) /\ OutputItem(c) \in Items /\ r = Append(q, OutputItem(c))
      BY <1>1 DEF StoreToolOutput, TypeOK, OutputItem, Items
    <3> QED
      BY <3>1, AppendProperties, LenProperties
  <2>2. \A k \in DOMAIN q : q[k].type = "function_call_output" =>
          /\ \E j \in 1..(k - 1) : q[j] = CallItem(q[k].call)
          /\ \A j \in DOMAIN q : q[j] = q[k] => j = k
    BY DEF AnsweredOnce
  <2>3. (\E k \in DOMAIN q : q[k] = CallItem(c)) /\ (\A k \in DOMAIN q : q[k] # OutputItem(c))
    BY <1>1
  <2>4. i \in DOMAIN r /\ r[i].type = "function_call_output"
    BY <1>2, <1>4
  <2> HIDE DEF q, r
  <2>5. CASE i = Len(q) + 1
    <3>1. r[i] = OutputItem(c) /\ r[i].call = c
      BY <2>1, <2>5, ItemsDiffer
    <3>2. PICK k \in 1..Len(q) : q[k] = CallItem(c)
      BY <2>1, <2>3
    <3>3. k \in 1..(i - 1) /\ r[k] = CallItem(c)
      BY <2>1, <2>5, <3>2
    <3>4. \A j \in DOMAIN r : r[j] = r[i] => j = i
      BY <2>1, <2>3, <2>5, <3>1
    <3> QED
      BY <1>4, <3>1, <3>3, <3>4 DEF r
  <2>6. CASE i \in 1..Len(q)
    <3>1. r[i] = q[i]
      BY <2>1, <2>6
    <3>2. PICK k \in 1..(i - 1) : q[k] = CallItem(q[i].call)
      BY <2>1, <2>2, <2>4, <2>6, <3>1
    <3>3. r[k] = CallItem(r[i].call)
      BY <2>1, <2>6, <3>1, <3>2
    <3>4. \A j \in DOMAIN r : r[j] = r[i] => j = i
      <4>1. q[i] # OutputItem(c)
        BY <2>1, <2>3, <2>6
      <4> QED
        BY <2>1, <2>2, <2>4, <2>6, <3>1, <4>1
    <3> QED
      BY <1>4, <3>2, <3>3, <3>4 DEF r
  <2> QED
    BY <2>1, <2>4, <2>5, <2>6
<1> QED
  BY <1>3, <1>4

(* The calls of a response follow the items that were there before. *)
LEMMA CallsShape ==
  ASSUME TypeOK, NEW a \in Agents, NEW cs \in Batches, StoreCalls(a, cs)
  PROVE  /\ \A i \in DOMAIN log[a] : i \in DOMAIN log'[a] /\ log'[a][i] = log[a][i]
         /\ \A i \in DOMAIN cs : \E k \in DOMAIN log'[a] : log'[a][k] = CallItem(cs[i])
         /\ \A i \in DOMAIN log'[a] :
              \/ i \in DOMAIN log[a] /\ log'[a][i] = log[a][i]
              \/ \E k \in DOMAIN cs : log'[a][i] = CallItem(cs[k])
<1> DEFINE items == [i \in DOMAIN cs |-> CallItem(cs[i])]  q == log[a]  r == log'[a]
<1>1. /\ q \in Seq(Items) /\ items \in Seq(Items) /\ cs \in Seq(Calls)
      /\ r = q \o items
  <2>1. q \in Seq(Items)
    BY DEF TypeOK
  <2>2. items \in Seq(Items)
    BY CallsType
  <2>3. cs \in Seq(Calls)
    BY BatchType
  <2>4. r = q \o items
    BY DEF StoreCalls, TypeOK
  <2> QED
    BY <2>1, <2>2, <2>3, <2>4
<1>2. Len(cs) \in Nat /\ DOMAIN cs = 1..Len(cs) /\ Len(items) = Len(cs)
  <2>1. Len(cs) \in Nat /\ DOMAIN cs = 1..Len(cs)
    BY <1>1, LenProperties
  <2>2. DOMAIN items = DOMAIN cs /\ DOMAIN items = 1..Len(items) /\ Len(items) \in Nat
    BY <1>1, LenProperties
  <2> QED
    BY <2>1, <2>2
<1>3. \A i \in DOMAIN cs : items[i] = CallItem(cs[i])
  OBVIOUS
<1> HIDE DEF items, q, r
<1>4. /\ Len(q) \in Nat
      /\ DOMAIN q = 1..Len(q) /\ DOMAIN r = 1..(Len(q) + Len(cs))
      /\ \A i \in 1..(Len(q) + Len(cs)) :
           r[i] = IF i <= Len(q) THEN q[i] ELSE items[i - Len(q)]
  <2>1. Len(q) \in Nat /\ DOMAIN q = 1..Len(q)
    BY <1>1, LenProperties
  <2>2. /\ q \o items \in Seq(Items) /\ Len(q \o items) = Len(q) + Len(items)
        /\ \A i \in 1..(Len(q) + Len(items)) :
             (q \o items)[i] = IF i <= Len(q) THEN q[i] ELSE items[i - Len(q)]
    BY <1>1, ConcatProperties
  <2>3. DOMAIN (q \o items) = 1..Len(q \o items)
    BY <2>2, LenProperties
  <2> QED
    BY <1>1, <1>2, <2>1, <2>2, <2>3
<1>5. \A i \in DOMAIN q : i \in DOMAIN r /\ r[i] = q[i]
  BY <1>2, <1>4
<1>6. ASSUME NEW i \in DOMAIN cs PROVE \E k \in DOMAIN r : r[k] = CallItem(cs[i])
  <2>1. /\ i \in 1..Len(cs)
        /\ Len(q) + i \in 1..(Len(q) + Len(cs))
        /\ ~(Len(q) + i <= Len(q)) /\ (Len(q) + i) - Len(q) = i
    BY <1>2, <1>4
  <2>2. Len(q) + i \in DOMAIN r /\ r[Len(q) + i] = CallItem(cs[i])
    BY <1>3, <1>4, <2>1
  <2> QED
    BY <2>2
<1>7. ASSUME NEW i \in DOMAIN r
      PROVE  \/ i \in DOMAIN q /\ r[i] = q[i]
             \/ \E k \in DOMAIN cs : r[i] = CallItem(cs[k])
  <2>1. CASE i <= Len(q)
    BY <1>2, <1>4, <2>1
  <2>2. CASE i > Len(q)
    <3>1. i - Len(q) \in DOMAIN cs /\ i \in 1..(Len(q) + Len(cs)) /\ ~(i <= Len(q))
      BY <1>2, <1>4, <2>2
    <3> QED
      BY <1>3, <1>4, <3>1
  <2> QED
    BY <1>2, <1>4, <2>1, <2>2
<1> QED
  BY <1>5, <1>6, <1>7 DEF q, r

(* They are issued, and answer nothing. *)
LEMMA CallsLog ==
  ASSUME TypeOK, NEW a \in Agents, NEW cs \in Batches, StoreCalls(a, cs),
         NEW x \in Agents
  PROVE  /\ Issued(x)' = IF x = a THEN Issued(x) \union {cs[i] : i \in DOMAIN cs} ELSE Issued(x)
         /\ Answered(x)' = Answered(x)
<1>1. CASE x # a
  BY <1>1 DEF StoreCalls, TypeOK, Issued, Answered
<1>2. CASE x = a
  <2> DEFINE q == log[a]  r == log'[a]
  <2>1. /\ \A i \in DOMAIN q : i \in DOMAIN r /\ r[i] = q[i]
        /\ \A i \in DOMAIN cs : \E k \in DOMAIN r : r[k] = CallItem(cs[i])
        /\ \A i \in DOMAIN r : \/ i \in DOMAIN q /\ r[i] = q[i]
                               \/ \E k \in DOMAIN cs : r[i] = CallItem(cs[k])
    BY CallsShape
  <2>2. \A i \in DOMAIN cs : cs[i] \in Calls
    BY BatchType, LenProperties
  <2> HIDE DEF q, r
  <2>3. ASSUME NEW d
        PROVE  (\E i \in DOMAIN r : r[i] = CallItem(d)) <=>
                 ((\E i \in DOMAIN q : q[i] = CallItem(d)) \/ d \in {cs[i] : i \in DOMAIN cs})
    <3>1. ASSUME NEW i \in DOMAIN r, r[i] = CallItem(d)
          PROVE  (\E k \in DOMAIN q : q[k] = CallItem(d)) \/ d \in {cs[k] : k \in DOMAIN cs}
      BY <2>1, <3>1, ItemsDiffer
    <3>2. ASSUME NEW i \in DOMAIN q, q[i] = CallItem(d)
          PROVE  \E k \in DOMAIN r : r[k] = CallItem(d)
      BY <2>1, <3>2
    <3>3. ASSUME NEW i \in DOMAIN cs, d = cs[i]
          PROVE  \E k \in DOMAIN r : r[k] = CallItem(d)
      BY <2>1, <3>3
    <3> QED
      BY <3>1, <3>2, <3>3
  <2>4. ASSUME NEW d
        PROVE  (\E i \in DOMAIN r : r[i] = OutputItem(d)) <=> (\E i \in DOMAIN q : q[i] = OutputItem(d))
    BY <2>1, ItemsDiffer
  <2>5. {d \in Calls : \E i \in DOMAIN r : r[i] = CallItem(d)} =
          {d \in Calls : \E i \in DOMAIN q : q[i] = CallItem(d)} \union {cs[i] : i \in DOMAIN cs}
    BY <2>2, <2>3
  <2>6. {d \in Calls : \E i \in DOMAIN r : r[i] = OutputItem(d)} =
          {d \in Calls : \E i \in DOMAIN q : q[i] = OutputItem(d)}
    BY <2>4
  <2> QED
    BY <1>2, <2>5, <2>6 DEF Issued, Answered, q, r
<1> QED
  BY <1>1, <1>2

LEMMA CallsOnce ==
  ASSUME TypeOK, AnsweredOnce, NEW a \in Agents, NEW cs \in Batches, StoreCalls(a, cs)
  PROVE  AnsweredOnce'
<1>1. SUFFICES ASSUME NEW x \in Agents, NEW i \in DOMAIN log'[x],
                      log'[x][i].type = "function_call_output"
               PROVE  /\ \E j \in 1..(i - 1) : log'[x][j] = CallItem(log'[x][i].call)
                      /\ \A j \in DOMAIN log'[x] : log'[x][j] = log'[x][i] => j = i
  BY DEF AnsweredOnce
<1>2. CASE x # a
  BY <1>1, <1>2 DEF StoreCalls, TypeOK, AnsweredOnce
<1>3. CASE x = a
  <2> DEFINE q == log[a]  r == log'[a]
  <2>1. /\ \A k \in DOMAIN q : k \in DOMAIN r /\ r[k] = q[k]
        /\ \A k \in DOMAIN r : \/ k \in DOMAIN q /\ r[k] = q[k]
                               \/ \E m \in DOMAIN cs : r[k] = CallItem(cs[m])
    BY CallsShape
  <2>2. i \in DOMAIN r /\ r[i].type = "function_call_output"
    BY <1>1, <1>3
  <2>3. \A k \in DOMAIN q : q[k].type = "function_call_output" =>
          /\ \E j \in 1..(k - 1) : q[j] = CallItem(q[k].call)
          /\ \A j \in DOMAIN q : q[j] = q[k] => j = k
    BY DEF AnsweredOnce
  <2>4. Len(q) \in Nat /\ DOMAIN q = 1..Len(q)
    BY LenProperties DEF TypeOK
  <2> HIDE DEF q, r
  <2>5. i \in DOMAIN q /\ r[i] = q[i]
    BY <2>1, <2>2, ItemsDiffer
  <2>6. PICK j \in 1..(i - 1) : q[j] = CallItem(q[i].call)
    BY <2>2, <2>3, <2>5
  <2>7. j \in DOMAIN q
    BY <2>4, <2>5, <2>6
  <2>8. r[j] = CallItem(r[i].call)
    BY <2>1, <2>5, <2>6, <2>7
  <2>9. \A k \in DOMAIN r : r[k] = r[i] => k = i
    BY <2>1, <2>2, <2>3, <2>5, ItemsDiffer
  <2> QED
    BY <1>3, <2>6, <2>8, <2>9 DEF r
<1> QED
  BY <1>2, <1>3

LEMMA LogUnchanged ==
  ASSUME log' = log
  PROVE  /\ AnsweredOnce => AnsweredOnce'
         /\ \A x \in Agents : Issued(x)' = Issued(x) /\ Answered(x)' = Answered(x)
BY DEF AnsweredOnce, Issued, Answered

(* Only issued calls are answered. *)
LEMMA AnsweredIssued ==
  ASSUME TypeOK, AnsweredOnce, NEW a \in Agents
  PROVE  Answered(a) \subseteq Issued(a)
<1> SUFFICES ASSUME NEW c \in Calls, NEW i \in DOMAIN log[a], log[a][i] = OutputItem(c)
             PROVE  \E j \in DOMAIN log[a] : log[a][j] = CallItem(c)
  BY DEF Answered, Issued
<1>1. PICK j \in 1..(i - 1) : log[a][j] = CallItem(c)
  BY ItemsDiffer DEF AnsweredOnce
<1>2. DOMAIN log[a] = 1..Len(log[a]) /\ Len(log[a]) \in Nat
  BY LenProperties DEF TypeOK
<1> QED
  BY <1>1, <1>2

(* Handling the first call of a response takes it out of the pending ones. *)
LEMMA HandledTodo ==
  ASSUME TypeOK, CallsOK, NEW a \in Agents, todo[a] # <<>>,
         todo' = [todo EXCEPT ![a] = Tail(@)]
  PROVE  /\ Head(todo[a]) \in Pending(a)
         /\ Pending(a)' = Pending(a) \ {Head(todo[a])}
         /\ \A i, j \in DOMAIN todo'[a] : todo'[a][i] = todo'[a][j] => i = j
<1> DEFINE q == todo[a]  r == todo'[a]
<1>1. q \in Seq(Calls) /\ r = Tail(q)
  BY DEF TypeOK
<1>2. q # <<>> /\ \A i, j \in DOMAIN q : q[i] = q[j] => i = j
  BY DEF CallsOK
<1> HIDE DEF q, r
<1>3. /\ Len(q) \in Nat \ {0} /\ DOMAIN q = 1..Len(q)
      /\ r \in Seq(Calls) /\ Len(r) = Len(q) - 1 /\ DOMAIN r = 1..Len(r)
      /\ \A i \in 1..Len(r) : r[i] = q[i + 1]
      /\ Head(q) = q[1]
  BY <1>1, <1>2, HeadTailProperties, LenProperties, EmptySeq
<1>4. Head(q) \in {q[i] : i \in DOMAIN q}
  BY <1>3
<1>5. \A i, j \in DOMAIN r : r[i] = r[j] => i = j
  <2> SUFFICES ASSUME NEW i \in DOMAIN r, NEW j \in DOMAIN r, r[i] = r[j] PROVE i = j
    OBVIOUS
  <2>1. i \in Nat /\ j \in Nat /\ i + 1 \in DOMAIN q /\ j + 1 \in DOMAIN q /\ q[i + 1] = q[j + 1]
    BY <1>3
  <2>2. i + 1 = j + 1
    BY <1>2, <2>1
  <2> QED
    BY <2>1, <2>2
<1>6. {r[i] : i \in DOMAIN r} = {q[i] : i \in DOMAIN q} \ {Head(q)}
  <2>1. ASSUME NEW i \in DOMAIN r PROVE r[i] \in {q[k] : k \in DOMAIN q} \ {Head(q)}
    <3>1. i + 1 \in DOMAIN q /\ 1 \in DOMAIN q /\ i + 1 # 1 /\ r[i] = q[i + 1]
      BY <1>3
    <3> QED
      BY <1>2, <1>3, <3>1
  <2>2. ASSUME NEW k \in DOMAIN q, q[k] # Head(q) PROVE \E i \in DOMAIN r : r[i] = q[k]
    <3>1. k # 1 /\ k - 1 \in DOMAIN r /\ (k - 1) + 1 = k
      BY <1>3, <2>2
    <3>2. r[k - 1] = q[k]
      BY <1>3, <3>1
    <3> QED
      BY <3>1, <3>2
  <2> QED
    BY <2>1, <2>2
<1> QED
  BY <1>4, <1>5, <1>6 DEF Pending, q, r

(* The part of CallsOK and WaitsAreOpen that is about one agent. *)
AgentLedger(a) ==
  /\ pc[a] \in Handling \ {"call"} => todo[a] # <<>>
  /\ pc[a] \notin Handling => todo[a] = <<>> /\ waits[a] = {}
  /\ \A i, j \in DOMAIN todo[a] : todo[a][i] = todo[a][j] => i = j
  /\ Pending(a) \subseteq Open(a)
  /\ WaitCalls(waits[a]) \subseteq Open(a) \ Pending(a)
  /\ \A e, f \in waits[a] : e.call = f.call => e = f
  /\ \A e, f \in waiting[a] : e.call = f.call => e = f
  /\ WaitCalls(waiting[a]) \subseteq Open(a)
  /\ waiting[a] # {} <=> status[a] = "waiting"

Disjoint == \A a, b \in Agents : a # b => Issued(a) \intersect Issued(b) = {}

LEMMA LedgerParts ==
  /\ CallsOK /\ WaitsAreOpen <=> Disjoint /\ \A a \in Agents : AgentLedger(a)
  /\ (CallsOK /\ WaitsAreOpen <=> Disjoint /\ \A a \in Agents : AgentLedger(a))'
BY DEF CallsOK, WaitsAreOpen, Disjoint, AgentLedger

(* An agent's part is kept by a step that leaves its ledger alone. *)
LEMMA LedgerKept ==
  ASSUME NEW x \in Agents, AgentLedger(x),
         Issued(x)' = Issued(x), Answered(x)' = Answered(x),
         todo'[x] = todo[x], waits'[x] = waits[x], waiting'[x] = waiting[x],
         status'[x] = "waiting" <=> status[x] = "waiting",
         pc'[x] = pc[x] \/ (pc[x] \notin Handling /\ pc'[x] \notin Handling)
  PROVE  AgentLedger(x)'
<1>1. /\ Pending(x)' = Pending(x) /\ Open(x)' = Open(x)
      /\ WaitCalls(waits[x])' = WaitCalls(waits[x])
      /\ WaitCalls(waiting[x])' = WaitCalls(waiting[x])
  BY DEF Pending, Open, WaitCalls
<1>2. /\ pc'[x] \in Handling \ {"call"} => todo'[x] # <<>>
      /\ pc'[x] \notin Handling => todo'[x] = <<>> /\ waits'[x] = {}
  BY DEF AgentLedger
<1>3. \A i, j \in DOMAIN todo'[x] : todo'[x][i] = todo'[x][j] => i = j
  BY DEF AgentLedger
<1> QED
  BY <1>1, <1>2, <1>3 DEF AgentLedger

(* Returning leaves nothing pending; what is waited for must be open. *)
LEMMA LedgerReturn ==
  ASSUME TypeOK, NEW a \in Agents, NEW st, NEW W, Return(a, st, W),
         WaitCalls(W) \subseteq Open(a)',
         \A e, f \in W : e.call = f.call => e = f,
         W # {} <=> st = "waiting"
  PROVE  AgentLedger(a)'
<1>1. /\ todo'[a] = <<>> /\ waits'[a] = {} /\ waiting'[a] = W
      /\ status'[a] = st /\ pc'[a] = "returned"
  BY DEF Return, TypeOK
<1>2. Pending(a)' = {} /\ WaitCalls(waits[a])' = {} /\ WaitCalls(waiting[a])' = WaitCalls(W)
  BY <1>1 DEF Pending, WaitCalls
<1> QED
  BY <1>1, <1>2 DEF AgentLedger, Handling

(* The first pending call is answered. *)
LEMMA LedgerAnswered ==
  ASSUME TypeOK, CallsOK, NEW a \in Agents, AgentLedger(a), todo[a] # <<>>,
         status[a] # "waiting",
         todo' = [todo EXCEPT ![a] = Tail(@)], pc'[a] = "call",
         waits'[a] = waits[a], waiting'[a] = waiting[a], status'[a] = status[a],
         Issued(a)' = Issued(a), Answered(a)' = Answered(a) \union {Head(todo[a])}
  PROVE  AgentLedger(a)'
<1> DEFINE h == Head(todo[a])
<1>1. /\ h \in Pending(a) /\ Pending(a)' = Pending(a) \ {h}
      /\ \A i, j \in DOMAIN todo'[a] : todo'[a][i] = todo'[a][j] => i = j
  BY HandledTodo
<1>2. /\ Open(a)' = Open(a) \ {h}
      /\ WaitCalls(waits[a])' = WaitCalls(waits[a])
      /\ WaitCalls(waiting[a])' = WaitCalls(waiting[a])
  BY DEF Open, WaitCalls
<1>3. h \notin WaitCalls(waits[a]) /\ waiting[a] = {}
  BY <1>1 DEF AgentLedger
<1>4. WaitCalls(waiting[a]) = {}
  BY <1>3 DEF WaitCalls
<1> HIDE DEF h
<1> QED
  BY <1>1, <1>2, <1>3, <1>4 DEF AgentLedger, Handling

(* The first pending call becomes one that is waited for. *)
LEMMA LedgerWaits ==
  ASSUME TypeOK, CallsOK, NEW a \in Agents, AgentLedger(a), todo[a] # <<>>,
         NEW t \in {"human", "agent"},
         todo' = [todo EXCEPT ![a] = Tail(@)], pc'[a] = "call",
         waits'[a] = waits[a] \union {[call |-> Head(todo[a]), type |-> t]},
         waiting'[a] = waiting[a], status'[a] = status[a],
         Issued(a)' = Issued(a), Answered(a)' = Answered(a)
  PROVE  AgentLedger(a)'
<1> DEFINE h == Head(todo[a])  n == [call |-> h, type |-> t]
<1>1. /\ h \in Pending(a) /\ Pending(a)' = Pending(a) \ {h}
      /\ \A i, j \in DOMAIN todo'[a] : todo'[a][i] = todo'[a][j] => i = j
  BY HandledTodo
<1>2. n.call = h
  OBVIOUS
<1>3. /\ Open(a)' = Open(a)
      /\ WaitCalls(waits[a])' = WaitCalls(waits[a]) \union {h}
      /\ WaitCalls(waiting[a])' = WaitCalls(waiting[a])
  BY <1>2 DEF Open, WaitCalls
<1>4. h \notin WaitCalls(waits[a])
  BY <1>1 DEF AgentLedger
<1>5. \A e, f \in waits'[a] : e.call = f.call => e = f
  <2>1. \A e \in waits[a] : e.call # h
    BY <1>4 DEF WaitCalls
  <2>2. \A e, f \in waits[a] : e.call = f.call => e = f
    BY DEF AgentLedger
  <2>3. waits'[a] = waits[a] \union {n}
    OBVIOUS
  <2> HIDE DEF n, h
  <2> QED
    BY <1>2, <2>1, <2>2, <2>3
<1> HIDE DEF h
<1>6. /\ WaitCalls(waits[a])' \subseteq Open(a)' \ Pending(a)'
      /\ Pending(a)' \subseteq Open(a)'
      /\ WaitCalls(waiting[a])' \subseteq Open(a)'
  <2>1. /\ Pending(a) \subseteq Open(a)
        /\ WaitCalls(waits[a]) \subseteq Open(a) \ Pending(a)
        /\ WaitCalls(waiting[a]) \subseteq Open(a)
    BY DEF AgentLedger
  <2>2. h \in Open(a)
    BY <1>1, <2>1
  <2>3. WaitCalls(waits[a]) \union {h} \subseteq Open(a) \ (Pending(a) \ {h})
    BY <2>1, <2>2
  <2>4. Pending(a) \ {h} \subseteq Open(a)
    BY <2>1
  <2>5. WaitCalls(waits[a])' \subseteq Open(a)' \ Pending(a)'
    BY <1>1, <1>3, <2>3, Zenon
  <2>6. Pending(a)' \subseteq Open(a)'
    BY <1>1, <1>3, <2>4
  <2>7. WaitCalls(waiting[a])' \subseteq Open(a)'
    BY <1>3, <2>1, Zenon
  <2> QED
    BY <2>5, <2>6, <2>7
<1>7. /\ \A e, f \in waiting'[a] : e.call = f.call => e = f
      /\ waiting'[a] # {} <=> status'[a] = "waiting"
  BY DEF AgentLedger
<1>8. pc'[a] \in Handling /\ pc'[a] \notin Handling \ {"call"}
  BY DEF Handling
<1> QED
  BY <1>1, <1>5, <1>6, <1>7, <1>8 DEF AgentLedger

(* A local step writes to the ledger of its own agent only. *)
LEMMA LocalStepIsLocal ==
  ASSUME TypeOK, TreeOK, NEW a \in Agents, LocalStep(a), NEW x \in Agents \ {a}
  PROVE  /\ todo'[x] = todo[x] /\ waits'[x] = waits[x] /\ waiting'[x] = waiting[x]
         /\ status'[x] = status[x] /\ pc'[x] = pc[x] /\ log'[x] = log[x]
<1> USE DEF agentVars
<1>1. /\ todo \in [Agents -> Seq(Calls)] /\ log \in [Agents -> Seq(Items)]
      /\ waits \in [Agents -> SUBSET WaitEntries]
      /\ waiting \in [Agents -> SUBSET WaitEntries]
      /\ status \in [Agents -> Statuses] /\ pc \in [Agents -> PCs]
  BY DEF TypeOK
<1>2. status'[x] = status[x] /\ pc'[x] = pc[x]
  BY <1>1, LocalStepMovesTop DEF TopMoves
<1> DEFINE Kept == todo'[x] = todo[x] /\ waits'[x] = waits[x] /\ waiting'[x] = waiting[x]
<1>3. ASSUME NEW st, NEW W, Return(a, st, W) PROVE Kept
  BY <1>1, <1>3 DEF Return
<1>4. CancelRun(a) \/ FailRun(a) => Kept
  BY <1>3 DEF CancelRun, FailRun
<1>5. ContinueRun(a) => Kept
  BY <1>1 DEF ContinueRun
<1>6. ASSUME NEW W, CallHandled(a, W), UNCHANGED waiting PROVE Kept
  BY <1>1, <1>6 DEF CallHandled
<1>7. ASSUME NEW l, Goto(a, l) PROVE Kept
  BY <1>7 DEF Goto
<1>8. ASSUME NEW c, StoreToolOutput(a, c) PROVE log'[x] = log[x]
  BY <1>1, <1>8 DEF StoreToolOutput
<1> HIDE DEF Kept
<1>9. Kept /\ log'[x] = log[x]
  <2>1. CASE StartRun(a)
    BY <2>1 DEF StartRun, Kept
  <2>2. CASE StopBeforeTurn(a) \/ GenerateFails(a) \/ CancelAtCall(a)
    BY <1>4, <2>2 DEF StopBeforeTurn, GenerateFails, CancelAtCall
  <2>3. CASE ExecuteTurn(a)
    BY <1>4, <1>7, <2>3 DEF ExecuteTurn
  <2>4. CASE FinalAnswer(a)
    BY <1>3, <1>5, <2>4 DEF FinalAnswer
  <2>5. CASE \E cs \in Batches : StoreCalls(a, cs)
    BY <1>1, <2>5 DEF StoreCalls, Kept
  <2>6. CASE RejectCall(a) \/ AskHuman(a)
    BY <1>6, <1>8, <2>6 DEF RejectCall, AskHuman
  <2>7. CASE AwaitTool(a)
    BY <1>7, <2>7 DEF AwaitTool
  <2>8. CASE SyncToolReturns(a) \/ McpToolReturns(a)
    BY <1>4, <1>6, <1>8, <2>8 DEF SyncToolReturns, McpToolReturns
  <2>9. CASE EndTurn(a)
    BY <1>3, <1>5, <2>9 DEF EndTurn
  <2> QED
    BY <2>1, <2>2, <2>3, <2>4, <2>5, <2>6, <2>7, <2>8, <2>9 DEF LocalStep
<1> QED
  BY <1>2, <1>9 DEF Kept

LEMMA LedgerStep ==
  ASSUME TypeOK, StackOK, TreeOK, AnsweredOnce, CallsOK, WaitsAreOpen, [Next]_vars
  PROVE  AnsweredOnce' /\ CallsOK' /\ WaitsAreOpen'
<1> USE DEF agentVars, runVars
<1>t. /\ pc \in [Agents -> PCs] /\ status \in [Agents -> Statuses]
      /\ waiting \in [Agents -> SUBSET WaitEntries]
      /\ waits \in [Agents -> SUBSET WaitEntries]
      /\ todo \in [Agents -> Seq(Calls)]
      /\ source \in [Agents -> Calls \union {None}]
      /\ parent \in [Agents -> Agents \union {None}]
      /\ current \in Agents \union {None}
  BY DEF TypeOK
<1>l. Disjoint /\ \A x \in Agents : AgentLedger(x)
  BY LedgerParts
<1> SUFFICES AnsweredOnce' /\ Disjoint' /\ \A x \in Agents : AgentLedger(x)'
  BY LedgerParts
<1>i. ASSUME \A x \in Agents : Issued(x)' = Issued(x) PROVE Disjoint'
  BY <1>i, <1>l DEF Disjoint
<1>0. ASSUME log' = log, UNCHANGED <<todo, waits, waiting>>,
             \A x \in Agents : status'[x] = "waiting" <=> status[x] = "waiting",
             \A x \in Agents : pc'[x] = pc[x] \/ (pc[x] \notin Handling /\ pc'[x] \notin Handling)
      PROVE  AnsweredOnce' /\ Disjoint' /\ \A x \in Agents : AgentLedger(x)'
  <2>1. AnsweredOnce' /\ \A x \in Agents : Issued(x)' = Issued(x) /\ Answered(x)' = Answered(x)
    BY <1>0, LogUnchanged
  <2>2. \A x \in Agents : AgentLedger(x)'
    BY <1>0, <1>l, <2>1, LedgerKept
  <2> QED
    BY <1>i, <2>1, <2>2
<1>1. CASE StartChat
  <2>1. waiting[Root] = {} /\ pc[Root] = "idle"
    BY <1>1, <1>l, AllIdle DEF StartChat, AgentLedger
  <2>2. waiting' = waiting
    BY <1>1, <1>t, <2>1 DEF StartChat
  <2> QED
    BY <1>0, <1>1, <1>t, <2>1, <2>2 DEF StartChat, Enter, Handling
<1>2. CASE Enqueue \/ Cancel \/ UNCHANGED vars
  BY <1>0, <1>2 DEF Enqueue, Cancel, vars
<1>3. ASSUME NEW a \in Agents, NEW e \in waiting[a], Deliver(a, e)
      PROVE  AnsweredOnce' /\ Disjoint' /\ \A x \in Agents : AgentLedger(x)'
  <2> DEFINE c == e.call
  <2>1. c \in Open(a) /\ c \in Calls /\ pc[a] = "idle" /\ status[a] = "waiting"
    BY <1>3, <1>l, AllIdle DEF Deliver, AgentLedger, WaitCalls, Open, Issued
  <2>2. /\ \A x \in Agents : Issued(x)' = Issued(x)
        /\ \A x \in Agents : Answered(x)' = IF x = a THEN Answered(x) \union {c} ELSE Answered(x)
    BY <1>3, <2>1, OutputLog DEF Deliver
  <2>3. AnsweredOnce'
    BY <1>3, <2>1, OutputOnce DEF Deliver
  <2>4. /\ waiting' = [waiting EXCEPT ![a] = @ \ {e}] /\ todo' = todo /\ waits' = waits
        /\ \/ waiting'[a] # {} /\ status' = status /\ pc' = pc
           \/ waiting'[a] = {} /\ status' = [status EXCEPT ![a] = "pending"] /\ pc' = [pc EXCEPT ![a] = "start"]
    BY <1>3 DEF Deliver, Enter
  <2>5. ASSUME NEW x \in Agents, x # a PROVE AgentLedger(x)'
    <3>1. /\ waiting'[x] = waiting[x] /\ todo'[x] = todo[x] /\ waits'[x] = waits[x]
          /\ status'[x] = status[x] /\ pc'[x] = pc[x]
      BY <1>t, <2>4, <2>5
    <3>2. Issued(x)' = Issued(x) /\ Answered(x)' = Answered(x)
      BY <2>2, <2>5
    <3> QED
      BY <1>l, <3>1, <3>2, LedgerKept
  <2>6. AgentLedger(a)'
    <3>1. /\ waiting'[a] = waiting[a] \ {e} /\ todo'[a] = <<>> /\ waits'[a] = {}
          /\ pc'[a] \notin Handling
          /\ waiting'[a] # {} <=> status'[a] = "waiting"
      BY <1>l, <1>t, <2>1, <2>4 DEF AgentLedger, Handling
    <3>2. Pending(a)' = {} /\ WaitCalls(waits[a])' = {}
      BY <3>1 DEF Pending, WaitCalls
    <3>3. Open(a)' = Open(a) \ {c}
      BY <2>2 DEF Open
    <3>4. /\ \A f, g \in waiting[a] : f.call = g.call => f = g
          /\ WaitCalls(waiting[a]) \subseteq Open(a)
      BY <1>l DEF AgentLedger
    <3>5. WaitCalls(waiting[a])' \subseteq Open(a)'
      BY <3>1, <3>3, <3>4 DEF WaitCalls
    <3>6. \A f, g \in waiting'[a] : f.call = g.call => f = g
      BY <3>1, <3>4
    <3>7. WaitCalls(waits[a])' \subseteq Open(a)' \ Pending(a)' /\ Pending(a)' \subseteq Open(a)'
      BY <3>2
    <3>8. \A i, j \in DOMAIN todo'[a] : todo'[a][i] = todo'[a][j] => i = j
      BY <1>l, <2>4 DEF AgentLedger
    <3>9. \A f, g \in waits'[a] : f.call = g.call => f = g
      BY <3>1
    <3> QED
      BY <3>1, <3>5, <3>6, <3>7, <3>8, <3>9 DEF AgentLedger
  <2> QED
    BY <1>i, <2>2, <2>3, <2>5, <2>6
<1>4. ASSUME NEW a \in Agents, LocalStep(a)
      PROVE  AnsweredOnce' /\ Disjoint' /\ \A x \in Agents : AgentLedger(x)'
  <2>1. /\ current = a /\ pc[a] \in {"start", "turn", "generate", "call", "sync", "mcp"}
        /\ status[a] \in {"pending", "running"}
    BY <1>4, LocalStepMovesTop DEF TopMoves, TreeOK
  <2>2. AgentLedger(a) /\ waiting[a] = {} /\ status[a] # "waiting"
    BY <1>l, <2>1 DEF AgentLedger
  <2>3. ASSUME NEW x \in Agents, x # a PROVE AgentLedger(x)'
    <3>1. /\ todo'[x] = todo[x] /\ waits'[x] = waits[x] /\ waiting'[x] = waiting[x]
          /\ status'[x] = status[x] /\ pc'[x] = pc[x] /\ log'[x] = log[x]
      BY <1>4, <2>3, LocalStepIsLocal
    <3>2. Issued(x)' = Issued(x) /\ Answered(x)' = Answered(x)
      BY <3>1 DEF Issued, Answered
    <3> QED
      BY <1>l, <3>1, <3>2, LedgerKept
  <2>4. log' = log => /\ AnsweredOnce' /\ Disjoint'
                      /\ Open(a)' = Open(a)
                      /\ Issued(a)' = Issued(a) /\ Answered(a)' = Answered(a)
    BY <1>i, LogUnchanged DEF Open
  <2>5. ASSUME NEW c \in Open(a), StoreToolOutput(a, c)
        PROVE  /\ AnsweredOnce' /\ Disjoint'
               /\ Issued(a)' = Issued(a) /\ Answered(a)' = Answered(a) \union {c}
    <3>1. c \in Calls
      BY DEF Open, Issued
    <3> QED
      BY <1>i, <2>5, <3>1, OutputLog, OutputOnce
  <2>6. todo[a] # <<>> => Head(todo[a]) \in Open(a) /\ Head(todo[a]) \in Pending(a)
    <3> SUFFICES ASSUME todo[a] # <<>> PROVE Head(todo[a]) \in Pending(a)
      BY <2>2 DEF AgentLedger
    <3>1. /\ todo[a] \in Seq(Calls) /\ Len(todo[a]) \in Nat \ {0}
          /\ DOMAIN todo[a] = 1..Len(todo[a])
      BY <1>t, EmptySeq, LenProperties
    <3>2. Head(todo[a]) = todo[a][1]
      BY <3>1
    <3> QED
      BY <3>1, <3>2 DEF Pending
  <2>7. ASSUME NEW st \in {"completed", "failed", "cancelled"}, Return(a, st, {})
        PROVE  AgentLedger(a)'
    <3>1. WaitCalls({}) \subseteq Open(a)'
      BY DEF WaitCalls
    <3> QED
      BY <2>7, <3>1, LedgerReturn
  <2>8. CancelRun(a) \/ FailRun(a) => AgentLedger(a)'
    BY <2>2, <2>7 DEF CancelRun, FailRun
  <2>9. ASSUME log' = log, todo' = todo, waits' = waits, waiting'[a] = {}, status' = status,
               pc'[a] \notin Handling, pc[a] \in Handling => todo[a] = <<>> /\ waits[a] = {}
        PROVE  AgentLedger(a)'
    <3>1. todo'[a] = <<>> /\ waits'[a] = {}
      BY <2>2, <2>9 DEF AgentLedger
    <3>2. /\ Pending(a)' = Pending(a) /\ Open(a)' = Open(a)
          /\ WaitCalls(waits[a])' = {} /\ WaitCalls(waiting[a])' = {}
      BY <2>4, <2>9, <3>1 DEF Pending, WaitCalls
    <3> QED
      BY <2>2, <2>9, <3>1, <3>2 DEF AgentLedger
  <2>10. ContinueRun(a) /\ log' = log /\ (pc[a] \in Handling => todo[a] = <<>> /\ waits[a] = {})
           => AgentLedger(a)'
    BY <1>t, <2>9 DEF ContinueRun, Handling
  <2>11. CASE StartRun(a)
    <3>1. /\ log' = log /\ UNCHANGED <<todo, waits, waiting>>
          /\ status'[a] # "waiting" /\ pc[a] \notin Handling /\ pc'[a] \notin Handling
      BY <1>t, <2>11 DEF StartRun, Handling
    <3> QED
      BY <2>2, <2>3, <2>4, <3>1, LedgerKept
  <2>12. CASE StopBeforeTurn(a) \/ GenerateFails(a) \/ CancelAtCall(a)
    BY <2>3, <2>4, <2>8, <2>12 DEF StopBeforeTurn, GenerateFails, CancelAtCall
  <2>13. CASE ExecuteTurn(a)
    <3>1. log' = log /\ pc[a] = "turn"
      BY <2>13 DEF ExecuteTurn
    <3>2. CASE Goto(a, "generate")
      <4>1. /\ UNCHANGED <<todo, waits, waiting, status>>
            /\ pc[a] \notin Handling /\ pc'[a] \notin Handling
        BY <1>t, <3>1, <3>2 DEF Goto, Handling
      <4> QED
        BY <2>2, <2>3, <2>4, <3>1, <4>1, LedgerKept
    <3> QED
      BY <2>3, <2>4, <2>8, <2>13, <3>1, <3>2 DEF ExecuteTurn
  <2>14. CASE FinalAnswer(a)
    <3>1. log' = log /\ pc[a] \notin Handling
      BY <2>14 DEF FinalAnswer, Handling
    <3> QED
      BY <2>3, <2>4, <2>7, <2>10, <2>14, <3>1 DEF FinalAnswer
  <2>15. ASSUME NEW cs \in Batches, StoreCalls(a, cs)
         PROVE  AnsweredOnce' /\ Disjoint' /\ AgentLedger(a)'
    <3> DEFINE new == {cs[i] : i \in DOMAIN cs}
    <3>1. /\ Issued(a)' = Issued(a) \union new
          /\ Answered(a)' = Answered(a)
          /\ \A x \in Agents : x # a => Issued(x)' = Issued(x)
      BY <2>15, CallsLog
    <3>2. /\ new \subseteq Calls
          /\ \A x \in Agents : new \intersect Issued(x) = {}
          /\ \A i, j \in DOMAIN cs : cs[i] = cs[j] => i = j
      BY BatchType DEF FreshCalls
    <3>3. new \intersect Answered(a) = {}
      BY <3>2, AnsweredIssued
    <3>4. /\ todo'[a] = cs /\ waits'[a] = {} /\ waiting'[a] = {} /\ status'[a] # "waiting"
          /\ pc'[a] = "call"
      BY <1>t, <2>2, <2>15 DEF StoreCalls, AgentLedger, Handling
    <3>5. /\ Pending(a)' = new /\ WaitCalls(waits[a])' = {} /\ WaitCalls(waiting[a])' = {}
      BY <3>4 DEF Pending, WaitCalls
    <3> HIDE DEF new
    <3>6. new \subseteq Open(a)'
      BY <3>1, <3>3 DEF Open
    <3>7. AgentLedger(a)'
      BY <3>2, <3>4, <3>5, <3>6 DEF AgentLedger, Handling
    <3>8. Disjoint'
      BY <1>l, <3>1, <3>2 DEF Disjoint
    <3> QED
      BY <2>15, <3>7, <3>8, CallsOnce
  <2>16. CASE RejectCall(a)
    <3>1. /\ todo[a] # <<>> /\ StoreToolOutput(a, Head(todo[a]))
          /\ UNCHANGED <<waiting, status>> /\ CallHandled(a, {})
      BY <2>16 DEF RejectCall, AtCall
    <3>2. AgentLedger(a)'
      BY <1>t, <2>2, <2>5, <2>6, <3>1, LedgerAnswered DEF CallHandled
    <3> QED
      BY <2>3, <2>5, <2>6, <3>1, <3>2
  <2>17. CASE AskHuman(a)
    <3>1. /\ todo[a] # <<>> /\ log' = log /\ UNCHANGED <<waiting, status>>
          /\ CallHandled(a, {[call |-> Head(todo[a]), type |-> "human"]})
      BY <2>17 DEF AskHuman, AtCall
    <3>2. /\ waits'[a] = waits[a] \union {[call |-> Head(todo[a]), type |-> "human"]}
          /\ todo' = [todo EXCEPT ![a] = Tail(@)] /\ pc'[a] = "call"
      BY <1>t, <3>1 DEF CallHandled
    <3>3. AgentLedger(a)'
      BY <2>2, <2>4, <3>1, <3>2, LedgerWaits
    <3> QED
      BY <2>3, <2>4, <3>1, <3>3
  <2>18. CASE AwaitTool(a)
    <3>1. /\ todo[a] # <<>> /\ log' = log /\ UNCHANGED <<todo, waits, waiting, status>>
          /\ pc'[a] \in {"sync", "mcp"}
      BY <1>t, <2>18 DEF AwaitTool, AtCall, Goto
    <3>2. /\ Pending(a)' = Pending(a)
          /\ WaitCalls(waits[a])' = WaitCalls(waits[a])
          /\ WaitCalls(waiting[a])' = WaitCalls(waiting[a])
      BY <3>1 DEF Pending, WaitCalls
    <3>3. AgentLedger(a)'
      BY <2>2, <2>4, <3>1, <3>2 DEF AgentLedger, Handling
    <3> QED
      BY <2>3, <2>4, <3>1, <3>3
  <2>19. CASE SyncToolReturns(a) \/ McpToolReturns(a)
    <3>1. todo[a] # <<>>
      BY <2>2, <2>19 DEF SyncToolReturns, McpToolReturns, AgentLedger, Handling
    <3>2. CASE CancelRun(a)
      <4>1. log' = log \/ StoreToolOutput(a, Head(todo[a]))
        BY <2>19 DEF SyncToolReturns, McpToolReturns
      <4> QED
        BY <2>3, <2>4, <2>5, <2>6, <2>8, <3>1, <3>2, <4>1
    <3>3. CASE /\ StoreToolOutput(a, Head(todo[a])) /\ CallHandled(a, {})
               /\ UNCHANGED agentVars
      <4>1. AgentLedger(a)'
        BY <1>t, <2>2, <2>5, <2>6, <3>1, <3>3, LedgerAnswered DEF CallHandled
      <4> QED
        BY <2>3, <2>5, <2>6, <3>1, <3>3, <4>1
    <3> QED
      BY <2>19, <3>2, <3>3 DEF SyncToolReturns, McpToolReturns
  <2>20. CASE EndTurn(a)
    <3>1. log' = log /\ todo[a] = <<>> /\ pc[a] = "call"
      BY <2>20 DEF EndTurn
    <3>2. CASE waits[a] # {} /\ Return(a, "waiting", waits[a])
      <4>1. /\ WaitCalls(waits[a]) \subseteq Open(a)'
            /\ \A e, f \in waits[a] : e.call = f.call => e = f
        BY <2>2, <2>4, <3>1 DEF AgentLedger
      <4>2. AgentLedger(a)'
        BY <3>2, <4>1, LedgerReturn
      <4> QED
        BY <2>3, <2>4, <3>1, <4>2
    <3>3. CASE waits[a] = {} /\ ContinueRun(a)
      BY <2>3, <2>4, <2>10, <3>1, <3>3
    <3> QED
      BY <2>20, <3>2, <3>3 DEF EndTurn
  <2> QED
    BY <1>4, <2>3, <2>11, <2>12, <2>13, <2>14, <2>15, <2>16, <2>17, <2>18, <2>19, <2>20
       DEF LocalStep
<1>5. ASSUME NEW a \in Agents, NEW b \in Agents, Delegate(a, b)
      PROVE  AnsweredOnce' /\ Disjoint' /\ \A x \in Agents : AgentLedger(x)'
  <2>1. /\ pc[a] = "call" /\ todo[a] # <<>> /\ status[b] = "absent" /\ pc[b] = "idle" /\ a # b
        /\ log' = log /\ UNCHANGED <<todo, waits, waiting>>
        /\ status' = [status EXCEPT ![b] = "pending"]
        /\ pc' = [pc EXCEPT ![a] = "child", ![b] = "start"]
    BY <1>5 DEF Delegate, AtCall, TreeOK
  <2>2. AnsweredOnce' /\ \A x \in Agents : Issued(x)' = Issued(x) /\ Answered(x)' = Answered(x)
    BY <2>1, LogUnchanged
  <2>3. \A x \in Agents :
          /\ status'[x] = "waiting" <=> status[x] = "waiting"
          /\ x # a => pc'[x] = pc[x] \/ (pc[x] \notin Handling /\ pc'[x] \notin Handling)
    BY <1>t, <2>1 DEF Handling
  <2>4. \A x \in Agents : x # a => AgentLedger(x)'
    BY <1>l, <2>1, <2>2, <2>3, LedgerKept
  <2>5. AgentLedger(a)'
    <3>1. /\ Pending(a)' = Pending(a) /\ Open(a)' = Open(a)
          /\ WaitCalls(waits[a])' = WaitCalls(waits[a])
          /\ WaitCalls(waiting[a])' = WaitCalls(waiting[a])
      BY <2>1, <2>2 DEF Pending, Open, WaitCalls
    <3>2. pc'[a] \in Handling /\ todo'[a] # <<>>
      BY <1>t, <2>1 DEF Handling
    <3> QED
      BY <1>l, <2>1, <2>3, <3>1, <3>2 DEF AgentLedger
  <2> QED
    BY <1>i, <2>2, <2>4, <2>5
<1>6. ASSUME NEW a \in Agents, NEW b \in Agents, ChildReturns(a, b)
      PROVE  AnsweredOnce' /\ Disjoint' /\ \A x \in Agents : AgentLedger(x)'
  <2>1. /\ pc[a] = "child" /\ pc[b] = "returned" /\ a # b /\ status[a] = "running"
    BY <1>6 DEF ChildReturns, TreeOK
  <2>2. AgentLedger(a) /\ todo[a] # <<>> /\ waiting[a] = {}
    BY <1>l, <2>1 DEF AgentLedger, Handling
  <2>3. Head(todo[a]) \in Open(a) /\ Head(todo[a]) \in Calls
    <3>1. Head(todo[a]) \in Pending(a)
      <4>1. /\ Len(todo[a]) \in Nat \ {0} /\ DOMAIN todo[a] = 1..Len(todo[a])
        BY <1>t, <2>2, EmptySeq, LenProperties
      <4>2. Head(todo[a]) = todo[a][1]
        BY <4>1
      <4> QED
        BY <4>1, <4>2 DEF Pending
    <3> QED
      BY <2>2, <3>1 DEF AgentLedger, Open, Issued
  <2>4. ASSUME NEW x \in Agents, x # a, log'[x] = log[x] PROVE AgentLedger(x)'
    <3>1. /\ todo'[x] = todo[x] /\ waits'[x] = waits[x] /\ waiting'[x] = waiting[x]
          /\ status'[x] = status[x]
      BY <1>6, <1>t, <2>4 DEF ChildReturns
    <3>2. pc'[x] = pc[x] \/ (pc[x] \notin Handling /\ pc'[x] \notin Handling)
      BY <1>6, <1>t, <2>1, <2>4 DEF ChildReturns, Handling
    <3>3. Issued(x)' = Issued(x) /\ Answered(x)' = Answered(x)
      BY <2>4 DEF Issued, Answered
    <3> QED
      BY <1>l, <3>1, <3>2, <3>3, LedgerKept
  <2>5. log' = log => /\ AnsweredOnce' /\ Disjoint'
                      /\ Issued(a)' = Issued(a) /\ Answered(a)' = Answered(a)
    BY <1>i, LogUnchanged
  <2>6. CASE /\ log' = log
             /\ status' = [status EXCEPT ![a] = "cancelled"]
             /\ waiting' = [waiting EXCEPT ![a] = {}]
             /\ pc' = [pc EXCEPT ![a] = "returned", ![b] = "idle"]
             /\ todo' = [todo EXCEPT ![a] = <<>>]
             /\ waits' = [waits EXCEPT ![a] = {}]
    <3>1. /\ todo'[a] = <<>> /\ waits'[a] = {} /\ waiting'[a] = {}
          /\ status'[a] = "cancelled" /\ pc'[a] = "returned"
      BY <1>t, <2>1, <2>6
    <3>2. Pending(a)' = {} /\ WaitCalls(waits[a])' = {} /\ WaitCalls(waiting[a])' = {}
      BY <3>1 DEF Pending, WaitCalls
    <3>3. AgentLedger(a)'
      BY <3>1, <3>2 DEF AgentLedger, Handling
    <3> QED
      BY <2>4, <2>5, <2>6, <3>3
  <2>7. CASE /\ status' = status /\ waiting' = waiting
             /\ pc' = [pc EXCEPT ![a] = "call", ![b] = "idle"]
             /\ todo' = [todo EXCEPT ![a] = Tail(@)]
             /\ \/ /\ waits' = [waits EXCEPT ![a] =
                                  @ \union {[call |-> Head(todo[a]), type |-> "agent"]}]
                   /\ log' = log
                \/ waits' = waits /\ StoreToolOutput(a, Head(todo[a]))
    <3>1. pc'[a] = "call"
      BY <1>t, <2>1, <2>7
    <3>2. CASE /\ waits' = [waits EXCEPT ![a] =
                               @ \union {[call |-> Head(todo[a]), type |-> "agent"]}]
               /\ log' = log
      <4>1. waits'[a] = waits[a] \union {[call |-> Head(todo[a]), type |-> "agent"]}
        BY <1>t, <3>2
      <4>2. AgentLedger(a)'
        BY <2>2, <2>5, <2>7, <3>1, <3>2, <4>1, LedgerWaits
      <4> QED
        BY <2>4, <2>5, <3>2, <4>2
    <3>3. CASE waits' = waits /\ StoreToolOutput(a, Head(todo[a]))
      <4>1. /\ AnsweredOnce' /\ \A x \in Agents : Issued(x)' = Issued(x)
            /\ Answered(a)' = Answered(a) \union {Head(todo[a])}
        BY <2>3, <3>3, OutputLog, OutputOnce
      <4>2. \A x \in Agents : x # a => log'[x] = log[x]
        BY <3>3 DEF StoreToolOutput, TypeOK
      <4>3. AgentLedger(a)'
        BY <2>1, <2>2, <2>7, <3>1, <3>3, <4>1, LedgerAnswered
      <4> QED
        BY <1>i, <2>4, <4>1, <4>2, <4>3
    <3> QED
      BY <2>7, <3>2, <3>3
  <2> QED
    BY <1>6, <2>6, <2>7 DEF ChildReturns
<1>7. ASSUME NEW b \in Agents, RequestEnds(b)
      PROVE  AnsweredOnce' /\ Disjoint' /\ \A x \in Agents : AgentLedger(x)'
  BY <1>0, <1>7, <1>t DEF RequestEnds, Handling
<1>8. ASSUME NEW b \in Agents, PropagateChildResult(b)
      PROVE  AnsweredOnce' /\ Disjoint' /\ \A x \in Agents : AgentLedger(x)'
  <2>0. PICK p \in Agents, c \in Calls, rest \in SUBSET waiting[parent[b]] :
          p = parent[b] /\ c = source[b] /\ rest = {e \in waiting[p] : e.call # c}
    <3>1. parent[b] \in Agents /\ source[b] \in Calls
      BY <1>8, <1>t DEF PropagateChildResult, Propagates, WaitCalls, WaitEntries
    <3> QED
      BY <3>1
  <2>1. /\ current = b /\ pc[b] = "returned" /\ BottomOfStack(b)
        /\ c \in WaitCalls(waiting[p])
        /\ StoreToolOutput(p, c)
        /\ waiting' = [waiting EXCEPT ![p] = rest] /\ todo' = todo /\ waits' = waits
        /\ \/ /\ rest # {} /\ status' = [status EXCEPT ![p] = "waiting"]
              /\ pc' = [pc EXCEPT ![b] = "idle"]
           \/ /\ rest = {} /\ status' = [status EXCEPT ![p] = "pending"]
              /\ pc' = [pc EXCEPT ![b] = "idle", ![p] = "start"]
    BY <1>8, <2>0 DEF PropagateChildResult, Propagates
  <2>2. p \in Agents /\ AgentLedger(p)
    BY <1>l, <2>0
  <2>3. c \in Open(p) /\ c \in Calls /\ status[p] = "waiting" /\ p # b /\ pc[p] = "idle"
    <3>1. c \in Open(p) /\ status[p] = "waiting"
      BY <2>1, <2>2 DEF AgentLedger, WaitCalls
    <3>2. depth[b] = depth[p] + 1 /\ depth[p] \in Nat
      BY <2>0 DEF TreeOK, TypeOK
    <3>3. p # b
      BY <3>2
    <3> QED
      BY <2>1, <2>2, <3>1, <3>3, OnlyTop DEF Open, Issued
  <2>4. /\ \A x \in Agents : Issued(x)' = Issued(x)
        /\ \A x \in Agents : Answered(x)' = IF x = p THEN Answered(x) \union {c} ELSE Answered(x)
    BY <2>1, <2>2, <2>3, OutputLog
  <2>5. AnsweredOnce'
    BY <2>1, <2>2, <2>3, OutputOnce
  <2>6. ASSUME NEW x \in Agents, x # p PROVE AgentLedger(x)'
    <3>1. /\ waiting'[x] = waiting[x] /\ todo'[x] = todo[x] /\ waits'[x] = waits[x]
          /\ status'[x] = status[x]
          /\ pc'[x] = pc[x] \/ (pc[x] \notin Handling /\ pc'[x] \notin Handling)
      BY <1>t, <2>1, <2>2, <2>6 DEF Handling
    <3>2. Issued(x)' = Issued(x) /\ Answered(x)' = Answered(x)
      BY <2>4, <2>6
    <3> QED
      BY <1>l, <3>1, <3>2, LedgerKept
  <2>7. AgentLedger(p)'
    <3>1. /\ waiting'[p] = rest /\ todo'[p] = <<>> /\ waits'[p] = {}
          /\ pc'[p] \notin Handling
          /\ rest # {} <=> status'[p] = "waiting"
      BY <1>t, <2>1, <2>2, <2>3 DEF AgentLedger, Handling
    <3>2. Pending(p)' = {} /\ WaitCalls(waits[p])' = {}
      BY <3>1 DEF Pending, WaitCalls
    <3>3. Open(p)' = Open(p) \ {c}
      BY <2>2, <2>4 DEF Open
    <3>4. /\ \A f, g \in waiting[p] : f.call = g.call => f = g
          /\ WaitCalls(waiting[p]) \subseteq Open(p)
      BY <2>2 DEF AgentLedger
    <3>5. WaitCalls(waiting[p])' \subseteq Open(p)'
      BY <2>0, <3>1, <3>3, <3>4 DEF WaitCalls
    <3>6. \A f, g \in waiting'[p] : f.call = g.call => f = g
      BY <2>0, <3>1, <3>4
    <3>7. WaitCalls(waits[p])' \subseteq Open(p)' \ Pending(p)' /\ Pending(p)' \subseteq Open(p)'
      BY <3>2
    <3> QED
      BY <3>1, <3>5, <3>6, <3>7 DEF AgentLedger, Handling
  <2> QED
    BY <1>i, <2>4, <2>5, <2>6, <2>7
<1> QED
  BY <1>1, <1>2, <1>3, <1>4, <1>5, <1>6, <1>7, <1>8 DEF Next, Step, LocalStep

-------------------------------------------------------------------------------
(* The theorems about the ledger, the stack and the tree.                  *)

Core == TypeOK /\ StackOK /\ TreeOK /\ AnsweredOnce /\ CallsOK /\ WaitsAreOpen

LEMMA CoreInit == Init => Core
<1> SUFFICES ASSUME Init PROVE Core
  OBVIOUS
<1>1. TypeOK
  BY TypeInit
<1>2. /\ \A a \in Agents : /\ pc[a] = "idle" /\ status[a] = "absent" /\ parent[a] = None
                          /\ depth[a] = 0 /\ waiting[a] = {} /\ waits[a] = {}
                          /\ log[a] = <<>> /\ todo[a] = <<>>
      /\ current = None
  BY DEF Init
<1>3. StackOK
  BY <1>2 DEF StackOK
<1>4. TreeOK
  BY <1>2 DEF TreeOK
<1>5. \A a \in Agents : DOMAIN log[a] = {} /\ DOMAIN todo[a] = {}
  BY <1>2
<1>6. AnsweredOnce
  BY <1>5 DEF AnsweredOnce
<1>7. \A a \in Agents : Issued(a) = {} /\ Pending(a) = {} /\ Open(a) = {}
  BY <1>5 DEF Issued, Pending, Open
<1>8. \A a \in Agents : WaitCalls(waits[a]) = {} /\ WaitCalls(waiting[a]) = {}
  BY <1>2 DEF WaitCalls
<1>9. CallsOK
  BY <1>2, <1>5, <1>7, <1>8 DEF CallsOK, Handling
<1>10. WaitsAreOpen
  BY <1>2, <1>8 DEF WaitsAreOpen
<1> QED
  BY <1>1, <1>3, <1>4, <1>6, <1>9, <1>10 DEF Core

LEMMA CoreStep == Core /\ [Next]_vars => Core'
BY TypeStep, StackStep, LedgerStep DEF Core

LEMMA CoreAlways == Spec => []Core
BY CoreInit, CoreStep, PTL DEF Spec

(* Every variable of the runner keeps its type, for every set of agents    *)
(* and calls and all limits.                                               *)
THEOREM TypeCorrect == Spec => []TypeOK
<1>1. Core => TypeOK
  BY DEF Core
<1> QED
  BY <1>1, CoreAlways, PTL

(* A call never gets a second output, nor one before it is issued, whether *)
(* a tool, a child, a delivery or a propagated result answers it.          *)
THEOREM AnswersAreUnique == Spec => []AnsweredOnce
<1>1. Core => AnsweredOnce
  BY DEF Core
<1> QED
  BY <1>1, CoreAlways, PTL

(* An agent is persisted as waiting exactly when it has waits, and every   *)
(* wait is for a call of its own that has no output.                       *)
THEOREM WaitsStayOpen == Spec => []WaitsAreOpen
<1>1. Core => WaitsAreOpen
  BY DEF Core
<1> QED
  BY <1>1, CoreAlways, PTL

(* When no request is running, no agent is left pending or running: the    *)
(* stack of nested run_agent calls was unwound through every parent.       *)
THEOREM NoOrphans == Spec => []NoneLeftRunning
<1>1. Core => NoneLeftRunning
  <2> SUFFICES ASSUME Core, current = None, NEW a \in Agents
               PROVE  status[a] \notin {"pending", "running"}
    BY DEF NoneLeftRunning
  <2>1. pc[a] = "idle"
    BY AllIdle DEF Core
  <2> QED
    BY <2>1 DEF Core, TreeOK
<1> QED
  BY <1>1, CoreAlways, PTL

(* A child that completed, failed or was cancelled keeps its status. *)
LEMMA EndedStays ==
  ASSUME Core, [Next]_vars, NEW a \in Agents \ {Root}, status[a] \in Terminal
  PROVE  status'[a] = status[a]
<1> USE DEF agentVars, runVars
<1>t. TypeOK /\ TreeOK /\ StackOK /\ status \in [Agents -> Statuses]
  BY DEF Core, TypeOK
<1>1. /\ pc[a] \in {"idle", "returned"} /\ status[a] \notin {"absent", "waiting"}
      /\ waiting[a] = {}
  <2>1. status[a] \in {"completed", "failed", "cancelled"}
    BY DEF Terminal
  <2>2. pc[a] \in {"idle", "returned"}
    BY <1>t, <2>1 DEF TreeOK
  <2> QED
    BY <2>1, <2>2 DEF Core, WaitsAreOpen
<1>2. CASE StartChat \/ Enqueue \/ Cancel
  BY <1>t, <1>2 DEF StartChat, Enqueue, Cancel
<1>3. ASSUME NEW x \in Agents, NEW e \in waiting[x], Deliver(x, e) PROVE status'[a] = status[a]
  BY <1>1, <1>3, <1>t DEF Deliver
<1>4. ASSUME NEW x \in Agents, LocalStep(x) PROVE status'[a] = status[a]
  BY <1>1, <1>4, <1>t, LocalStepMovesTop DEF TopMoves
<1>5. ASSUME NEW x \in Agents, NEW y \in Agents, Delegate(x, y) \/ ChildReturns(x, y)
      PROVE  status'[a] = status[a]
  BY <1>1, <1>5, <1>t DEF Delegate, ChildReturns
<1>6. ASSUME NEW x \in Agents, RequestEnds(x) PROVE status'[a] = status[a]
  BY <1>6 DEF RequestEnds
<1>7. ASSUME NEW x \in Agents, PropagateChildResult(x) PROVE status'[a] = status[a]
  <2>1. PICK p \in Agents \union {None} : p = parent[x]
    BY <1>t DEF TypeOK
  <2>2. waiting[p] # {} /\ p # None
    BY <1>7, <2>1 DEF PropagateChildResult, Propagates, WaitCalls
  <2>3. p # a
    BY <1>1, <2>2
  <2>4. status' = [status EXCEPT ![p] = "waiting"] \/ status' = [status EXCEPT ![p] = "pending"]
    BY <1>7, <2>1 DEF PropagateChildResult
  <2> QED
    BY <1>t, <2>3, <2>4
<1>8. CASE UNCHANGED vars
  BY <1>8 DEF vars
<1> QED
  BY <1>2, <1>3, <1>4, <1>5, <1>6, <1>7, <1>8 DEF Next, Step, LocalStep

(* A child that completed, failed or was cancelled is never resumed: no    *)
(* delivery, propagation or delegation rewrites the status of its row.     *)
THEOREM ChildrenEndOnce == Spec => ChildrenStayEnded
<1>1. Core /\ [Next]_vars =>
        \A a \in Agents \ {Root} : status[a] \in Terminal => status'[a] = status[a]
  BY EndedStays
<1> QED
  BY <1>1, CoreAlways, PTL DEF Spec, ChildrenStayEnded

-------------------------------------------------------------------------------
(* Cancellation.                                                           *)

(* Only a run on the stack can carry the signal, and a delivery never does. *)
SignalOK == (delivering => ~signal /\ current # None) /\ (signal => current # None)

LEMMA SignalStep == Core /\ SignalOK /\ [Next]_vars => SignalOK'
<1> SUFFICES ASSUME Core, SignalOK, [Next]_vars PROVE SignalOK'
  OBVIOUS
<1> USE DEF agentVars, runVars, SignalOK
<1>t. TypeOK /\ TreeOK /\ None \notin Agents
  BY DEF Core
<1>1. CASE StartChat \/ Enqueue \/ Cancel
  BY <1>1, <1>t DEF StartChat, Enqueue, Cancel, Enter
<1>2. ASSUME NEW a \in Agents, NEW e \in waiting[a], Deliver(a, e) PROVE SignalOK'
  BY <1>2, <1>t DEF Deliver, Enter
<1>3. ASSUME NEW a \in Agents, LocalStep(a) PROVE SignalOK'
  BY <1>3, <1>t, LocalStepMovesTop DEF TopMoves
<1>4. ASSUME NEW a \in Agents, NEW b \in Agents, Delegate(a, b) \/ ChildReturns(a, b)
      PROVE  SignalOK'
  BY <1>4, <1>t DEF Delegate, ChildReturns, AtCall
<1>5. ASSUME NEW a \in Agents, RequestEnds(a) PROVE SignalOK'
  BY <1>5 DEF RequestEnds
<1>6. ASSUME NEW a \in Agents, PropagateChildResult(a) PROVE SignalOK'
  <2>1. delivering /\ parent[a] # None /\ ~signal
    BY <1>6 DEF PropagateChildResult, Propagates
  <2>2. PICK p \in Agents : p = parent[a]
    BY <1>t, <2>1 DEF TypeOK
  <2>3. /\ signal' = signal
        /\ (current' = None /\ delivering' = FALSE) \/ current' = p
    BY <1>6, <2>2 DEF PropagateChildResult
  <2> QED
    BY <1>t, <2>1, <2>3
<1>7. CASE UNCHANGED vars
  BY <1>7 DEF vars
<1> QED
  BY <1>1, <1>2, <1>3, <1>4, <1>5, <1>6, <1>7 DEF Next, Step, LocalStep

(* What a step under a set signal may do to the activations, the rows and  *)
(* the calls.                                                              *)
NoNewWork ==
  /\ \A a \in Agents : pc'[a] \in Awaiting => pc[a] = pc'[a]
  /\ \A a \in Agents : Issued(a)' = Issued(a)
  /\ \A a \in Agents : status[a] = "absent" => status'[a] = "absent"

(* A step of the top of the stack that reaches no await starts no work     *)
(* when it writes one output at most.                                      *)
LEMMA QuietMove ==
  ASSUME TypeOK, TreeOK, NEW a \in Agents, TopMoves(a), pc'[a] \notin Awaiting,
         log' = log \/ \E c \in Calls : StoreToolOutput(a, c)
  PROVE  NoNewWork
<1>1. \A x \in Agents : Issued(x)' = Issued(x)
  BY LogUnchanged, OutputLog
<1>2. status[a] # "absent"
  BY DEF TopMoves, TreeOK
<1>3. \A x \in Agents : x # a => pc'[x] = pc[x] /\ status'[x] = status[x]
  BY DEF TopMoves, TypeOK
<1> QED
  BY <1>1, <1>2, <1>3 DEF NoNewWork

(* After the cancellation signal is set and as long as it stays set, the   *)
(* run and every child on its stack begin no provider call, no tool and no *)
(* child agent, and issue no further call.                                 *)
THEOREM CancellationStopsWork == Spec => CancelStopsWork
<1>1. Core /\ SignalOK /\ [Next]_vars /\ signal /\ signal' => NoNewWork
  <2> SUFFICES ASSUME Core, SignalOK, [Next]_vars, signal, signal' PROVE NoNewWork
    OBVIOUS
  <2> USE DEF agentVars, runVars
  <2>t. /\ TypeOK /\ TreeOK /\ CallsOK /\ None \notin Agents
        /\ pc \in [Agents -> PCs] /\ status \in [Agents -> Statuses]
        /\ current # None /\ ~delivering
    BY DEF Core, TypeOK, SignalOK
  <2>1. CASE StartChat \/ Enqueue \/ Cancel
    BY <2>t, <2>1 DEF StartChat, Enqueue, Cancel
  <2>2. ASSUME NEW a \in Agents, NEW e \in waiting[a], Deliver(a, e) PROVE NoNewWork
    BY <2>t, <2>2 DEF Deliver
  <2>3. ASSUME NEW a \in Agents, LocalStep(a) PROVE NoNewWork
    <3>1. TopMoves(a)
      BY <2>t, <2>3, LocalStepMovesTop
    <3>2. CASE StartRun(a)
      BY <2>t, <3>1, <3>2, QuietMove DEF StartRun, Awaiting
    <3>3. CASE StopBeforeTurn(a) \/ GenerateFails(a) \/ CancelAtCall(a)
      <4>1. pc'[a] = "returned" /\ log' = log
        BY <2>t, <3>3 DEF StopBeforeTurn, GenerateFails, CancelAtCall, CancelRun, FailRun, Return
      <4> QED
        BY <2>t, <3>1, <4>1, QuietMove DEF Awaiting
    <3>4. CASE \/ ExecuteTurn(a) \/ FinalAnswer(a) \/ RejectCall(a) \/ AwaitTool(a)
               \/ AskHuman(a) \/ \E cs \in Batches : StoreCalls(a, cs)
      BY <3>4 DEF ExecuteTurn, FinalAnswer, RejectCall, AwaitTool, AskHuman, StoreCalls, AtCall
    <3>5. CASE SyncToolReturns(a) \/ McpToolReturns(a)
      <4>1. Head(todo[a]) \in Calls
        BY <2>t, <3>5, TodoType DEF SyncToolReturns, McpToolReturns, CallsOK, Handling
      <4>2. pc'[a] \in {"returned", "call"}
        BY <2>t, <3>5 DEF SyncToolReturns, McpToolReturns, CancelRun, Return, CallHandled
      <4>3. log' = log \/ StoreToolOutput(a, Head(todo[a]))
        BY <3>5 DEF SyncToolReturns, McpToolReturns
      <4> QED
        BY <2>t, <3>1, <4>1, <4>2, <4>3, QuietMove DEF Awaiting
    <3>6. CASE EndTurn(a)
      <4>1. pc'[a] \in {"returned", "turn"} /\ log' = log
        BY <2>t, <3>6 DEF EndTurn, Return, ContinueRun
      <4> QED
        BY <2>t, <3>1, <4>1, QuietMove DEF Awaiting
    <3> QED
      BY <2>3, <3>2, <3>3, <3>4, <3>5, <3>6 DEF LocalStep
  <2>4. ASSUME NEW a \in Agents, NEW b \in Agents, Delegate(a, b) PROVE NoNewWork
    BY <2>4 DEF Delegate, AtCall
  <2>5. ASSUME NEW a \in Agents, NEW b \in Agents, ChildReturns(a, b) PROVE NoNewWork
    <3>1. /\ log' = log
          /\ pc' = [pc EXCEPT ![a] = "returned", ![b] = "idle"]
          /\ status' = [status EXCEPT ![a] = "cancelled"]
          /\ pc[a] = "child"
      BY <2>5 DEF ChildReturns
    <3>2. status[a] # "absent"
      BY <2>t, <3>1 DEF TreeOK
    <3>3. \A x \in Agents : Issued(x)' = Issued(x)
      BY <3>1, LogUnchanged
    <3>4. \A x \in Agents : /\ pc'[x] \in {pc[x], "returned", "idle"}
                            /\ x # a => status'[x] = status[x]
      BY <2>t, <3>1
    <3> QED
      BY <3>2, <3>3, <3>4 DEF NoNewWork, Awaiting
  <2>6. ASSUME NEW a \in Agents, RequestEnds(a) \/ PropagateChildResult(a) PROVE NoNewWork
    BY <2>t, <2>6 DEF RequestEnds, PropagateChildResult, Propagates
  <2>7. CASE UNCHANGED vars
    BY <2>7, LogUnchanged DEF vars, NoNewWork
  <2> QED
    BY <2>1, <2>2, <2>3, <2>4, <2>5, <2>6, <2>7 DEF Next, Step, LocalStep
<1>2. Init => SignalOK
  BY DEF Init, SignalOK
<1>3. Spec => [][signal /\ signal' => NoNewWork]_vars
  BY <1>1, <1>2, SignalStep, CoreAlways, PTL DEF Spec
<1> QED
  BY <1>3 DEF CancelStopsWork, NoNewWork

-------------------------------------------------------------------------------
(* The delegate calls of the tree.                                         *)

(* A local step forgets no call, and what is pending after it was pending  *)
(* before or is a fresh call.                                              *)
LEMMA LocalCalls ==
  ASSUME TypeOK, TreeOK, CallsOK, NEW a \in Agents, LocalStep(a)
  PROVE  /\ \A x \in Agents : Issued(x) \subseteq Issued(x)'
         /\ Pending(a)' \subseteq Pending(a) \union FreshCalls
<1> USE DEF agentVars
<1>t. todo \in [Agents -> Seq(Calls)]
  BY DEF TypeOK
<1>1. todo'[a] = <<>> => Pending(a)' = {}
  BY DEF Pending
<1>2. todo' = todo => Pending(a)' = Pending(a)
  BY DEF Pending
<1>3. todo[a] # <<>> /\ todo' = [todo EXCEPT ![a] = Tail(@)]
        => Head(todo[a]) \in Calls /\ Pending(a)' \subseteq Pending(a)
  BY HandledTodo, TodoType
<1>4. log' = log => \A x \in Agents : Issued(x) \subseteq Issued(x)'
  BY LogUnchanged
<1>5. ASSUME NEW c \in Calls, StoreToolOutput(a, c)
      PROVE  \A x \in Agents : Issued(x) \subseteq Issued(x)'
  BY <1>5, OutputLog
<1>6. CASE StartRun(a) \/ (ExecuteTurn(a) /\ Goto(a, "generate")) \/ AwaitTool(a)
  <2>1. todo' = todo /\ log' = log
    BY <1>6 DEF StartRun, ExecuteTurn, AwaitTool, Goto
  <2> QED
    BY <1>2, <1>4, <2>1
<1>7. CASE \/ StopBeforeTurn(a) \/ GenerateFails(a) \/ CancelAtCall(a)
           \/ (ExecuteTurn(a) /\ FailRun(a))
  <2>1. todo'[a] = <<>> /\ log' = log
    BY <1>t, <1>7 DEF StopBeforeTurn, GenerateFails, CancelAtCall, ExecuteTurn, CancelRun, FailRun, Return
  <2> QED
    BY <1>1, <1>4, <2>1
<1>8. CASE FinalAnswer(a) \/ EndTurn(a)
  <2>1. (todo'[a] = <<>> \/ todo' = todo) /\ log' = log
    BY <1>t, <1>8 DEF FinalAnswer, EndTurn, ContinueRun, Return
  <2> QED
    BY <1>1, <1>2, <1>4, <2>1
<1>9. ASSUME NEW cs \in Batches, StoreCalls(a, cs)
      PROVE  /\ \A x \in Agents : Issued(x) \subseteq Issued(x)'
             /\ Pending(a)' \subseteq FreshCalls
  <2>1. todo'[a] = cs
    BY <1>t, <1>9 DEF StoreCalls
  <2>2. Pending(a)' \subseteq FreshCalls
    BY <2>1, BatchType DEF Pending
  <2> QED
    BY <1>9, <2>2, CallsLog
<1>10. CASE RejectCall(a) \/ AskHuman(a)
  <2>1. todo[a] # <<>> /\ todo' = [todo EXCEPT ![a] = Tail(@)]
    BY <1>10 DEF RejectCall, AskHuman, AtCall, CallHandled
  <2>2. log' = log \/ StoreToolOutput(a, Head(todo[a]))
    BY <1>10 DEF RejectCall, AskHuman
  <2> QED
    BY <1>3, <1>4, <1>5, <2>1, <2>2
<1>11. CASE SyncToolReturns(a) \/ McpToolReturns(a)
  <2>1. todo[a] # <<>>
    BY <1>11 DEF SyncToolReturns, McpToolReturns, CallsOK, Handling
  <2>2. todo'[a] = <<>> \/ todo' = [todo EXCEPT ![a] = Tail(@)]
    BY <1>t, <1>11 DEF SyncToolReturns, McpToolReturns, CancelRun, Return, CallHandled
  <2>3. log' = log \/ StoreToolOutput(a, Head(todo[a]))
    BY <1>11 DEF SyncToolReturns, McpToolReturns
  <2>4. Head(todo[a]) \in Calls
    BY <2>1, TodoType
  <2> QED
    BY <1>1, <1>3, <1>4, <1>5, <2>1, <2>2, <2>3, <2>4
<1>12. ExecuteTurn(a) => Goto(a, "generate") \/ FailRun(a)
  BY DEF ExecuteTurn
<1> QED
  BY <1>6, <1>7, <1>8, <1>9, <1>10, <1>11, <1>12 DEF LocalStep

(* A step that creates no child keeps SourcesOK when delegate calls in     *)
(* progress stay as they are, and no other pending call has a child.       *)
LEMMA SourcesKept ==
  ASSUME SourcesOK, parent' = parent, source' = source,
         \A x \in Agents : Issued(x) \subseteq Issued(x)',
         \A x \in Agents :
           \/ todo'[x] = todo[x] /\ (pc'[x] = "child" <=> pc[x] = "child")
           \/ pc'[x] # "child" /\ \A c \in Agents : source[c] \notin Pending(x)',
         \A x, y \in Agents : pc'[x] = "child" /\ pc'[y] # "idle" => pc[y] # "idle",
         TypeOK
  PROVE  SourcesOK'
<1>1. \A b \in Agents : (parent[b] # None => source[b] \in Issued(parent[b]))'
  <2> SUFFICES ASSUME NEW b \in Agents, parent'[b] # None
               PROVE  (source[b] \in Issued(parent[b]))'
    OBVIOUS
  <2>1. PICK p \in Agents : p = parent[b]
    BY DEF TypeOK
  <2>2. source[b] \in Issued(p) /\ Issued(p) \subseteq Issued(p)'
    BY <2>1 DEF SourcesOK
  <2>3. source[b] \in Issued(p)'
    BY <2>2
  <2> QED
    BY <2>1, <2>3 DEF Issued
<1>2. ASSUME NEW x \in Agents, NEW c \in Agents, source[c] \in Pending(x)'
      PROVE  pc'[x] = "child" /\ source[c] = Head(todo'[x])
  <2>1. todo'[x] = todo[x] /\ (pc'[x] = "child" <=> pc[x] = "child")
    BY <1>2
  <2>2. source[c] \in Pending(x)
    BY <1>2, <2>1 DEF Pending
  <2> QED
    BY <2>1, <2>2 DEF SourcesOK
<1>3. \A x, y \in Agents : pc'[x] = "child" /\ pc'[y] # "idle" /\ parent[y] = x
                             => source[y] = Head(todo'[x])
  BY DEF SourcesOK
<1>4. \A b \in Agents : source[b] = None <=> parent[b] = None
  BY DEF SourcesOK
<1>5. \A b, c \in Agents : source[b] # None /\ source[b] = source[c] => b = c
  BY DEF SourcesOK
<1> QED
  BY <1>1, <1>2, <1>3, <1>4, <1>5 DEF SourcesOK

(* The source of a child is an issued call. *)
LEMMA SourceIssued ==
  ASSUME TypeOK, SourcesOK, NEW c \in Agents, source[c] \in Calls
  PROVE  source[c] \notin FreshCalls
<1>1. PICK p \in Agents : p = parent[c] /\ source[c] \in Issued(p)
  BY DEF TypeOK, SourcesOK
<1> QED
  BY <1>1 DEF FreshCalls

LEMMA SourcesStep ==
  ASSUME Core, SourcesOK, [Next]_vars
  PROVE  SourcesOK'
<1> USE DEF agentVars, runVars
<1>t. /\ TypeOK /\ StackOK /\ TreeOK /\ CallsOK /\ None \notin Agents \union Calls
      /\ pc \in [Agents -> PCs] /\ todo \in [Agents -> Seq(Calls)]
      /\ source \in [Agents -> Calls \union {None}]
      /\ parent \in [Agents -> Agents \union {None}]
      /\ waiting \in [Agents -> SUBSET WaitEntries]
  BY DEF Core, TypeOK
<1>p. \A x, c \in Agents : pc[x] # "child" => source[c] \notin Pending(x)
  BY DEF SourcesOK
<1>i. log' = log => \A x \in Agents : Issued(x) \subseteq Issued(x)'
  BY LogUnchanged
<1>o. ASSUME NEW a \in Agents, NEW c \in Calls, StoreToolOutput(a, c)
      PROVE  \A x \in Agents : Issued(x) \subseteq Issued(x)'
  BY <1>o, <1>t, OutputLog
<1>1. CASE Enqueue \/ Cancel \/ UNCHANGED vars
  <2>1. log' = log /\ parent' = parent /\ source' = source /\ pc' = pc /\ todo' = todo
    BY <1>1 DEF Enqueue, Cancel, vars
  <2> QED
    BY <1>i, <1>t, <2>1, SourcesKept
<1>2. CASE StartChat
  <2>1. /\ log' = log /\ parent' = parent /\ source' = source /\ todo' = todo
        /\ pc' = [pc EXCEPT ![Root] = "start"] /\ \A x \in Agents : pc[x] = "idle"
    BY <1>t, <1>2, AllIdle DEF StartChat, Enter
  <2>2. \A x \in Agents : pc[x] # "child" /\ pc'[x] # "child"
    BY <1>t, <2>1
  <2> QED
    BY <1>i, <1>t, <2>1, <2>2, SourcesKept
<1>3. ASSUME NEW a \in Agents, NEW e \in waiting[a], Deliver(a, e) PROVE SourcesOK'
  <2>1. /\ StoreToolOutput(a, e.call) /\ parent' = parent /\ source' = source /\ todo' = todo
        /\ pc' = pc \/ pc' = [pc EXCEPT ![a] = "start"]
        /\ \A x \in Agents : pc[x] = "idle"
    BY <1>t, <1>3, AllIdle DEF Deliver, Enter
  <2>2. e.call \in Calls
    BY <1>t DEF WaitEntries
  <2>3. \A x \in Agents : pc[x] # "child" /\ pc'[x] # "child"
    BY <1>t, <2>1
  <2> QED
    BY <1>o, <1>t, <2>1, <2>2, <2>3, SourcesKept
<1>4. ASSUME NEW a \in Agents, LocalStep(a) PROVE SourcesOK'
  <2>1. /\ parent' = parent /\ source' = source
        /\ pc[a] \notin {"idle", "child"} /\ pc'[a] \notin {"idle", "child"}
    BY <1>t, <1>4, LocalStepMovesTop DEF TopMoves
  <2>2. \A x \in Agents \ {a} : todo'[x] = todo[x] /\ pc'[x] = pc[x]
    BY <1>t, <1>4, LocalStepIsLocal
  <2>3. /\ \A x \in Agents : Issued(x) \subseteq Issued(x)'
        /\ Pending(a)' \subseteq Pending(a) \union FreshCalls
    BY <1>t, <1>4, LocalCalls
  <2>4. ASSUME NEW c \in Agents, source[c] \in Pending(a)' PROVE FALSE
    <3>1. source[c] \in FreshCalls
      BY <1>p, <2>1, <2>3, <2>4
    <3> QED
      BY <1>t, <3>1, SourceIssued DEF FreshCalls
  <2> QED
    BY <1>t, <2>1, <2>2, <2>3, <2>4, SourcesKept
<1>5. ASSUME NEW a \in Agents, NEW b \in Agents, Delegate(a, b) PROVE SourcesOK'
  <2> DEFINE h == Head(todo[a])
  <2>1. /\ current = a /\ pc[a] = "call" /\ todo[a] # <<>>
        /\ status[b] = "absent" /\ pc[b] = "idle" /\ a # b
        /\ log' = log /\ todo' = todo
        /\ parent' = [parent EXCEPT ![b] = a]
        /\ source' = [source EXCEPT ![b] = h]
        /\ pc' = [pc EXCEPT ![a] = "child", ![b] = "start"]
    BY <1>t, <1>5 DEF Delegate, AtCall, TreeOK
  <2>2. h \in Pending(a) /\ h \in Calls
    <3>1. todo[a] \in Seq(Calls) /\ Len(todo[a]) \in Nat \ {0} /\ DOMAIN todo[a] = 1..Len(todo[a])
      BY <1>t, <2>1, EmptySeq, LenProperties
    <3>2. h = todo[a][1] /\ todo[a][1] \in Calls
      BY <3>1
    <3> QED
      BY <3>1, <3>2 DEF Pending
  <2>3. \A x \in Agents : Issued(x)' = Issued(x) /\ Pending(x)' = Pending(x)
    BY <2>1, LogUnchanged DEF Pending
  <2>4. \A x \in Agents : Pending(x) \subseteq Issued(x)
    BY <1>t DEF CallsOK, Open
  <2>5. \A x \in Agents : h \in Pending(x) => x = a
    BY <1>t, <2>2, <2>4 DEF CallsOK
  <2>6. \A c \in Agents : source[c] # h
    BY <1>p, <2>1, <2>2
  <2>7. \A x \in Agents \ {b} : source'[x] = source[x] /\ parent'[x] = parent[x]
    BY <1>t, <2>1
  <2>8. source'[b] = h /\ parent'[b] = a /\ pc'[a] = "child" /\ pc'[b] = "start"
    BY <1>t, <2>1
  <2>9. \A x \in Agents \ {a, b} : pc'[x] = pc[x]
    BY <1>t, <2>1
  <2> HIDE DEF h
  <2>10. ASSUME NEW x \in Agents PROVE source'[x] = None <=> parent'[x] = None
    <3>1. CASE x = b
      BY <2>2, <2>8, <3>1
    <3>2. CASE x # b
      <4>1. source[x] = None <=> parent[x] = None
        BY <1>t DEF SourcesOK
      <4> QED
        BY <2>7, <3>2, <4>1
    <3> QED
      BY <3>1, <3>2
  <2>11. ASSUME NEW x \in Agents, parent'[x] # None PROVE (source[x] \in Issued(parent[x]))'
    <3>1. CASE x = b
      <4>1. h \in Issued(a)'
        BY <2>2, <2>3, <2>4
      <4> QED
        BY <2>8, <3>1, <4>1 DEF Issued
    <3>2. CASE x # b
      <4>1. PICK p \in Agents : p = parent[x] /\ source[x] \in Issued(p)
        BY <1>t, <2>7, <2>11, <3>2 DEF SourcesOK
      <4>2. source[x] \in Issued(p)' /\ p = parent'[x] /\ source'[x] = source[x]
        BY <2>3, <2>7, <3>2, <4>1
      <4> QED
        BY <4>2 DEF Issued
    <3> QED
      BY <3>1, <3>2
  <2>12. \A x, y \in Agents : source'[x] # None /\ source'[x] = source'[y] => x = y
    BY <2>6, <2>7, <2>8 DEF SourcesOK
  <2>13. ASSUME NEW x \in Agents, NEW c \in Agents, source'[c] \in Pending(x)'
         PROVE  pc'[x] = "child" /\ source'[c] = Head(todo'[x])
    <3>1. CASE c = b
      BY <2>1, <2>3, <2>5, <2>8, <2>13, <3>1 DEF h
    <3>2. CASE c # b
      <4>1. source[c] \in Pending(x) /\ source'[c] = source[c]
        BY <2>3, <2>7, <2>13, <3>2
      <4>2. pc[x] = "child" /\ source[c] = Head(todo[x])
        BY <4>1 DEF SourcesOK
      <4> QED
        BY <2>1, <2>9, <4>1, <4>2
    <3> QED
      BY <3>1, <3>2
  <2>14. ASSUME NEW x \in Agents, NEW y \in Agents,
                pc'[x] = "child", pc'[y] # "idle", parent'[y] = x
         PROVE  source'[y] = Head(todo'[x])
    <3>1. CASE y = b
      BY <2>1, <2>8, <2>14, <3>1 DEF h
    <3>2. CASE y # b
      <4>1. pc[y] # "idle" /\ parent[y] = x /\ x # b
        BY <2>1, <2>7, <2>8, <2>9, <2>14, <3>2
      <4>2. x # a
        <5>1. SUFFICES ASSUME x = a PROVE FALSE
          OBVIOUS
        <5>2. depth[y] = depth[a] + 1 /\ depth[a] \in Nat
          BY <1>t, <4>1, <5>1 DEF TreeOK, TypeOK
        <5>3. y # a /\ pc[y] = "child"
          BY <1>t, <2>1, <4>1, <5>2 DEF StackOK
        <5>4. depth[y] < depth[a]
          BY <1>t, <2>1, <5>3 DEF StackOK
        <5> QED
          BY <5>2, <5>4
      <4>3. pc[x] = "child"
        BY <2>9, <2>14, <4>1, <4>2
      <4> QED
        BY <2>1, <2>7, <3>2, <4>1, <4>3 DEF SourcesOK
    <3> QED
      BY <3>1, <3>2
  <2> QED
    BY <2>10, <2>11, <2>12, <2>13, <2>14 DEF SourcesOK
<1>6. ASSUME NEW a \in Agents, NEW b \in Agents, ChildReturns(a, b) PROVE SourcesOK'
  <2>1. /\ pc[b] = "returned" /\ pc[a] = "child" /\ parent' = parent /\ source' = source
        /\ pc' = [pc EXCEPT ![a] = "call", ![b] = "idle"]
             \/ pc' = [pc EXCEPT ![a] = "returned", ![b] = "idle"]
        /\ todo' = [todo EXCEPT ![a] = <<>>] \/ todo' = [todo EXCEPT ![a] = Tail(@)]
        /\ log' = log \/ StoreToolOutput(a, Head(todo[a]))
    BY <1>6 DEF ChildReturns
  <2>2. todo[a] # <<>> /\ Head(todo[a]) \in Calls
    BY <1>t, <2>1, TodoType DEF CallsOK, Handling
  <2>3. \A x \in Agents : Issued(x) \subseteq Issued(x)'
    BY <1>i, <1>o, <2>1, <2>2
  <2>4. Pending(a)' \subseteq Pending(a) \ {Head(todo[a])}
    <3>1. CASE todo' = [todo EXCEPT ![a] = <<>>]
      <4>1. todo'[a] = <<>>
        BY <1>t, <3>1
      <4> QED
        BY <4>1 DEF Pending
    <3>2. CASE todo' = [todo EXCEPT ![a] = Tail(@)]
      BY <1>t, <2>2, <3>2, HandledTodo
    <3> QED
      BY <2>1, <3>1, <3>2
  <2>5. \A c \in Agents : source[c] \notin Pending(a)'
    BY <2>4 DEF SourcesOK
  <2>6. pc'[a] # "child" /\ \A x \in Agents : x # a => todo'[x] = todo[x]
    BY <1>t, <2>1
  <2>7. \A x \in Agents : x # a => (pc'[x] = "child" <=> pc[x] = "child")
    BY <1>t, <2>1
  <2>8. \A x \in Agents : pc'[x] # "idle" => pc[x] # "idle"
    BY <1>t, <2>1
  <2> QED
    BY <1>t, <2>1, <2>3, <2>5, <2>6, <2>7, <2>8, SourcesKept
<1>7. ASSUME NEW b \in Agents, RequestEnds(b) PROVE SourcesOK'
  <2>1. /\ pc[b] = "returned" /\ pc' = [pc EXCEPT ![b] = "idle"] /\ log' = log
        /\ parent' = parent /\ source' = source /\ todo' = todo
    BY <1>7 DEF RequestEnds
  <2>2. \A x \in Agents : /\ pc'[x] = "child" <=> pc[x] = "child"
                          /\ pc'[x] # "idle" => pc[x] # "idle"
    BY <1>t, <2>1
  <2> QED
    BY <1>i, <1>t, <2>1, <2>2, SourcesKept
<1>8. ASSUME NEW b \in Agents, PropagateChildResult(b) PROVE SourcesOK'
  <2>1. PICK p \in Agents : p = parent[b] /\ source[b] \in Calls
    BY <1>8, <1>t DEF PropagateChildResult, Propagates, WaitCalls, WaitEntries
  <2>2. /\ current = b /\ BottomOfStack(b) /\ pc[b] = "returned"
        /\ StoreToolOutput(p, source[b])
        /\ parent' = parent /\ source' = source /\ todo' = todo
        /\ \/ pc' = [pc EXCEPT ![b] = "idle"]
           \/ pc' = [pc EXCEPT ![b] = "idle", ![p] = "start"]
    BY <1>8, <2>1 DEF PropagateChildResult
  <2>3. \A x \in Agents : pc[x] # "child"
    BY <1>t, <2>2, OnlyTop
  <2>4. \A x \in Agents : pc'[x] # "child"
    BY <1>t, <2>2, <2>3
  <2> QED
    BY <1>o, <1>t, <2>1, <2>2, <2>3, <2>4, SourcesKept
<1> QED
  BY <1>1, <1>2, <1>3, <1>4, <1>5, <1>6, <1>7, <1>8 DEF Next, Step, LocalStep

(* Delegation builds a tree no deeper than the limit, each child is one    *)
(* level below its parent and was created by a call that the parent        *)
(* issued, and no call creates two children.                               *)
THEOREM DelegationIsTree == Spec => []DelegationTree
<1>1. Init => SourcesOK
  <2> SUFFICES ASSUME Init PROVE SourcesOK
    OBVIOUS
  <2>1. \A a \in Agents : source[a] = None /\ parent[a] = None /\ pc[a] = "idle" /\ todo[a] = <<>>
    BY DEF Init
  <2>2. \A a \in Agents : Pending(a) = {}
    BY <2>1 DEF Pending
  <2> QED
    BY <2>1, <2>2 DEF SourcesOK
<1>2. Core /\ SourcesOK /\ [Next]_vars => SourcesOK'
  BY SourcesStep
<1>3. Core /\ SourcesOK => DelegationTree
  <2> SUFFICES ASSUME Core, SourcesOK, NEW b \in Agents
               PROVE  /\ depth[b] <= MaxDepth
                      /\ parent[b] # None =>
                           /\ depth[b] = depth[parent[b]] + 1
                           /\ source[b] \in Issued(parent[b])
                           /\ \A c \in Agents : source[c] = source[b] => c = b
    BY DEF DelegationTree
  <2>1. TreeOK
    BY DEF Core
  <2> QED
    BY <2>1 DEF TreeOK, SourcesOK
<1> QED
  BY <1>1, <1>2, <1>3, CoreAlways, PTL DEF Spec

-------------------------------------------------------------------------------
(* Delegate waits lead to waiting children.                                *)

(* The child that a wait e of agent x leads to. *)
Leads(x, e, b) ==
  /\ parent[b] = x /\ source[b] = e.call
  /\ status[b] = "waiting" \/ (delivering /\ pc[b] # "idle" /\ BottomOfStack(b))

Chain ==
  \A x \in Agents : \A e \in waits[x] \union waiting[x] :
    e.type = "agent" => \E b \in Agents : Leads(x, e, b)

ReturnedOK == delivering => \A a \in Agents : pc[a] = "returned" => status[a] # "cancelled"

LEMMA ChainParts ==
  /\ ChainOK <=> SignalOK /\ ReturnedOK /\ Chain
  /\ (ChainOK <=> SignalOK /\ ReturnedOK /\ Chain)'
BY DEF ChainOK, SignalOK, ReturnedOK, Chain, Leads

(* An agent is not its own parent. *)
LEMMA ParentDiffers ==
  ASSUME TypeOK, TreeOK, NEW b \in Agents
  PROVE  parent[b] # b
<1> SUFFICES ASSUME parent[b] = b PROVE FALSE
  OBVIOUS
<1>1. depth[b] = depth[b] + 1 /\ depth[b] \in Nat
  BY DEF TypeOK, TreeOK
<1> QED
  BY <1>1

LEMMA ReturnedStep ==
  ASSUME Core, SignalOK, ReturnedOK, [Next]_vars
  PROVE  ReturnedOK'
<1> USE DEF agentVars, runVars
<1>t. /\ TypeOK /\ StackOK /\ TreeOK /\ None \notin Agents
      /\ pc \in [Agents -> PCs] /\ status \in [Agents -> Statuses]
      /\ parent \in [Agents -> Agents \union {None}]
  BY DEF Core, TypeOK
<1>1. CASE StartChat
  BY <1>1, <1>t, AllIdle DEF StartChat, Enter, SignalOK, ReturnedOK
<1>2. CASE Enqueue \/ Cancel \/ UNCHANGED vars
  BY <1>2 DEF Enqueue, Cancel, vars, ReturnedOK
<1>3. ASSUME NEW a \in Agents, NEW e \in waiting[a], Deliver(a, e) PROVE ReturnedOK'
  <2>1. /\ \A x \in Agents : pc[x] = "idle"
        /\ pc' = pc \/ pc' = [pc EXCEPT ![a] = "start"]
    BY <1>3, <1>t, AllIdle DEF Deliver, Enter
  <2> QED
    BY <1>t, <2>1 DEF ReturnedOK
<1>4. ASSUME NEW a \in Agents, LocalStep(a) PROVE ReturnedOK'
  <2>1. TopMoves(a)
    BY <1>4, <1>t, LocalStepMovesTop
  <2>2. delivering' => status'[a] # "cancelled"
    BY <1>t, <2>1 DEF TopMoves, SignalOK
  <2>3. delivering' = delivering /\ \A x \in Agents \ {a} : pc'[x] = pc[x] /\ status'[x] = status[x]
    BY <1>t, <2>1 DEF TopMoves
  <2> QED
    BY <2>2, <2>3 DEF ReturnedOK
<1>5. ASSUME NEW a \in Agents, NEW b \in Agents, Delegate(a, b) PROVE ReturnedOK'
  <2>1. /\ pc' = [pc EXCEPT ![a] = "child", ![b] = "start"] /\ delivering' = delivering
        /\ status' = [status EXCEPT ![b] = "pending"]
    BY <1>5 DEF Delegate
  <2> QED
    BY <1>t, <2>1 DEF ReturnedOK
<1>6. ASSUME NEW a \in Agents, NEW b \in Agents, ChildReturns(a, b) PROVE ReturnedOK'
  <2>1. CASE signal
    BY <1>6, <2>1 DEF ChildReturns, SignalOK, ReturnedOK
  <2>2. CASE ~signal
    <3>1. /\ pc' = [pc EXCEPT ![a] = "call", ![b] = "idle"] /\ status' = status
          /\ delivering' = delivering
      BY <1>6, <2>2 DEF ChildReturns
    <3> QED
      BY <1>t, <3>1 DEF ReturnedOK
  <2> QED
    BY <2>1, <2>2
<1>7. ASSUME NEW b \in Agents, RequestEnds(b) PROVE ReturnedOK'
  BY <1>7 DEF RequestEnds, ReturnedOK
<1>8. ASSUME NEW b \in Agents, PropagateChildResult(b) PROVE ReturnedOK'
  <2>1. PICK p \in Agents : p = parent[b]
    BY <1>8, <1>t DEF PropagateChildResult, Propagates
  <2>2. current = b /\ BottomOfStack(b)
    BY <1>8 DEF PropagateChildResult
  <2>3. \/ delivering' = FALSE
        \/ pc' = [pc EXCEPT ![b] = "idle", ![p] = "start"]
    BY <1>8, <2>1 DEF PropagateChildResult
  <2>4. \A x \in Agents \ {b} : pc[x] = "idle"
    BY <1>t, <2>2, OnlyTop
  <2>5. CASE pc' = [pc EXCEPT ![b] = "idle", ![p] = "start"]
    <3>1. \A x \in Agents : pc'[x] # "returned"
      BY <1>t, <2>1, <2>4, <2>5
    <3> QED
      BY <3>1 DEF ReturnedOK
  <2> QED
    BY <2>3, <2>5 DEF ReturnedOK
<1> QED
  BY <1>1, <1>2, <1>3, <1>4, <1>5, <1>6, <1>7, <1>8 DEF Next, Step, LocalStep

(* The delegate waits that a local step of an agent collects or saves were *)
(* among its waits before.                                                 *)
LEMMA LocalWaits ==
  ASSUME TypeOK, NEW a \in Agents, LocalStep(a), NEW e \in waits'[a] \union waiting'[a],
         e.type = "agent"
  PROVE  e \in waits[a] \union waiting[a]
<1> USE DEF agentVars
<1>t. /\ waits \in [Agents -> SUBSET WaitEntries]
      /\ waiting \in [Agents -> SUBSET WaitEntries]
  BY DEF TypeOK
<1>1. ASSUME NEW st, NEW W, Return(a, st, W), W \subseteq waits[a] \union waiting[a]
      PROVE  e \in waits[a] \union waiting[a]
  BY <1>1, <1>t DEF Return
<1>2. CancelRun(a) \/ FailRun(a) => e \in waits[a] \union waiting[a]
  BY <1>1 DEF CancelRun, FailRun
<1>3. ContinueRun(a) => e \in waits[a] \union waiting[a]
  BY <1>t DEF ContinueRun
<1>4. ASSUME NEW W, CallHandled(a, W), waiting' = waiting, e \notin W
      PROVE  e \in waits[a] \union waiting[a]
  BY <1>4, <1>t DEF CallHandled
<1>5. CASE StartRun(a) \/ AwaitTool(a) \/ \E cs \in Batches : StoreCalls(a, cs)
  BY <1>5 DEF StartRun, AwaitTool, StoreCalls, Goto
<1>6. CASE StopBeforeTurn(a) \/ GenerateFails(a) \/ CancelAtCall(a)
  BY <1>2, <1>6 DEF StopBeforeTurn, GenerateFails, CancelAtCall
<1>7. CASE ExecuteTurn(a)
  <2>1. CASE Goto(a, "generate")
    BY <2>1 DEF Goto
  <2> QED
    BY <1>2, <1>7, <2>1 DEF ExecuteTurn
<1>8. CASE FinalAnswer(a)
  BY <1>1, <1>3, <1>8 DEF FinalAnswer
<1>9. CASE RejectCall(a)
  BY <1>4, <1>9 DEF RejectCall
<1>10. CASE AskHuman(a)
  <2>1. e \notin {[call |-> Head(todo[a]), type |-> "human"]}
    OBVIOUS
  <2> QED
    BY <1>4, <1>10, <2>1 DEF AskHuman
<1>11. CASE SyncToolReturns(a) \/ McpToolReturns(a)
  BY <1>2, <1>4, <1>11 DEF SyncToolReturns, McpToolReturns
<1>12. CASE EndTurn(a)
  BY <1>1, <1>3, <1>12 DEF EndTurn
<1> QED
  BY <1>5, <1>6, <1>7, <1>8, <1>9, <1>10, <1>11, <1>12 DEF LocalStep

(* A step keeps the chain when no delegate wait is new and each child that *)
(* a wait led to still leads on.                                           *)
LEMMA ChainKept ==
  ASSUME Chain,
         \A x \in Agents : \A e \in waits'[x] \union waiting'[x] :
           e.type = "agent" => e \in waits[x] \union waiting[x],
         \A x, b \in Agents : \A e \in waits'[x] \union waiting'[x] :
           e.type = "agent" /\ Leads(x, e, b) => \E c \in Agents : Leads(x, e, c)'
  PROVE  Chain'
<1> SUFFICES ASSUME NEW x \in Agents, NEW e \in waits'[x] \union waiting'[x], e.type = "agent"
             PROVE  \E c \in Agents : Leads(x, e, c)'
  BY DEF Chain
<1>1. e \in waits[x] \union waiting[x]
  OBVIOUS
<1>2. PICK b \in Agents : Leads(x, e, b)
  BY <1>1 DEF Chain
<1> QED
  BY <1>2

(* Between requests the chain ends at agents that wait. *)
LEMMA ChainAtRest ==
  ASSUME TypeOK, StackOK, NEW x \in Agents, NEW e, NEW b \in Agents, Leads(x, e, b),
         current = None
  PROVE  status[b] = "waiting"
BY AllIdle DEF Leads

LEMMA ChainStep ==
  ASSUME Core, SourcesOK, SignalOK, ReturnedOK, Chain, [Next]_vars
  PROVE  Chain'
<1> USE DEF agentVars, runVars
<1>t. /\ TypeOK /\ StackOK /\ TreeOK /\ CallsOK /\ None \notin Agents /\ Root \in Agents
      /\ pc \in [Agents -> PCs] /\ status \in [Agents -> Statuses]
      /\ parent \in [Agents -> Agents \union {None}]
      /\ source \in [Agents -> Calls \union {None}]
      /\ waits \in [Agents -> SUBSET WaitEntries]
      /\ waiting \in [Agents -> SUBSET WaitEntries]
  BY DEF Core, TypeOK
<1>1. CASE StartChat
  <2>1. /\ waits' = waits /\ waiting' = [waiting EXCEPT ![Root] = {}]
        /\ parent' = parent /\ source' = source /\ current = None
        /\ status' = [status EXCEPT ![Root] = "pending"] /\ status[Root] # "waiting"
    BY <1>1 DEF StartChat
  <2>2. \A x, b \in Agents : \A e : Leads(x, e, b) => Leads(x, e, b)'
    BY <1>t, <2>1, ChainAtRest DEF Leads
  <2> QED
    BY <1>t, <2>1, <2>2, ChainKept
<1>2. CASE Enqueue \/ Cancel \/ UNCHANGED vars
  <2>1. UNCHANGED <<waits, waiting, parent, source, status, pc, delivering>>
    BY <1>2 DEF Enqueue, Cancel, vars
  <2> QED
    BY <2>1 DEF Chain, Leads, BottomOfStack
<1>3. ASSUME NEW a \in Agents, NEW e0 \in waiting[a], Deliver(a, e0) PROVE Chain'
  <2>1. /\ waits' = waits /\ waiting' = [waiting EXCEPT ![a] = @ \ {e0}]
        /\ parent' = parent /\ source' = source /\ current = None
        /\ \/ status' = status
           \/ /\ status' = [status EXCEPT ![a] = "pending"] /\ delivering' = TRUE
              /\ pc' = [pc EXCEPT ![a] = "start"]
    BY <1>3 DEF Deliver, Enter
  <2>2. \A x \in Agents : pc[x] = "idle"
    BY <1>t, <2>1, AllIdle
  <2>3. ASSUME NEW x \in Agents, NEW e, NEW b \in Agents, Leads(x, e, b)
        PROVE  Leads(x, e, b)'
    <3>1. status[b] = "waiting" /\ parent[b] = x /\ source[b] = e.call
      BY <1>t, <2>1, <2>3, ChainAtRest DEF Leads
    <3>2. CASE status'[b] = "waiting"
      BY <2>1, <3>1, <3>2 DEF Leads
    <3>3. CASE status'[b] # "waiting"
      <4>1. b = a /\ delivering' /\ pc' = [pc EXCEPT ![a] = "start"]
        BY <1>t, <2>1, <3>1, <3>3
      <4>2. \A y \in Agents : pc'[y] # "child"
        BY <1>t, <2>2, <4>1
      <4>3. pc'[b] # "idle"
        BY <1>t, <4>1
      <4> QED
        BY <1>t, <2>1, <3>1, <4>1, <4>2, <4>3 DEF Leads, BottomOfStack
    <3> QED
      BY <3>2, <3>3
  <2> QED
    BY <1>t, <2>1, <2>3, ChainKept
<1>4. ASSUME NEW a \in Agents, LocalStep(a) PROVE Chain'
  <2>1. /\ current = a /\ pc[a] \notin {"idle", "child", "returned"}
        /\ pc'[a] \notin {"idle", "child"} /\ status[a] # "waiting"
        /\ parent' = parent /\ source' = source /\ delivering' = delivering
    BY <1>t, <1>4, LocalStepMovesTop DEF TopMoves, TreeOK
  <2>2. \A x \in Agents \ {a} :
          /\ waits'[x] = waits[x] /\ waiting'[x] = waiting[x]
          /\ status'[x] = status[x] /\ pc'[x] = pc[x]
    BY <1>t, <1>4, LocalStepIsLocal
  <2>3. ASSUME NEW x \in Agents, NEW e \in waits'[x] \union waiting'[x], e.type = "agent"
        PROVE  e \in waits[x] \union waiting[x]
    <3>1. CASE x = a
      BY <1>t, <1>4, <2>3, <3>1, LocalWaits
    <3> QED
      BY <2>2, <2>3, <3>1
  <2>4. ASSUME NEW x \in Agents, NEW e, NEW b \in Agents, Leads(x, e, b)
        PROVE  Leads(x, e, b)'
    <3>1. CASE b = a
      <4>1. delivering /\ BottomOfStack(a) /\ parent[a] = x /\ source[a] = e.call /\ x # a
        BY <1>t, <2>1, <2>4, <3>1, ParentDiffers DEF Leads
      <4> QED
        BY <2>1, <2>2, <3>1, <4>1 DEF Leads, BottomOfStack
    <3>2. CASE b # a
      <4>1. status'[b] = status[b] /\ pc'[b] = pc[b]
        BY <2>2, <3>2
      <4>2. BottomOfStack(b) => BottomOfStack(b)'
        BY <2>1, <2>2, <2>4 DEF BottomOfStack, Leads
      <4> QED
        BY <2>1, <2>4, <4>1, <4>2 DEF Leads
    <3> QED
      BY <3>1, <3>2
  <2> QED
    BY <2>3, <2>4, ChainKept
<1>5. ASSUME NEW a \in Agents, NEW c \in Agents, Delegate(a, c) PROVE Chain'
  <2>1. /\ current = a /\ pc[a] = "call" /\ status[c] = "absent"
        /\ UNCHANGED <<waits, waiting, delivering>>
        /\ parent' = [parent EXCEPT ![c] = a] /\ status' = [status EXCEPT ![c] = "pending"]
        /\ source' = [source EXCEPT ![c] = Head(todo[a])]
        /\ pc' = [pc EXCEPT ![a] = "child", ![c] = "start"]
    BY <1>5 DEF Delegate, AtCall
  <2>2. parent[c] = None
    BY <1>t, <2>1 DEF TreeOK
  <2>3. ASSUME NEW x \in Agents, NEW e, NEW b \in Agents, Leads(x, e, b)
        PROVE  Leads(x, e, b)'
    <3>1. b # c /\ parent[b] = x /\ source[b] = e.call
      BY <1>t, <2>2, <2>3 DEF Leads
    <3>2. parent'[b] = x /\ source'[b] = e.call /\ status'[b] = status[b]
      BY <1>t, <2>1, <3>1
    <3>3. pc[b] # "idle" => pc'[b] # "idle"
      BY <1>t, <2>1
    <3>4. ASSUME pc[b] # "idle", BottomOfStack(b) PROVE pc'[x] # "child"
      <4>1. pc[x] # "child"
        BY <1>t, <3>1, <3>4 DEF BottomOfStack
      <4>2. x # a
        <5> SUFFICES ASSUME x = a PROVE FALSE
          OBVIOUS
        <5>0. parent[b] = a /\ a # None
          BY <1>t, <3>1
        <5>1. depth[b] = depth[a] + 1 /\ depth[a] \in Nat /\ b # a
          BY <1>t, <5>0, ParentDiffers DEF TreeOK, TypeOK
        <5>2. pc[b] = "child"
          BY <1>t, <2>1, <3>4, <5>1 DEF StackOK
        <5>3. depth[b] < depth[a]
          BY <1>t, <2>1, <5>2 DEF StackOK
        <5> QED
          BY <5>1, <5>3
      <4> QED
        BY <1>t, <2>1, <4>1, <4>2
    <3> QED
      BY <2>1, <2>3, <3>2, <3>3, <3>4 DEF Leads, BottomOfStack
  <2> QED
    BY <2>1, <2>3, ChainKept
<1>6. ASSUME NEW a \in Agents, NEW c \in Agents, ChildReturns(a, c) PROVE Chain'
  <2>1. /\ current = c /\ pc[c] = "returned" /\ parent[c] = a /\ pc[a] = "child" /\ a # c
        /\ parent' = parent /\ source' = source /\ delivering' = delivering
        /\ \/ /\ waits' = [waits EXCEPT ![a] = {}] /\ waiting' = [waiting EXCEPT ![a] = {}]
              /\ status' = [status EXCEPT ![a] = "cancelled"]
              /\ pc' = [pc EXCEPT ![a] = "returned", ![c] = "idle"]
           \/ /\ waiting' = waiting /\ status' = status
              /\ pc' = [pc EXCEPT ![a] = "call", ![c] = "idle"]
              /\ \/ waits' = waits
                 \/ /\ status[c] = "waiting"
                    /\ waits' = [waits EXCEPT ![a] =
                                   @ \union {[call |-> Head(todo[a]), type |-> "agent"]}]
    BY <1>6 DEF ChildReturns
  <2>2. /\ status[a] = "running" /\ pc'[a] \in {"call", "returned"}
        /\ \A x \in Agents \ {a} : status'[x] = status[x]
        /\ \A x \in Agents \ {a, c} : pc'[x] = pc[x]
        /\ \A x \in Agents : pc'[x] = "child" => pc[x] = "child"
    BY <1>t, <2>1 DEF TreeOK
  <2>3. ASSUME NEW x \in Agents, NEW e, NEW b \in Agents, Leads(x, e, b)
        PROVE  Leads(x, e, b)'
    <3>1. CASE status[b] = "waiting"
      BY <2>1, <2>2, <2>3, <3>1 DEF Leads
    <3>2. CASE delivering /\ pc[b] # "idle" /\ BottomOfStack(b)
      <4>1. b # c
        BY <1>t, <2>1, <3>2 DEF BottomOfStack
      <4>2. pc'[b] # "idle"
        BY <2>2, <3>2, <4>1
      <4>3. BottomOfStack(b)'
        BY <1>t, <2>1, <2>2, <3>2 DEF BottomOfStack
      <4> QED
        BY <2>1, <2>3, <3>2, <4>2, <4>3 DEF Leads
    <3> QED
      BY <2>3, <3>1, <3>2 DEF Leads
  <2>4. CASE \A x \in Agents : waits'[x] \subseteq waits[x]
    <3>1. \A x \in Agents : waiting'[x] \subseteq waiting[x]
      BY <1>t, <2>1
    <3> QED
      BY <2>3, <2>4, <3>1, ChainKept
  <2>5. CASE /\ status[c] = "waiting" /\ waiting' = waiting /\ status' = status
             /\ waits' = [waits EXCEPT ![a] = @ \union {[call |-> Head(todo[a]), type |-> "agent"]}]
    <3> DEFINE h == Head(todo[a])
    <3>1. source[c] = h
      BY <1>t, <2>1 DEF SourcesOK
    <3> HIDE DEF h
    <3>2. SUFFICES ASSUME NEW x \in Agents, NEW e \in waits'[x] \union waiting'[x], e.type = "agent"
                   PROVE  \E b \in Agents : Leads(x, e, b)'
      BY DEF Chain
    <3>3. CASE e \in waits[x] \union waiting[x]
      <4>1. PICK b \in Agents : Leads(x, e, b)
        BY <3>2, <3>3 DEF Chain
      <4> QED
        BY <2>3, <4>1
    <3>4. CASE e \notin waits[x] \union waiting[x]
      <4>1. x = a /\ e = [call |-> h, type |-> "agent"]
        BY <1>t, <2>5, <3>2, <3>4 DEF h
      <4>2. e.call = h
        BY <4>1
      <4>3. Leads(x, e, c)'
        BY <2>1, <2>5, <3>1, <4>1, <4>2 DEF Leads
      <4> QED
        BY <4>3
    <3> QED
      BY <3>3, <3>4
  <2> QED
    BY <1>t, <2>1, <2>4, <2>5
<1>7. ASSUME NEW b \in Agents, RequestEnds(b) PROVE Chain'
  <2>1. /\ current = b /\ pc[b] = "returned" /\ BottomOfStack(b) /\ ~Propagates(b)
        /\ UNCHANGED <<waits, waiting, parent, source, status>>
    BY <1>7 DEF RequestEnds
  <2>2. \A x \in Agents \ {b} : pc[x] = "idle"
    BY <1>t, <2>1, OnlyTop
  <2>3. ASSUME NEW x \in Agents, NEW c \in Agents, NEW e \in waits'[x] \union waiting'[x],
               Leads(x, e, c)
        PROVE  Leads(x, e, c)'
    <3> SUFFICES status[c] = "waiting"
      BY <2>1, <2>3 DEF Leads
    <3> SUFFICES ASSUME delivering, c = b PROVE status[b] = "waiting"
      BY <2>2, <2>3 DEF Leads
    <3>1. parent[b] = x /\ source[b] = e.call /\ x # b
      BY <1>t, <2>3, ParentDiffers DEF Leads
    <3>2. e \in waiting[x]
      BY <1>t, <2>1, <2>2, <2>3, <3>1 DEF CallsOK, Handling
    <3>3. source[b] \in WaitCalls(waiting[parent[b]])
      BY <3>1, <3>2 DEF WaitCalls
    <3>4. status[b] \in {"waiting", "cancelled"}
      BY <1>t, <2>1, <3>1, <3>3 DEF Propagates
    <3> QED
      BY <2>1, <3>4 DEF ReturnedOK
  <2> QED
    BY <2>1, <2>3, ChainKept
<1>8. ASSUME NEW b \in Agents, PropagateChildResult(b) PROVE Chain'
  <2>0. PICK p \in Agents, c \in Calls, rest \in SUBSET waiting[parent[b]] :
          p = parent[b] /\ c = source[b] /\ rest = {e \in waiting[p] : e.call # c}
    <3>1. parent[b] \in Agents /\ source[b] \in Calls
      BY <1>8, <1>t DEF PropagateChildResult, Propagates, WaitCalls, WaitEntries
    <3> QED
      BY <3>1
  <2>1. /\ current = b /\ pc[b] = "returned" /\ BottomOfStack(b) /\ delivering
        /\ waits' = waits /\ parent' = parent /\ source' = source
        /\ waiting' = [waiting EXCEPT ![p] = rest]
        /\ \/ status' = [status EXCEPT ![p] = "waiting"]
           \/ /\ status' = [status EXCEPT ![p] = "pending"] /\ delivering' = delivering
              /\ pc' = [pc EXCEPT ![b] = "idle", ![p] = "start"]
    BY <1>8, <2>0 DEF PropagateChildResult, Propagates
  <2>2. \A x \in Agents \ {b} : pc[x] = "idle"
    BY <1>t, <2>1, OnlyTop
  <2>3. p # b /\ pc[p] = "idle"
    BY <1>t, <2>0, <2>2, ParentDiffers
  <2>4. ASSUME NEW x \in Agents, NEW d \in Agents, NEW e \in waits'[x] \union waiting'[x],
               Leads(x, e, d)
        PROVE  Leads(x, e, d)'
    <3>0. parent[d] = x /\ source[d] = e.call
      BY <2>4 DEF Leads
    <3>1. status[d] = "waiting"
      <4> SUFFICES ASSUME d = b PROVE FALSE
        BY <2>2, <2>4 DEF Leads
      <4>1. x = p /\ c = e.call
        BY <2>0, <3>0
      <4>2. waits[p] = {}
        BY <1>t, <2>3 DEF CallsOK, Handling
      <4>3. e \in rest
        BY <1>t, <2>1, <2>4, <4>1, <4>2
      <4> QED
        BY <2>0, <4>1, <4>3
    <3>2. CASE status'[d] = "waiting"
      BY <2>1, <3>0, <3>2 DEF Leads
    <3>3. CASE status'[d] # "waiting"
      <4>1. d = p /\ delivering' /\ pc' = [pc EXCEPT ![b] = "idle", ![p] = "start"]
        BY <1>t, <2>1, <3>1, <3>3
      <4>2. \A y \in Agents : pc'[y] # "child"
        BY <1>t, <2>2, <4>1
      <4>3. pc'[d] # "idle"
        BY <1>t, <2>3, <4>1
      <4> QED
        BY <1>t, <2>1, <3>0, <4>1, <4>2, <4>3 DEF Leads, BottomOfStack
    <3> QED
      BY <3>2, <3>3
  <2>5. \A x \in Agents : waits'[x] = waits[x] /\ waiting'[x] \subseteq waiting[x]
    BY <1>t, <2>0, <2>1
  <2> QED
    BY <2>4, <2>5, ChainKept
<1> QED
  BY <1>1, <1>2, <1>3, <1>4, <1>5, <1>6, <1>7, <1>8 DEF Next, Step, LocalStep

-------------------------------------------------------------------------------
(* Children keep track of their calls.                                     *)

Tracked(a) == Open(a) = Pending(a) \union WaitCalls(waits[a]) \union WaitCalls(waiting[a])

(* A step that leaves an agent's calls alone keeps track of them. *)
LEMMA TrackedKept ==
  ASSUME NEW x \in Agents, Tracked(x), log'[x] = log[x],
         todo'[x] = todo[x], waits'[x] = waits[x], waiting'[x] = waiting[x]
  PROVE  Tracked(x)'
BY DEF Tracked, Open, Issued, Answered, Pending, WaitCalls

(* A running agent has no persisted waits. *)
LEMMA NoWaits ==
  ASSUME WaitsAreOpen, NEW a \in Agents, status[a] # "waiting"
  PROVE  waiting[a] = {} /\ WaitCalls(waiting[a]) = {}
BY DEF WaitsAreOpen, WaitCalls

(* The call at the head of todo gets its output. *)
LEMMA TrackedAnswered ==
  ASSUME TypeOK, CallsOK, WaitsAreOpen, NEW a \in Agents, Tracked(a),
         status[a] # "waiting", todo[a] # <<>>,
         StoreToolOutput(a, Head(todo[a])), todo' = [todo EXCEPT ![a] = Tail(@)],
         waits'[a] = waits[a], waiting'[a] = waiting[a]
  PROVE  Tracked(a)'
<1> DEFINE h == Head(todo[a])
<1>1. h \in Calls /\ h \in Pending(a) /\ Pending(a)' = Pending(a) \ {h}
  BY TodoType, HandledTodo
<1>2. Issued(a)' = Issued(a) /\ Answered(a)' = Answered(a) \union {h}
  BY <1>1, OutputLog
<1>3. Open(a)' = Open(a) \ {h}
  BY <1>2 DEF Open
<1>4. h \notin WaitCalls(waits[a]) /\ WaitCalls(waiting[a]) = {}
  BY <1>1, NoWaits DEF CallsOK
<1>5. WaitCalls(waits[a])' = WaitCalls(waits[a]) /\ WaitCalls(waiting[a])' = WaitCalls(waiting[a])
  BY DEF WaitCalls
<1> HIDE DEF h
<1> QED
  BY <1>1, <1>3, <1>4, <1>5 DEF Tracked

(* The call at the head of todo becomes a wait. *)
LEMMA TrackedWaits ==
  ASSUME TypeOK, CallsOK, NEW a \in Agents, Tracked(a), todo[a] # <<>>, NEW t,
         log' = log, todo' = [todo EXCEPT ![a] = Tail(@)],
         waits'[a] = waits[a] \union {[call |-> Head(todo[a]), type |-> t]},
         waiting'[a] = waiting[a]
  PROVE  Tracked(a)'
<1> DEFINE h == Head(todo[a])  n == [call |-> h, type |-> t]
<1>1. h \in Pending(a) /\ Pending(a)' = Pending(a) \ {h}
  BY HandledTodo
<1>2. n.call = h
  OBVIOUS
<1>3. /\ WaitCalls(waits[a])' = WaitCalls(waits[a]) \union {h}
      /\ WaitCalls(waiting[a])' = WaitCalls(waiting[a])
  BY <1>2 DEF WaitCalls
<1>4. Open(a)' = Open(a)
  BY LogUnchanged DEF Open
<1> HIDE DEF h, n
<1> QED
  BY <1>1, <1>3, <1>4 DEF Tracked

(* The calls of a response are pending. *)
LEMMA TrackedBatch ==
  ASSUME TypeOK, AnsweredOnce, CallsOK, WaitsAreOpen, NEW a \in Agents, Tracked(a),
         status[a] # "waiting", NEW cs \in Batches, StoreCalls(a, cs)
  PROVE  Tracked(a)'
<1> USE DEF agentVars
<1> DEFINE new == {cs[i] : i \in DOMAIN cs}
<1>1. todo[a] = <<>> /\ waits[a] = {} /\ WaitCalls(waiting[a]) = {}
  BY NoWaits DEF StoreCalls, CallsOK, Handling
<1>2. Pending(a) = {} /\ WaitCalls(waits[a]) = {}
  BY <1>1 DEF Pending, WaitCalls
<1>3. Open(a) = {}
  BY <1>1, <1>2 DEF Tracked
<1>4. Issued(a)' = Issued(a) \union new /\ Answered(a)' = Answered(a)
  BY CallsLog
<1>5. new \intersect Issued(a) = {}
  BY BatchType DEF FreshCalls
<1>6. Answered(a) \subseteq Issued(a)
  BY AnsweredIssued
<1>7. todo'[a] = cs /\ waits'[a] = waits[a] /\ waiting'[a] = waiting[a]
  BY DEF StoreCalls, TypeOK
<1>8. /\ Pending(a)' = new /\ WaitCalls(waits[a])' = WaitCalls(waits[a])
      /\ WaitCalls(waiting[a])' = WaitCalls(waiting[a])
  BY <1>7 DEF Pending, WaitCalls
<1> HIDE DEF new
<1>9. Open(a)' = new
  BY <1>3, <1>4, <1>5, <1>6 DEF Open
<1> QED
  BY <1>1, <1>2, <1>8, <1>9 DEF Tracked

(* Returning without losing a call: what is still open is saved. *)
LEMMA TrackedReturn ==
  ASSUME TypeOK, WaitsAreOpen, NEW a \in Agents, Tracked(a), status[a] # "waiting",
         todo[a] = <<>>, log' = log, NEW st, Return(a, st, waits[a])
  PROVE  Tracked(a)'
<1>1. todo'[a] = <<>> /\ waits'[a] = {} /\ waiting'[a] = waits[a]
  BY DEF Return, TypeOK
<1>2. /\ Pending(a) = {} /\ Pending(a)' = {} /\ WaitCalls(waits[a])' = {}
      /\ WaitCalls(waiting[a])' = WaitCalls(waits[a])
  BY <1>1 DEF Pending, WaitCalls
<1>3. Open(a)' = Open(a) /\ WaitCalls(waiting[a]) = {}
  BY LogUnchanged, NoWaits DEF Open
<1> QED
  BY <1>2, <1>3 DEF Tracked

(* A local step of an agent loses a call only when it fails or cancels it. *)
LEMMA LocalTracked ==
  ASSUME TypeOK, TreeOK, AnsweredOnce, CallsOK, WaitsAreOpen, NEW a \in Agents, LocalStep(a),
         Tracked(a), status'[a] \notin {"failed", "cancelled"}
  PROVE  Tracked(a)'
<1> USE DEF agentVars
<1>t. /\ todo \in [Agents -> Seq(Calls)] /\ log \in [Agents -> Seq(Items)]
      /\ waits \in [Agents -> SUBSET WaitEntries]
      /\ waiting \in [Agents -> SUBSET WaitEntries]
      /\ status \in [Agents -> Statuses]
  BY DEF TypeOK
<1>0. status[a] # "waiting" /\ waiting[a] = {}
  BY LocalStepMovesTop, NoWaits DEF TopMoves, TreeOK
<1>1. ~CancelRun(a) /\ ~FailRun(a)
  BY <1>t DEF CancelRun, FailRun, Return
<1>2. ASSUME log' = log, todo' = todo, waits' = waits,
             waiting' = waiting \/ waiting' = [waiting EXCEPT ![a] = {}]
      PROVE  Tracked(a)'
  BY <1>0, <1>2, <1>t, TrackedKept
<1>3. CASE StartRun(a) \/ AwaitTool(a)
  BY <1>2, <1>3 DEF StartRun, AwaitTool, Goto
<1>4. CASE ExecuteTurn(a)
  BY <1>1, <1>2, <1>4 DEF ExecuteTurn, Goto
<1>5. ~StopBeforeTurn(a) /\ ~GenerateFails(a) /\ ~CancelAtCall(a)
  BY <1>1 DEF StopBeforeTurn, GenerateFails, CancelAtCall
<1>6. CASE \E cs \in Batches : StoreCalls(a, cs)
  BY <1>0, <1>6, TrackedBatch
<1>7. CASE FinalAnswer(a)
  <2>1. todo[a] = <<>> /\ waits[a] = {} /\ log' = log
    BY <1>7 DEF FinalAnswer, CallsOK, Handling
  <2>2. CASE ContinueRun(a)
    BY <1>2, <2>1, <2>2 DEF ContinueRun
  <2>3. CASE Return(a, "completed", {})
    BY <1>0, <2>1, <2>3, TrackedReturn
  <2> QED
    BY <1>7, <2>2, <2>3 DEF FinalAnswer
<1>8. CASE RejectCall(a)
  <2>1. /\ todo[a] # <<>> /\ StoreToolOutput(a, Head(todo[a]))
        /\ waiting' = waiting /\ CallHandled(a, {})
    BY <1>8 DEF RejectCall, AtCall
  <2>2. todo' = [todo EXCEPT ![a] = Tail(@)] /\ waits'[a] = waits[a]
    BY <1>t, <2>1 DEF CallHandled
  <2> QED
    BY <1>0, <2>1, <2>2, TrackedAnswered
<1>9. CASE AskHuman(a)
  <2>1. /\ todo[a] # <<>> /\ log' = log /\ waiting' = waiting
        /\ todo' = [todo EXCEPT ![a] = Tail(@)]
        /\ waits'[a] = waits[a] \union {[call |-> Head(todo[a]), type |-> "human"]}
    BY <1>9, <1>t DEF AskHuman, AtCall, CallHandled
  <2> QED
    BY <2>1, TrackedWaits
<1>10. CASE SyncToolReturns(a) \/ McpToolReturns(a)
  <2>1. /\ todo[a] # <<>> /\ StoreToolOutput(a, Head(todo[a]))
        /\ waiting' = waiting /\ CallHandled(a, {})
    BY <1>1, <1>10 DEF SyncToolReturns, McpToolReturns, CallsOK, Handling
  <2>2. todo' = [todo EXCEPT ![a] = Tail(@)] /\ waits'[a] = waits[a]
    BY <1>t, <2>1 DEF CallHandled
  <2> QED
    BY <1>0, <2>1, <2>2, TrackedAnswered
<1>11. CASE EndTurn(a)
  <2>1. todo[a] = <<>> /\ log' = log
    BY <1>11 DEF EndTurn
  <2>2. CASE ContinueRun(a)
    BY <1>2, <2>1, <2>2 DEF ContinueRun
  <2>3. CASE Return(a, "waiting", waits[a])
    BY <1>0, <2>1, <2>3, TrackedReturn
  <2> QED
    BY <1>11, <2>2, <2>3 DEF EndTurn
<1> QED
  BY <1>3, <1>4, <1>5, <1>6, <1>7, <1>8, <1>9, <1>10, <1>11 DEF LocalStep

(* The answer to a wait takes its entry along. *)
LEMMA TrackedResolved ==
  ASSUME TypeOK, CallsOK, NEW a \in Agents, Tracked(a), pc[a] = "idle",
         NEW c \in Calls, c \in WaitCalls(waiting[a]), StoreToolOutput(a, c),
         waiting'[a] = {e \in waiting[a] : e.call # c},
         todo'[a] = todo[a], waits'[a] = waits[a]
  PROVE  Tracked(a)'
<1>1. todo[a] = <<>> /\ waits[a] = {}
  BY DEF CallsOK, Handling
<1>2. /\ Pending(a) = {} /\ WaitCalls(waits[a]) = {}
      /\ Pending(a)' = {} /\ WaitCalls(waits[a])' = {}
  BY <1>1 DEF Pending, WaitCalls
<1>3. Issued(a)' = Issued(a) /\ Answered(a)' = Answered(a) \union {c}
  BY OutputLog
<1>4. Open(a)' = Open(a) \ {c}
  BY <1>3 DEF Open
<1>5. WaitCalls(waiting[a])' = WaitCalls(waiting[a]) \ {c}
  BY DEF WaitCalls
<1> QED
  BY <1>2, <1>4, <1>5 DEF Tracked

LEMMA NothingLostStep ==
  ASSUME Core, NothingLost, [Next]_vars
  PROVE  NothingLost'
<1> USE DEF agentVars, runVars
<1>t. /\ TypeOK /\ StackOK /\ TreeOK /\ AnsweredOnce /\ CallsOK /\ WaitsAreOpen
      /\ None \notin Agents
      /\ pc \in [Agents -> PCs] /\ status \in [Agents -> Statuses]
      /\ parent \in [Agents -> Agents \union {None}]
      /\ log \in [Agents -> Seq(Items)] /\ todo \in [Agents -> Seq(Calls)]
      /\ waits \in [Agents -> SUBSET WaitEntries]
      /\ waiting \in [Agents -> SUBSET WaitEntries]
  BY DEF Core, TypeOK
<1> SUFFICES ASSUME NEW x \in Agents \ {Root}, status'[x] \notin {"failed", "cancelled"}
             PROVE  Tracked(x)'
  BY DEF NothingLost, Tracked
<1>x. Tracked(x)
  <2>1. status[x] \notin {"failed", "cancelled"}
    BY EndedStays DEF Terminal
  <2> QED
    BY <2>1 DEF NothingLost, Tracked
<1>1. CASE StartChat
  <2>1. /\ log'[x] = log[x] /\ todo'[x] = todo[x] /\ waits'[x] = waits[x]
        /\ waiting'[x] = waiting[x]
    BY <1>1, <1>t DEF StartChat
  <2> QED
    BY <1>x, <2>1, TrackedKept
<1>2. CASE Enqueue \/ Cancel \/ UNCHANGED vars
  <2>1. log' = log /\ todo' = todo /\ waits' = waits /\ waiting' = waiting
    BY <1>2 DEF Enqueue, Cancel, vars
  <2> QED
    BY <1>x, <2>1, TrackedKept
<1>3. ASSUME NEW a \in Agents, NEW e \in waiting[a], Deliver(a, e) PROVE Tracked(x)'
  <2> DEFINE c == e.call
  <2>1. /\ StoreToolOutput(a, c) /\ waiting' = [waiting EXCEPT ![a] = @ \ {e}]
        /\ todo' = todo /\ waits' = waits /\ current = None
    BY <1>3 DEF Deliver, Enter
  <2>2. c \in Calls /\ c \in WaitCalls(waiting[a]) /\ pc[a] = "idle"
    BY <1>t, <2>1, AllIdle DEF WaitEntries, WaitCalls
  <2>3. waiting'[a] = {f \in waiting[a] : f.call # c}
    BY <1>t, <2>1 DEF CallsOK
  <2> HIDE DEF c
  <2>4. CASE x = a
    BY <1>t, <1>x, <2>1, <2>2, <2>3, <2>4, TrackedResolved
  <2>5. CASE x # a
    <3>1. log'[x] = log[x] /\ waiting'[x] = waiting[x]
      BY <1>t, <2>1, <2>5 DEF StoreToolOutput
    <3> QED
      BY <1>x, <2>1, <3>1, TrackedKept
  <2> QED
    BY <2>4, <2>5
<1>4. ASSUME NEW a \in Agents, LocalStep(a) PROVE Tracked(x)'
  <2>1. CASE x = a
    BY <1>t, <1>x, <1>4, <2>1, LocalTracked
  <2>2. CASE x # a
    BY <1>t, <1>x, <1>4, <2>2, LocalStepIsLocal, TrackedKept
  <2> QED
    BY <2>1, <2>2
<1>5. ASSUME NEW a \in Agents, NEW b \in Agents, Delegate(a, b) PROVE Tracked(x)'
  <2>1. log' = log /\ todo' = todo /\ waits' = waits /\ waiting' = waiting
    BY <1>5 DEF Delegate
  <2> QED
    BY <1>x, <2>1, TrackedKept
<1>6. ASSUME NEW a \in Agents, NEW b \in Agents, ChildReturns(a, b) PROVE Tracked(x)'
  <2>1. /\ pc[a] = "child" /\ todo[a] # <<>>
        /\ \/ status' = [status EXCEPT ![a] = "cancelled"] /\ log' = log
              /\ todo' = [todo EXCEPT ![a] = <<>>] /\ waits' = [waits EXCEPT ![a] = {}]
              /\ waiting' = [waiting EXCEPT ![a] = {}]
           \/ /\ waiting' = waiting /\ todo' = [todo EXCEPT ![a] = Tail(@)]
              /\ \/ /\ log' = log
                    /\ waits' = [waits EXCEPT ![a] =
                                   @ \union {[call |-> Head(todo[a]), type |-> "agent"]}]
                 \/ StoreToolOutput(a, Head(todo[a])) /\ waits' = waits
    BY <1>6, <1>t DEF ChildReturns, CallsOK, Handling
  <2>2. status[a] # "waiting"
    BY <1>t, <2>1 DEF TreeOK
  <2>3. CASE x # a
    <3>1. /\ log'[x] = log[x] /\ todo'[x] = todo[x] /\ waits'[x] = waits[x]
          /\ waiting'[x] = waiting[x]
      BY <1>t, <2>1, <2>3 DEF StoreToolOutput
    <3> QED
      BY <1>x, <3>1, TrackedKept
  <2>4. CASE x = a
    <3>1. /\ waiting' = waiting /\ todo' = [todo EXCEPT ![a] = Tail(@)]
          /\ \/ /\ log' = log
                /\ waits'[a] = waits[a] \union {[call |-> Head(todo[a]), type |-> "agent"]}
             \/ StoreToolOutput(a, Head(todo[a])) /\ waits' = waits
      BY <1>t, <2>1, <2>4
    <3>2. CASE log' = log /\ waits'[a] = waits[a] \union {[call |-> Head(todo[a]), type |-> "agent"]}
      BY <1>t, <1>x, <2>1, <2>4, <3>1, <3>2, TrackedWaits
    <3>3. CASE StoreToolOutput(a, Head(todo[a])) /\ waits' = waits
      BY <1>t, <1>x, <2>1, <2>2, <2>4, <3>1, <3>3, TrackedAnswered
    <3> QED
      BY <3>1, <3>2, <3>3
  <2> QED
    BY <2>3, <2>4
<1>7. ASSUME NEW b \in Agents, RequestEnds(b) PROVE Tracked(x)'
  <2>1. log' = log /\ todo' = todo /\ waits' = waits /\ waiting' = waiting
    BY <1>7 DEF RequestEnds
  <2> QED
    BY <1>x, <2>1, TrackedKept
<1>8. ASSUME NEW b \in Agents, PropagateChildResult(b) PROVE Tracked(x)'
  <2>0. PICK p \in Agents, c \in Calls :
          p = parent[b] /\ c = source[b] /\ c \in WaitCalls(waiting[p])
    BY <1>8, <1>t DEF PropagateChildResult, Propagates, WaitCalls, WaitEntries
  <2>1. /\ current = b /\ BottomOfStack(b)
        /\ StoreToolOutput(p, c)
        /\ waiting' = [waiting EXCEPT ![p] = {e \in waiting[p] : e.call # c}]
        /\ todo' = todo /\ waits' = waits
    BY <1>8, <2>0 DEF PropagateChildResult
  <2>2. p # b /\ pc[p] = "idle"
    BY <1>t, <2>0, <2>1, OnlyTop, ParentDiffers
  <2>3. CASE x = p
    <3>1. waiting'[p] = {e \in waiting[p] : e.call # c}
      BY <1>t, <2>1
    <3> QED
      BY <1>t, <1>x, <2>0, <2>1, <2>2, <2>3, <3>1, TrackedResolved
  <2>4. CASE x # p
    <3>1. log'[x] = log[x] /\ waiting'[x] = waiting[x]
      BY <1>t, <2>1, <2>4 DEF StoreToolOutput
    <3> QED
      BY <1>x, <2>1, <3>1, TrackedKept
  <2> QED
    BY <2>3, <2>4
<1> QED
  BY <1>1, <1>2, <1>3, <1>4, <1>5, <1>6, <1>7, <1>8 DEF Next, Step, LocalStep

(* The inductive invariant of the runner: the call stack, the delegation   *)
(* tree, the calls, the waits and where they lead, in one formula.         *)
THEOREM InvariantHolds == Spec => []IInv
<1>1. Init => IInv
  <2> SUFFICES ASSUME Init PROVE IInv
    OBVIOUS
  <2>1. \A a \in Agents : /\ source[a] = None /\ parent[a] = None /\ pc[a] = "idle"
                          /\ todo[a] = <<>> /\ waits[a] = {} /\ waiting[a] = {}
                          /\ log[a] = <<>>
    BY DEF Init
  <2>2. \A a \in Agents : /\ Pending(a) = {} /\ Open(a) = {}
                          /\ WaitCalls(waits[a]) = {} /\ WaitCalls(waiting[a]) = {}
    BY <2>1 DEF Pending, Open, Issued, WaitCalls
  <2>3. SourcesOK
    BY <2>1, <2>2 DEF SourcesOK
  <2>4. ~delivering /\ ~signal
    BY DEF Init
  <2>5. ChainOK /\ NothingLost
    BY <2>1, <2>2, <2>4 DEF ChainOK, NothingLost
  <2> QED
    BY <2>3, <2>5, CoreInit DEF IInv, Core
<1>2. IInv /\ [Next]_vars => IInv'
  <2> SUFFICES ASSUME IInv, [Next]_vars PROVE IInv'
    OBVIOUS
  <2>1. Core /\ SourcesOK /\ NothingLost /\ SignalOK /\ ReturnedOK /\ Chain
    BY ChainParts DEF IInv, Core
  <2>2. Core' /\ SourcesOK' /\ NothingLost' /\ SignalOK' /\ ReturnedOK' /\ Chain'
    BY <2>1, CoreStep, SourcesStep, NothingLostStep, SignalStep, ReturnedStep, ChainStep
  <2> QED
    BY <2>2, ChainParts DEF IInv, Core
<1> QED
  BY <1>1, <1>2, PTL DEF Spec

(* Between requests, every delegate wait of every agent leads to the child *)
(* that the call created, and that child waits too: a human wait below can *)
(* always be delivered, and its result finds the way up.                   *)
THEOREM WaitsLeadDown == Spec => []WaitChain
<1>1. IInv => WaitChain
  <2> SUFFICES ASSUME IInv, current = None,
                      NEW a \in Agents, NEW e \in waiting[a], e.type = "agent"
               PROVE  \E b \in Agents : parent[b] = a /\ source[b] = e.call /\ status[b] = "waiting"
    BY DEF WaitChain
  <2>1. PICK b \in Agents : Leads(a, e, b)
    BY ChainParts DEF IInv, Chain
  <2>2. status[b] = "waiting"
    BY <2>1, ChainAtRest DEF IInv
  <2> QED
    BY <2>1, <2>2 DEF Leads
<1> QED
  BY <1>1, InvariantHolds, PTL

(* A child that completed left no call open, and one that waits is         *)
(* recorded as waiting for exactly its open calls: whatever the order in   *)
(* which its calls were handled, delivered and propagated, none is lost.   *)
THEOREM ChildrenLoseNothing == Spec => []ChildSettled
<1>1. IInv => ChildSettled
  <2> SUFFICES ASSUME IInv, NEW a \in Agents \ {Root}
               PROVE  /\ status[a] = "completed" => Open(a) = {}
                      /\ status[a] = "waiting" /\ pc[a] = "idle" => Open(a) = WaitCalls(waiting[a])
    BY DEF ChildSettled
  <2>1. ASSUME status[a] \in {"completed", "waiting"}
        PROVE  Open(a) = WaitCalls(waiting[a])
    <3>1. pc[a] \notin Handling
      BY <2>1 DEF IInv, TreeOK, Handling
    <3>2. todo[a] = <<>> /\ waits[a] = {}
      BY <3>1 DEF IInv, CallsOK
    <3>3. Pending(a) = {} /\ WaitCalls(waits[a]) = {}
      BY <3>2 DEF Pending, WaitCalls
    <3> QED
      BY <2>1, <3>3 DEF IInv, NothingLost
  <2> QED
    BY <2>1, NoWaits DEF IInv
<1> QED
  BY <1>1, InvariantHolds, PTL

-------------------------------------------------------------------------------
(* The call ledger.                                                        *)

AllIssued == UNION {Issued(a) : a \in Agents}
Outputs(a, c) == {j \in DOMAIN log[a] : log[a][j] = OutputItem(c)}
Slots(c) == UNION {{Slot(a, i) : i \in Outputs(a, c)} : a \in Agents}

(* A step leaves the transcripts alone, answers an open call of an agent,  *)
(* or stores the calls of a response.                                      *)
LEMMA LogSteps ==
  ASSUME Core, [Next]_vars
  PROVE  \/ log' = log
         \/ \E a \in Agents : \E c \in Open(a) : StoreToolOutput(a, c)
         \/ \E a \in Agents : \E cs \in Batches : StoreCalls(a, cs)
<1> USE DEF agentVars, runVars
<1>t. /\ TypeOK /\ CallsOK /\ WaitsAreOpen /\ None \notin Agents
      /\ parent \in [Agents -> Agents \union {None}]
  BY DEF Core, TypeOK
<1>h. ASSUME NEW a \in Agents, todo[a] # <<>>
      PROVE  Head(todo[a]) \in Open(a)
  <2>1. todo[a] \in Seq(Calls) /\ DOMAIN todo[a] = 1..Len(todo[a]) /\ Len(todo[a]) \in Nat \ {0}
    BY <1>t, <1>h, EmptySeq, LenProperties DEF TypeOK
  <2>2. Head(todo[a]) = todo[a][1] /\ 1 \in DOMAIN todo[a]
    BY <2>1
  <2> QED
    BY <1>t, <2>2 DEF CallsOK, Pending
<1> DEFINE Outcome == \/ log' = log
                      \/ \E a \in Agents : \E c \in Open(a) : StoreToolOutput(a, c)
                      \/ \E a \in Agents : \E cs \in Batches : StoreCalls(a, cs)
<1>o. ASSUME NEW a \in Agents, NEW c \in Open(a), log' = log \/ StoreToolOutput(a, c) PROVE Outcome
  BY <1>o
<1>c. ASSUME NEW a \in Agents, NEW cs \in Batches, StoreCalls(a, cs) PROVE Outcome
  BY <1>c
<1>q. log' = log => Outcome
  OBVIOUS
<1> HIDE DEF Outcome
<1>1. CASE StartChat \/ Enqueue \/ Cancel \/ UNCHANGED vars
  BY <1>1, <1>q DEF StartChat, Enqueue, Cancel, vars
<1>2. ASSUME NEW a \in Agents, NEW e \in waiting[a], Deliver(a, e) PROVE Outcome
  <2>1. e.call \in Open(a) /\ StoreToolOutput(a, e.call)
    BY <1>t, <1>2 DEF Deliver, WaitsAreOpen, WaitCalls
  <2> QED
    BY <1>o, <2>1
<1>3. ASSUME NEW a \in Agents, LocalStep(a) PROVE Outcome
  <2>1. CASE \/ StartRun(a) \/ StopBeforeTurn(a) \/ ExecuteTurn(a) \/ GenerateFails(a)
             \/ FinalAnswer(a) \/ CancelAtCall(a) \/ AwaitTool(a) \/ AskHuman(a) \/ EndTurn(a)
    BY <1>q, <2>1 DEF StartRun, StopBeforeTurn, ExecuteTurn, GenerateFails, FinalAnswer,
       CancelAtCall, AwaitTool, AskHuman, EndTurn
  <2>2. CASE RejectCall(a)
    BY <1>h, <1>o, <2>2 DEF RejectCall, AtCall
  <2>3. CASE SyncToolReturns(a) \/ McpToolReturns(a)
    <3>1. todo[a] # <<>>
      BY <1>t, <2>3 DEF SyncToolReturns, McpToolReturns, CallsOK, Handling
    <3>2. log' = log \/ StoreToolOutput(a, Head(todo[a]))
      BY <2>3 DEF SyncToolReturns, McpToolReturns
    <3> QED
      BY <1>h, <1>o, <3>1, <3>2
  <2> QED
    BY <1>3, <1>c, <2>1, <2>2, <2>3 DEF LocalStep
<1>4. ASSUME NEW a \in Agents, NEW b \in Agents, Delegate(a, b) PROVE Outcome
  BY <1>4, <1>q DEF Delegate
<1>5. ASSUME NEW a \in Agents, NEW b \in Agents, ChildReturns(a, b) PROVE Outcome
  <2>1. todo[a] # <<>> /\ (log' = log \/ StoreToolOutput(a, Head(todo[a])))
    BY <1>t, <1>5 DEF ChildReturns, CallsOK, Handling
  <2> QED
    BY <1>h, <1>o, <2>1
<1>6. ASSUME NEW b \in Agents, RequestEnds(b) PROVE Outcome
  BY <1>6, <1>q DEF RequestEnds
<1>7. ASSUME NEW b \in Agents, PropagateChildResult(b) PROVE Outcome
  <2>1. PICK p \in Agents : p = parent[b]
    BY <1>t, <1>7 DEF PropagateChildResult, Propagates
  <2>2. source[b] \in Open(p) /\ StoreToolOutput(p, source[b])
    BY <1>t, <1>7, <2>1 DEF PropagateChildResult, Propagates, WaitsAreOpen
  <2> QED
    BY <1>o, <2>2
<1> QED
  BY <1>1, <1>2, <1>3, <1>4, <1>5, <1>6, <1>7 DEF Next, Step, LocalStep, Outcome

(* The slots of a call change only where its output is stored. *)
LEMMA OutputSlots ==
  ASSUME TypeOK, NEW a \in Agents, NEW c \in Calls, StoreToolOutput(a, c),
         NEW x \in Agents, NEW d \in Calls
  PROVE  Outputs(x, d)' =
           IF x = a /\ d = c THEN Outputs(x, d) \union {Len(log[a]) + 1} ELSE Outputs(x, d)
<1>1. CASE x # a
  BY <1>1 DEF StoreToolOutput, TypeOK, Outputs
<1>2. CASE x = a
  <2> DEFINE q == log[a]  r == log'[a]
  <2>1. /\ Len(q) \in Nat /\ DOMAIN q = 1..Len(q) /\ DOMAIN r = 1..(Len(q) + 1)
        /\ \A i \in 1..Len(q) : r[i] = q[i]
        /\ r[Len(q) + 1] = OutputItem(c)
    <3>1. q \in Seq(Items) /\ OutputItem(c) \in Items /\ r = Append(q, OutputItem(c))
      BY DEF StoreToolOutput, TypeOK, OutputItem, Items
    <3> QED
      BY <3>1, AppendProperties, LenProperties
  <2> HIDE DEF q, r
  <2>2. \A i \in DOMAIN r : i \in DOMAIN q \/ i = Len(q) + 1
    BY <2>1
  <2>3. Len(q) + 1 \in DOMAIN r /\ Len(q) + 1 \notin DOMAIN q /\ DOMAIN q \subseteq DOMAIN r
    BY <2>1
  <2>4. {j \in DOMAIN r : r[j] = OutputItem(d)} =
          IF d = c THEN {j \in DOMAIN q : q[j] = OutputItem(d)} \union {Len(q) + 1}
                   ELSE {j \in DOMAIN q : q[j] = OutputItem(d)}
    BY <2>1, <2>2, <2>3, ItemsDiffer
  <2> QED
    BY <1>2, <2>4 DEF Outputs, q, r
<1> QED
  BY <1>1, <1>2

(* Calls have no slots to give. *)
LEMMA CallSlots ==
  ASSUME TypeOK, NEW a \in Agents, NEW cs \in Batches, StoreCalls(a, cs),
         NEW x \in Agents, NEW d \in Calls
  PROVE  Outputs(x, d)' = Outputs(x, d)
<1>1. CASE x # a
  BY <1>1 DEF StoreCalls, TypeOK, Outputs
<1>2. CASE x = a
  <2> DEFINE q == log[a]  r == log'[a]
  <2>1. /\ \A i \in DOMAIN q : i \in DOMAIN r /\ r[i] = q[i]
        /\ \A i \in DOMAIN r : \/ i \in DOMAIN q /\ r[i] = q[i]
                               \/ \E k \in DOMAIN cs : r[i] = CallItem(cs[k])
    BY CallsShape
  <2> HIDE DEF q, r
  <2>2. {j \in DOMAIN r : r[j] = OutputItem(d)} = {j \in DOMAIN q : q[j] = OutputItem(d)}
    BY <2>1, ItemsDiffer
  <2> QED
    BY <1>2, <2>2 DEF Outputs, q, r
<1> QED
  BY <1>1, <1>2

(* Storing the output of an open call settles it. *)
LEMMA OutputSettles ==
  ASSUME TypeOK, AnsweredOnce, CallsOK, NEW a \in Agents, NEW c \in Open(a),
         StoreToolOutput(a, c)
  PROVE  /\ c \in AllIssued /\ Slots(c) = {} /\ AllIssued' = AllIssued
         /\ Slots(c)' = {Slot(a, Len(log[a]) + 1)}
         /\ \A d \in Calls \ {c} : Slots(d)' = Slots(d)
<1>1. c \in Calls /\ c \in Issued(a)
  BY DEF Open, Issued
<1>2. c \in AllIssued
  BY <1>1 DEF AllIssued
<1>3. \A x \in Agents : c \notin Answered(x)
  BY <1>1, AnsweredIssued DEF Open, CallsOK
<1>4. \A x \in Agents : Outputs(x, c) = {}
  BY <1>1, <1>3 DEF Answered, Outputs
<1>5. Slots(c) = {}
  BY <1>4 DEF Slots
<1>6. AllIssued' = AllIssued
  <2>1. \A x \in Agents : Issued(x)' = Issued(x)
    BY <1>1, OutputLog
  <2> QED
    BY <2>1 DEF AllIssued
<1>7. \A x \in Agents : Outputs(x, c)' = IF x = a THEN {Len(log[a]) + 1} ELSE {}
  BY <1>1, <1>4, OutputSlots
<1>8. Slots(c)' = {Slot(a, Len(log[a]) + 1)}
  BY <1>7 DEF Slots, Slot
<1>9. ASSUME NEW d \in Calls \ {c} PROVE Slots(d)' = Slots(d)
  <2>1. \A x \in Agents : Outputs(x, d)' = Outputs(x, d)
    BY <1>1, OutputSlots
  <2> QED
    BY <2>1 DEF Slots, Slot
<1> QED
  BY <1>2, <1>5, <1>6, <1>8, <1>9

(* Storing the calls of a response issues them. *)
LEMMA CallsIssue ==
  ASSUME TypeOK, NEW a \in Agents, NEW cs \in Batches, StoreCalls(a, cs)
  PROVE  /\ AllIssued \subseteq AllIssued' /\ AllIssued' \subseteq Calls
         /\ \A d \in Calls : Slots(d)' = Slots(d)
<1>1. \A x \in Agents : Issued(x) \subseteq Issued(x)' /\ Issued(x)' \subseteq Calls
  <2>1. \A x \in Agents : Issued(x) \subseteq Issued(x)'
    BY CallsLog
  <2>2. \A x \in Agents : Issued(x)' \subseteq Calls
    BY DEF Issued
  <2> QED
    BY <2>1, <2>2
<1>2. AllIssued \subseteq AllIssued' /\ AllIssued' \subseteq Calls
  BY <1>1 DEF AllIssued
<1>3. ASSUME NEW d \in Calls PROVE Slots(d)' = Slots(d)
  <2>1. \A x \in Agents : Outputs(x, d)' = Outputs(x, d)
    BY CallSlots
  <2> QED
    BY <2>1 DEF Slots, Slot
<1> QED
  BY <1>2, <1>3

(* The runner implements the call ledger: a call enters it once, gets one  *)
(* output at most, and the output stays where it was stored.               *)
THEOREM RunnerKeepsLedger == Spec => LedgerSpec
<1> DEFINE answers == [c \in Calls |-> Slots(c)]
<1>1. Init => Ledger!Init
  <2> SUFFICES ASSUME Init PROVE Ledger!Init
    OBVIOUS
  <2>1. \A a \in Agents : log[a] = <<>> /\ DOMAIN log[a] = {}
    BY DEF Init
  <2>2. AllIssued = {} /\ \A c \in Calls : Slots(c) = {}
    BY <2>1 DEF AllIssued, Slots, Outputs, Issued
  <2> QED
    BY <2>2 DEF Ledger!Init, AllIssued, Slots, Outputs
<1>2. Core /\ [Next]_vars => [Ledger!Next]_Ledger!vars
  <2> SUFFICES ASSUME Core, [Next]_vars PROVE [Ledger!Next]_Ledger!vars
    OBVIOUS
  <2>t. TypeOK /\ AnsweredOnce /\ CallsOK
    BY DEF Core
  <2>1. CASE log' = log
    <3>1. AllIssued' = AllIssued /\ answers' = answers
      BY <2>1 DEF AllIssued, Issued, Slots, Outputs
    <3> QED
      BY <3>1 DEF Ledger!vars, AllIssued, Slots, Outputs
  <2>2. ASSUME NEW a \in Agents, NEW c \in Open(a), StoreToolOutput(a, c)
        PROVE  Ledger!Next
    <3>1. /\ c \in AllIssued /\ Slots(c) = {} /\ AllIssued' = AllIssued
          /\ Slots(c)' = {Slot(a, Len(log[a]) + 1)}
          /\ \A d \in Calls \ {c} : Slots(d)' = Slots(d)
      BY <2>t, <2>2, OutputSettles
    <3>2. c \in Calls
      BY DEF Open, Issued
    <3>3. answers' = [answers EXCEPT ![c] = {Slot(a, Len(log[a]) + 1)}]
      BY <3>1, <3>2
    <3>4. Slot(a, Len(log[a]) + 1) \in answers'[c] /\ answers[c] = {}
      BY <3>1, <3>2
    <3>5. Ledger!Settle(c)
      BY <3>1, <3>3, <3>4 DEF Ledger!Settle, AllIssued, Slots, Outputs
    <3> QED
      BY <3>2, <3>5 DEF Ledger!Next
  <2>3. ASSUME NEW a \in Agents, NEW cs \in Batches, StoreCalls(a, cs)
        PROVE  Ledger!Next
    <3>1. /\ AllIssued \subseteq AllIssued' /\ AllIssued' \subseteq Calls
          /\ \A d \in Calls : Slots(d)' = Slots(d)
      BY <2>t, <2>3, CallsIssue
    <3>2. answers' = answers
      BY <3>1
    <3>3. Ledger!Issue
      BY <3>1, <3>2 DEF Ledger!Issue, AllIssued, Slots, Outputs
    <3> QED
      BY <3>3 DEF Ledger!Next
  <2> QED
    BY <2>1, <2>2, <2>3, LogSteps
<1> QED
  BY <1>1, <1>2, CoreAlways, PTL DEF Spec, LedgerSpec, Ledger!Spec
===============================================================================
