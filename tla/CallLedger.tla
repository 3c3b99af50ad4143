------------------------------ MODULE CallLedger ------------------------------
(***************************************************************************)
(* What the runner promises about tool calls, without agents, turns or     *)
(* waits: a call the model issues enters the ledger once, it is settled by *)
(* one output at most, and the slot that holds its output is never given   *)
(* up or written again.                                                    *)
(***************************************************************************)

CONSTANT Calls      \* the call ids a provider may produce

VARIABLES issued,   \* the calls that have been issued
          answer    \* for each call, the set of slots that hold an output for it

vars == <<issued, answer>>

Init ==
  /\ issued = {}
  /\ answer = [c \in Calls |-> {}]

(* A provider response issues new calls. *)
Issue ==
  /\ issued \subseteq issued'
  /\ issued' \subseteq Calls
  /\ UNCHANGED answer

(* An issued call that has no output yet gets its only one. *)
Settle(c) ==
  /\ c \in issued
  /\ answer[c] = {}
  /\ \E slot \in answer'[c] : answer' = [answer EXCEPT ![c] = {slot}]
  /\ UNCHANGED issued

Next == Issue \/ \E c \in Calls : Settle(c)

Spec == Init /\ [][Next]_vars

===============================================================================
