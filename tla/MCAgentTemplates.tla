--------------------------- MODULE MCAgentTemplates ---------------------------
(***************************************************************************)
(* An instance of AgentTemplates for TLC: the default agent and one agent  *)
(* of the user.  A description has a quote and a colon in it and a blank   *)
(* at its end, or is blank; a tool and a prompt have something to strip.   *)
(***************************************************************************)
EXTENDS AgentTemplates, TLC

ShippedText == [desc |-> <<"a">>, tools |-> <<<<"c">>, <<"f">>>>, prompt |-> <<"p">>]
PayloadSet == {[desc |-> <<Quote, ":", "a", "sp">>, tools |-> <<>>, prompt |-> <<"nl", "p">>],
               [desc |-> <<"sp">>, tools |-> <<<<"c", "sp">>>>, prompt |-> <<>>]}
Symmetry == Permutations(Requests) \union Permutations(Sessions)

===============================================================================
