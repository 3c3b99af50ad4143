------------------------------- MODULE MCMemory -------------------------------
(***************************************************************************)
(* Instances of Memory for TLC.                                            *)
(***************************************************************************)
EXTENDS Memory, TLC

Symmetry == Permutations(Sessions) \union Permutations(Names) \union Permutations(Tasks)

(* Bound: two sessions share a memory, or one session uses two.  A third   *)
(* item comes to one session with one memory, and to one task at a time.   *)
Parties ==
  Cardinality({s \in Sessions : items[s] # <<>> \/ run.session = s})
    + Cardinality({n \in Names : memory[n] # {} \/ lost[n] # {} \/ run.name = n})
Busy    == Cardinality({t \in Tasks : task[t] # Idle})
Few     == IF last < 3 THEN Parties < 4 ELSE Parties < 3 /\ Busy < 2

(* Bound: one thing goes wrong at a time, until nothing is missing. *)
Failures ==
  Cardinality({n \in Names : lost[n] # {}}) + Cardinality(deleting)
    + Cardinality({t \in Tasks : task[t].blind})

Bounded == Few /\ Failures < 2

===============================================================================
