------------------------------- MODULE MCRunner -------------------------------
(***************************************************************************)
(* An instance of Runner for TLC: a root and two children that may nest,   *)
(* and as many calls as a root, a child and a grandchild need to wait for  *)
(* one another.                                                            *)
(***************************************************************************)
EXTENDS Runner

===============================================================================
