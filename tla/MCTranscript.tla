----------------------------- MODULE MCTranscript -----------------------------
(***************************************************************************)
(* An instance of Transcript for TLC: a root, one child.  Call ids are     *)
(* interchangeable: the code compares them for equality only.              *)
(***************************************************************************)
EXTENDS Transcript, TLC

Symmetry == Permutations(Calls)

===============================================================================
