------------------------------ MODULE MCStreamRun ------------------------------
(***************************************************************************)
(* Instances of StreamRun for TLC.                                         *)
(***************************************************************************)
EXTENDS StreamRun

===============================================================================
