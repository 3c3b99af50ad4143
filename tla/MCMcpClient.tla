------------------------------ MODULE MCMcpClient ------------------------------
(***************************************************************************)
(* The instance of McpClient for TLC: MCMcpClient.cfg gives the constants. *)
(* No symmetry, because the run checks a liveness property too.            *)
(***************************************************************************)
EXTENDS McpClient

===============================================================================
