---------------------------- MODULE MCChatService ----------------------------
(***************************************************************************)
(* An instance of ChatService for TLC: two sessions, and requests enough   *)
(* for a run, a cancel of it and a message that comes in between.          *)
(***************************************************************************)
EXTENDS ChatService

===============================================================================
