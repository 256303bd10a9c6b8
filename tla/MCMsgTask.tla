----------------------------- MODULE MCMsgTask -----------------------------
(* A message task with four messages and memory for three of them. *)
EXTENDS MsgTask
=============================================================================
