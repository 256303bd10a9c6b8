---------------------------- MODULE MCLocTimer -----------------------------
(* Two timers that are started three times between them. *)
EXTENDS LocTimer
=============================================================================
