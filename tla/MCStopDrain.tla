---------------------------- MODULE MCStopDrain ----------------------------
(* Instance of StopDrain for TLC. *)
EXTENDS StopDrain
=============================================================================
