---------------------------- MODULE MCRetention ----------------------------
(* Instance of Retention for TLC.  A window of 4 days does not fit MaxDays. *)
EXTENDS Retention, TLC
Symmetry == Permutations(Calls) \union Permutations(Prunes)
=============================================================================
