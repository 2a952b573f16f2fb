------------------------------ MODULE MCAccess ------------------------------
(* Instance of Access for TLC: an issued token and one that never is. *)
EXTENDS Access, TLC
CONSTANTS k1, k2, a1
OneAgent == (k1 :> a1) @@ (k2 :> Nobody)
=============================================================================
