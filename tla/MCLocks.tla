------------------------------ MODULE MCLocks ------------------------------
(***************************************************************************)
(* Locks for one agent with two sessions and a second agent, over two      *)
(* lock names.                                                             *)
(***************************************************************************)
EXTENDS Locks, TLC

CONSTANTS alice, bob, core, market

MCCallers == {<<alice, core>>, <<alice, market>>, <<bob, core>>}

(* Below the minimum and above the maximum. *)
MCTtlRequests == {-2, 3}

(* Lock names are interchangeable. *)
Symmetry == Permutations(Names)

(* ToldIsTrue is about the replies and the row of one lock, and what a      *)
(* session was told changes nothing that a statement does.  So while        *)
(* somebody holds a reply about a lock, only that lock has a row.           *)
Explored ==
  \A m, n \in Names :
    holder[m] # Nobody /\ (\E c \in Callers : told[c][n] # NoReply) => m = n
=============================================================================
