------------------------------ MODULE MCTasks ------------------------------
(***************************************************************************)
(* Tasks on a small board: one agent with two sessions and a second agent, *)
(* so that a claim is contended by another person and by one's own other   *)
(* window.                                                                 *)
(***************************************************************************)
EXTENDS Tasks, TLC

CONSTANTS t1, t2, alice, bob, core, market, shared

MCCallers == {<<alice, core>>, <<alice, market>>, <<bob, shared>>}

(* Task keys are interchangeable, and so are alice's two sessions. *)
Symmetry == {p @@ q : p \in Permutations(Tasks), q \in Permutations({core, market})}

(* OneWorker is about the replies of one task, and what a session was told  *)
(* changes nothing that a statement does.  So a board with one task is      *)
(* explored with every reply, one with two as long as nobody holds a reply. *)
Explored ==
  \/ Cardinality(Existing) <= 1
  \/ \A c \in Callers, t \in Tasks : told[c][t] = NoReply
=============================================================================
