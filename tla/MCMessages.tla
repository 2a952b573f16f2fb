----------------------------- MODULE MCMessages -----------------------------
(***************************************************************************)
(* Two clients of one session of alice's read what bob posts, a channel    *)
(* message and a direct message to her session market: for their own       *)
(* session, across her sessions, and her direct messages alone.            *)
(***************************************************************************)
EXTENDS Messages, TLC

CONSTANTS alice, bob, shared, market, deploys, p1, p2, c1, c2

MCFrom == (p1 :> <<bob, shared>>) @@ (p2 :> <<bob, shared>>)
MCTo == (p1 :> deploys) @@ (p2 :> <<alice, market>>)
MCIdentity == (c1 :> <<alice, shared>>) @@ (c2 :> <<alice, shared>>)
MCViews == {<<"all", FALSE>>, <<"all", TRUE>>, <<"inbox", TRUE>>}
Symmetry == Permutations({c1, c2})
=============================================================================
