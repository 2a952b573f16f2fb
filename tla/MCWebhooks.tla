----------------------------- MODULE MCWebhooks -----------------------------
(***************************************************************************)
(* Two replicas and two hooks that both want an event of the team, which   *)
(* happens once, and a direct message, which they do not get.              *)
(***************************************************************************)
EXTENDS Webhooks, TLC

CONSTANTS r1, r2, e, dm, h1, h2

MCSubscriptions == {e, dm} \X {h1, h2}
MCBackoff == (1 :> 1) @@ (2 :> 2)
=============================================================================
