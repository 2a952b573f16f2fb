----------------------------- MODULE MCUpdates -----------------------------
(***************************************************************************)
(* Alice's session core waits and asks her session market, which answers   *)
(* to the person and announces on another channel; bob posts in core's own *)
(* channel; a task changes.                                                *)
(***************************************************************************)
EXTENDS Updates, TLC

CONSTANTS alice, core, market, coreChannel, deploys, bob, q, a, n, b, t, c1

MCFrom == (q :> <<alice, core>>) @@ (a :> <<alice, market>>)
            @@ (n :> <<alice, market>>) @@ (b :> <<bob, core>>)
MCTo == (q :> <<alice, market>>) @@ (a :> <<alice, AnySession>>)
          @@ (n :> deploys) @@ (b :> coreChannel)
MCReplyTo == (q :> None) @@ (a :> q) @@ (n :> None) @@ (b :> None)
MCIdentity == (c1 :> <<alice, core>>)
MCHomeChannel == (c1 :> coreChannel)
MCKindFilters == {{"message"}, {"message", "other"}}
MCAskTo == (c1 :> <<alice, market>>)
MCQuestion == (c1 :> q)
=============================================================================
