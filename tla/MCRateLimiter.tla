--------------------------- MODULE MCRateLimiter ---------------------------
(* Instance of RateLimiter for TLC; nothing tells two tokens apart. *)
EXTENDS RateLimiter, TLC
Symmetry == Permutations(Requests) \union Permutations(Keys)
=============================================================================
