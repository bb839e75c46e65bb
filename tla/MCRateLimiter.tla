--------------------------- MODULE MCRateLimiter ---------------------------
(***************************************************************************)
(* A small instance of RateLimiter for TLC: callers are interchangeable.   *)
(***************************************************************************)
EXTENDS RateLimiter, TLC

Callers == Permutations(Clients)
=============================================================================
