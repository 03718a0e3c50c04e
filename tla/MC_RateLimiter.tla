--------------------------- MODULE MC_RateLimiter ---------------------------
(* Two requests from two client connections. *)
EXTENDS RateLimiter, TLC
CONSTANTS r1, r2, c1, c2
MCRequests == {r1, r2}
MCAddrs == {c1, c2}
=============================================================================
