--------------------------- MODULE MCRateLimiter ---------------------------
(* Small instances of the rate limiter for TLC. *)
EXTENDS RateLimiter, TLC

CONSTANTS k1, k2, c1, c2

MCSymmetry == Permutations({k1, k2}) \cup Permutations({c1, c2})
=============================================================================
