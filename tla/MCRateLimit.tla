---------------------------- MODULE MCRateLimit ----------------------------
(* Two requests at a time of three principals, with room for two buckets.  *)
EXTENDS RateLimit, TLC

CONSTANTS r1, r2, p1, p2, p3

Symmetry == Permutations(Arrivals) \union Permutations({p2, p3})
=============================================================================
