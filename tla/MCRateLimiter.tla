--------------------------- MODULE MCRateLimiter ---------------------------
(* Instances of RateLimiter for TLC: the .cfg file gives the constants.      *)
EXTENDS RateLimiter, TLC

CONSTANTS c1, c2, r4

\* One request comes from another client than the others.
MCClientOf == [r \in Requests |-> IF r = r4 THEN c2 ELSE c1]

\* The requests of one client are interchangeable.
RequestSymmetry == Permutations(Requests \ {r4})
=============================================================================
