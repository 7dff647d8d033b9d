--------------------------- MODULE MCRateLimiter ---------------------------
(* Instances of RateLimiter for TLC; the cfgs name the sets. *)
EXTENDS RateLimiter, TLC

\* Requests are only ever compared for equality.
Symmetry == Permutations(Requests)
=============================================================================
