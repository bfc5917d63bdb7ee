----------------------------- MODULE MCRateLimit -----------------------------
(* RateLimit with a few clients, more than there may be buckets.           *)
EXTENDS RateLimit, TLC

Symmetry == Permutations(Clients)
=============================================================================
