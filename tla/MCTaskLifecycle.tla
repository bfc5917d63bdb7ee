--------------------------- MODULE MCTaskLifecycle ---------------------------
(* TaskLifecycle with a few clients; requests are interchangeable.         *)
EXTENDS TaskLifecycle, TLC

ClientSymmetry == Permutations(Clients)
=============================================================================
