--------------------------- MODULE MCFireTracker ---------------------------
(* Instances of FireTracker for TLC: the sources are interchangeable.      *)
EXTENDS FireTracker, TLC

Symmetry == Permutations(Sources)
=============================================================================
