---------------------------- MODULE MCUsageRead ----------------------------
(* The accesses are alike, so they may be permuted. *)
EXTENDS UsageRead, TLC

Symmetry == Permutations(Accesses)
=============================================================================
