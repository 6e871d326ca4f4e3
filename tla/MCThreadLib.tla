----------------------------- MODULE MCThreadLib -----------------------------
(* Instances of the thread library for TLC. *)
EXTENDS ThreadLibProperties, TLC

Symmetry == Permutations(Threads)
=============================================================================
