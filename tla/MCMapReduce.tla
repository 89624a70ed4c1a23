----------------------------- MODULE MCMapReduce -----------------------------
(* Instances of MapReduce for TLC: interchangeable worker processes. *)
EXTENDS MapReduce, TLC

Symmetry == Permutations(Workers)
==============================================================================
