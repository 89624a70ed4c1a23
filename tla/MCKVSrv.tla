------------------------------- MODULE MCKVSrv -------------------------------
(* Instances of KVSrv for TLC: clerks and values are interchangeable. *)
EXTENDS KVSrv, TLC

Symmetry == Permutations(Clerks) \cup Permutations(Values)
==============================================================================
