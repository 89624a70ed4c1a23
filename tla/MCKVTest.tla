------------------------------ MODULE MCKVTest -------------------------------
(* Instances of KVTest for TLC.  The values of the store are lists, and the *)
(* states of a lock.                                                        *)
EXTENDS KVTest

StoredValues == Clerks \cup {Unlocked} \cup Seq([Id : Clerks, N : Nat])
==============================================================================
