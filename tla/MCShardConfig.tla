---------------------------- MODULE MCShardConfig ----------------------------
(* An instance of ShardConfig for TLC. *)
EXTENDS ShardConfig
==============================================================================
