---------------------------- MODULE MCShardTrip ----------------------------
(***************************************************************************)
(* ShardTrip for TLC: blocks of two bytes, shards that end on a block and  *)
(* that do not, reads and chunks from less than a block to more than two.  *)
(***************************************************************************)
EXTENDS ShardTrip

=============================================================================
