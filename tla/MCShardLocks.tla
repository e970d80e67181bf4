---------------------------- MODULE MCShardLocks ----------------------------
(* The two-key reads of the runs. *)
EXTENDS ShardLocks

AnyPair     == Shards \X Shards
RisingPairs == {p \in Shards \X Shards : p[1] < p[2]}
=============================================================================
