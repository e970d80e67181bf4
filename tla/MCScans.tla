------------------------------- MODULE MCScans -------------------------------
(* An instance of Scans: two keys share a shard, and a shard begins empty. *)
EXTENDS Scans

CONSTANTS k1, k2, k3

MCHome == [k \in Keys |-> IF k = k1 THEN 0 ELSE 2]
MCMatching == {k1, k2}
==============================================================================
