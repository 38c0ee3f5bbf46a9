------------------------- MODULE MCDistributedGraph -------------------------
(***************************************************************************)
(* Instance of DistributedGraph for TLC: two shards, one home to two nodes *)
(* and one to a third, so that edges within a shard and across the shards  *)
(* occur.  The two may be exchanged.                                       *)
(***************************************************************************)
EXTENDS DistributedGraph, TLC

CONSTANTS n1, n2, n3, hot, cold

MCHome == [n \in NodeId |-> IF n = n3 THEN 1 ELSE 0]

MCScore == [a \in Attr |-> IF a = hot THEN 2 ELSE 1]

(* The two nodes of one home.                                              *)
MCSymmetry == Permutations({n1, n2})
=============================================================================
