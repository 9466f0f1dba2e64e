---------------------------- MODULE MCShardWriters ----------------------------
(* Instances of ShardWriters for TLC. *)
EXTENDS ShardWriters

\* Three instants, the first two in one month.
MCMonthOf == [t \in Stamps |-> IF t <= 2 THEN 1 ELSE 2]
===============================================================================
