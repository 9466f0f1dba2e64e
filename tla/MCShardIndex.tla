----------------------------- MODULE MCShardIndex -----------------------------
(* Instances of ShardIndex for TLC. *)
EXTENDS ShardIndex

\* Two shards.
MCPaths == 1..2
===============================================================================
