----------------------------- MODULE MCWatcherTree -----------------------------
(* Instances of WatcherTree for TLC. *)
EXTENDS WatcherTree
===============================================================================
