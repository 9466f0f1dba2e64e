---------------------------- MODULE MCWatcherSource ----------------------------
(* Instances of WatcherSource for TLC. *)
EXTENDS WatcherSource
===============================================================================
