----------------------------- MODULE MCPushDaemon -----------------------------
(* Instances of PushDaemon for TLC. *)
EXTENDS PushDaemon, TLC

\* Pushed events, and the requests in flight, can be exchanged.
MCSymmetry == Permutations(Ids) \cup Permutations(Handlers)
===============================================================================
