----------------------------- MODULE MCHealthAlerts ----------------------------
(* Instances of HealthAlerts for TLC. *)
EXTENDS HealthAlerts

(* The jobs share nothing but the notifier: hosts with one of them each.    *)
MCSchedules == {{"heartbeat"}, {"master"}}
===============================================================================
