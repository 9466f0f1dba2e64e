-------------------------------- MODULE MCParts --------------------------------
(* Four components that share nothing, and so need not be interleaved: a   *)
(* behaviour is one of the component that `part' names.                     *)
EXTENDS ClockSync, SpanRedaction, RouterBudget, DaemonWatch

VARIABLE part

MCErrors == {-1, 0, 3}
MCNames == {<<1>>, <<1, 1>>, <<2>>}

\* The first state of a component that does not run.
ClockAtRest ==
  /\ now = Start /\ error = 0 /\ steps = 0 /\ asleep = 0
  /\ sync = NoSync /\ cache = NoOffset /\ stamp = NoOffset
NothingToRedact ==
  /\ found = <<>> /\ next = 1 /\ merged = <<>> /\ pieces = <<>> /\ last = 0 /\ hits = 0
  /\ clean = <<>> /\ walked = {} /\ fields = <<>> /\ phase = "merging"
NothingToWatch ==
  /\ lines = [f \in Shards |-> 0] /\ indexed = lines
  /\ events = {} /\ pending = [f \in Shards |-> "no"]
  /\ watch = Off /\ troubles = 0 /\ excused = {}

Init ==
  \/ part = "clock"
     /\ ClockInit /\ NothingToRedact /\ RouterInit /\ NothingToWatch
  \/ part = "redact"
     /\ RedactInit /\ ClockAtRest /\ RouterInit /\ NothingToWatch
  \/ part = "router"
     /\ RouterInit /\ ClockAtRest /\ NothingToRedact /\ NothingToWatch
  \/ part = "watch"
     /\ WatchInit /\ ClockAtRest /\ NothingToRedact /\ RouterInit

Next ==
  /\ \/ part = "clock" /\ ClockNext /\ UNCHANGED <<redactVars, routerVars, watchVars>>
     \/ part = "redact" /\ RedactNext /\ UNCHANGED <<clockVars, routerVars, watchVars>>
     \/ part = "router" /\ RouterNext /\ UNCHANGED <<clockVars, redactVars, watchVars>>
     \/ part = "watch" /\ WatchNext /\ UNCHANGED <<clockVars, redactVars, routerVars>>
  /\ UNCHANGED part

Spec == Init /\ [][Next]_<<part, clockVars, redactVars, routerVars, watchVars>>
===============================================================================
