------------------------------ MODULE EventStore ------------------------------
(***************************************************************************)
(* What one host's event log promises its callers: an event that was       *)
(* acknowledged (the CLI printed its id, /push answered 200) is in the     *)
(* log, and the log never forgets an event.  Where an event is kept -- the *)
(* live shard, a monthly archive -- is not visible at this level.          *)
(***************************************************************************)
CONSTANT Ids            \* the identifiers (ULIDs) events can have

VARIABLES
  log,                  \* the ids of the events a reader can find
  acked                 \* the ids whose writer was told "done"

svars == <<log, acked>>

SInit == log = {} /\ acked = {}

\* An event becomes readable; its writer does not know it yet.
SWrite(i) == log' = log \cup {i} /\ UNCHANGED acked

\* Only a readable event is acknowledged.
SAck(i) == i \in log /\ acked' = acked \cup {i} /\ UNCHANGED log

SNext == \E i \in Ids : SWrite(i) \/ SAck(i)

SSpec == SInit /\ [][SNext]_svars
===============================================================================
