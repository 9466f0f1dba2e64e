------------------------------- MODULE DaemonWatch -------------------------------
(***************************************************************************)
(* How the daemon learns of new lines (server/main.go start, watchSync,    *)
(* periodicRebuild): after a first pass over the directory it watches it,  *)
(* notes every shard that changes in `pending', and at a tick ingests the  *)
(* ones that have been quiet for 150 ms; every five minutes a pass makes   *)
(* up for what the watch missed.                                           *)
(*                                                                         *)
(* Abstractions.  A shard is its number of lines, an ingest brings the     *)
(* index up to the lines it read (ShardIndex says why), and it is one step *)
(* to read and one to commit, under i.mu.  The events of a path that wait  *)
(* in fsnotify's queue are one.                                            *)
(***************************************************************************)
EXTENDS Naturals

CONSTANTS
  Shards,
  MaxLines,     \* bound: lines of a shard
  MaxTroubles   \* bound: failed ingests, lost events, failed watches, restarts

ASSUME WatchAssumption == MaxLines \in Nat \ {0} /\ MaxTroubles \in Nat

VARIABLES
  lines,        \* lines[f]: lines of the shard f
  indexed,      \* indexed[f]: how many of them the index has
  events,       \* the shards whose event waits in the queue
  pending,      \* pending[f]: "no", "fresh" (an event came), "quiet" (150 ms ago)
  watch,        \* [at, due: shards left in this tick, reading, read: the ingest]
  troubles,
  excused       \* history: changed where the watch could not see it

watchVars == <<lines, indexed, events, pending, watch, troubles, excused>>

Off == [at |-> "off", due |-> {}, reading |-> {}, read |-> 0]
Starting == [Off EXCEPT !.at = "starting"]

WatchInit ==
  /\ lines \in [Shards -> {0, MaxLines - 1}] /\ indexed = [f \in Shards |-> 0]
  /\ events = {} /\ pending = [f \in Shards |-> "no"]
  /\ watch = Starting /\ troubles = 0
  /\ excused = Shards

Trouble == troubles < MaxTroubles /\ troubles' = troubles + 1

\* A line is appended, or Syncthing brings one.
ShardGrows(f) ==
  /\ lines[f] < MaxLines
  /\ lines' = [lines EXCEPT ![f] = @ + 1]
  /\ IF watch.at \in {"starting", "off"}
       THEN excused' = excused \cup {f} /\ UNCHANGED events
       ELSE events' = events \cup {f} /\ UNCHANGED excused
  /\ UNCHANGED <<indexed, pending, watch, troubles>>

\* The first pass, and the periodic ones, get to the shard.
PassIngests(f) ==
  /\ watch.reading = {}
  /\ indexed' = [indexed EXCEPT ![f] = lines[f]]
  /\ excused' = excused \ {f}
  /\ UNCHANGED <<lines, events, pending, watch, troubles>>

\* The first pass has ended, well or not; w.Add.
Attach ==
  /\ watch.at = "starting"
  /\ watch' = [watch EXCEPT !.at = "select"]
  /\ UNCHANGED <<lines, indexed, events, pending, troubles, excused>>

AttachFails ==
  /\ watch.at = "starting" /\ Trouble
  /\ watch' = Off
  /\ UNCHANGED <<lines, indexed, events, pending, excused>>

Receive(f) ==
  /\ watch.at = "select" /\ f \in events
  /\ events' = events \ {f}
  /\ pending' = [pending EXCEPT ![f] = "fresh"]
  /\ UNCHANGED <<lines, indexed, watch, troubles, excused>>

Settles(f) ==
  /\ pending[f] = "fresh"
  /\ pending' = [pending EXCEPT ![f] = "quiet"]
  /\ UNCHANGED <<lines, indexed, events, watch, troubles, excused>>

Due == {f \in Shards : pending[f] = "quiet"}

WatchTick ==
  /\ watch.at = "select" /\ Due # {}
  /\ watch' = [watch EXCEPT !.at = "tick", !.due = Due]
  /\ UNCHANGED <<lines, indexed, events, pending, troubles, excused>>

\* The map is emptied at the end of a tick.
ForgetsAllBug(f) == Shards
Forgotten(f) == {f}

\* The next shard that is due: its entry is deleted, and it is read.
IngestReads(f) ==
  /\ watch.at = "tick" /\ watch.reading = {} /\ f \in watch.due
  /\ pending' = [g \in Shards |-> IF g \in Forgotten(f) THEN "no" ELSE pending[g]]
  /\ excused' = excused \ {f}
  /\ watch' = [watch EXCEPT !.due = @ \ {f}, !.reading = {f}, !.read = lines[f]]
  /\ UNCHANGED <<lines, indexed, events, troubles>>

AfterIngest ==
  [watch EXCEPT !.at = IF watch.due = {} THEN "select" ELSE "tick", !.reading = {}, !.read = 0]

IngestCommits(f) ==
  /\ f \in watch.reading
  /\ indexed' = [indexed EXCEPT ![f] = watch.read]
  /\ watch' = AfterIngest
  /\ UNCHANGED <<lines, events, pending, troubles, excused>>

\* It is logged and counted, and not tried again.
IngestErrs(f) ==
  /\ f \in watch.reading /\ Trouble
  /\ excused' = excused \cup {f}
  /\ watch' = AfterIngest
  /\ UNCHANGED <<lines, indexed, events, pending>>

\* The queue overflows: the error is logged.
EventsLost ==
  /\ events # {} /\ Trouble
  /\ \E lost \in SUBSET events \ {{}} :
       events' = events \ lost /\ excused' = excused \cup lost
  /\ UNCHANGED <<lines, indexed, pending, watch>>

\* The daemon stops or is killed, and comes back.
WatchRestarts ==
  /\ Trouble
  /\ watch' = Starting
  /\ events' = {} /\ pending' = [f \in Shards |-> "no"] /\ excused' = Shards
  /\ UNCHANGED <<lines, indexed>>

WatchNext ==
  \/ \E f \in Shards :
       \/ ShardGrows(f) \/ PassIngests(f) \/ Receive(f) \/ Settles(f)
       \/ IngestReads(f) \/ IngestCommits(f) \/ IngestErrs(f)
  \/ Attach \/ AttachFails \/ WatchTick \/ EventsLost \/ WatchRestarts

WatchSpec == WatchInit /\ [][WatchNext]_watchVars

-------------------------------------------------------------------------------
(* Properties. *)

Loop == [at : {"off", "starting", "select", "tick"}, due : SUBSET Shards,
         reading : SUBSET Shards, read : Nat]

WatchTypeOK ==
  /\ lines \in [Shards -> 0..MaxLines] /\ indexed \in [Shards -> Nat]
  /\ events \subseteq Shards /\ excused \subseteq Shards
  /\ pending \in [Shards -> {"no", "fresh", "quiet"}]
  /\ watch \in Loop
  /\ troubles \in 0..MaxTroubles

(* A line that is not in the index yet is on its way there: its shard has   *)
(* an event in the queue or an entry in `pending', or is just being read    *)
(* with it -- or the watch could not know: the line came before w.Add, its  *)
(* event was lost, its ingest failed, and the next pass has not come yet    *)
(* (main.go:136-157, 204-231).                                              *)
WatchRemembers ==
  \A f \in Shards :
    indexed[f] < lines[f] =>
      \/ f \in events \/ pending[f] # "no"
      \/ f \in watch.reading /\ watch.read = lines[f]
      \/ f \in excused
===============================================================================
