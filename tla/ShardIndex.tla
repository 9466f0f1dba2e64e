------------------------------ MODULE ShardIndex ------------------------------
(***************************************************************************)
(* The daemon's index (pkg/index/index.go): a SQLite table of the events   *)
(* of the live shards, and beside it cursors.json, which says for every    *)
(* shard how far it was read and (by a sha256) what was read.  An ingest   *)
(* resumes at its cursor when the shard still starts with those bytes and  *)
(* reconciles the whole shard otherwise; a pass over the directory ingests *)
(* every shard and sweeps the rows of shards that are gone.  The table and *)
(* the cursors are two files: a crash, an error or a change of the shard   *)
(* can come between any two steps.                                         *)
(*                                                                         *)
(* Abstractions.  A shard is the sequence of its complete event lines; an  *)
(* unterminated tail is not read by ingest, a malformed line makes no row. *)
(* A line is an event id and a version of its payload, an offset is a line *)
(* number, and the prefix hash is the prefix itself (sha256 is injective). *)
(* A shard is read in one step: it is only appended to in place, and a     *)
(* rewrite is a rename, which leaves an open file as it was.  The FTS      *)
(* table follows the rows by triggers and is left out.  i.mu is held from  *)
(* the start to the end of an ingest, and of a sweep: at most one `job'.   *)
(***************************************************************************)
EXTENDS Integers, Sequences, FiniteSets

CONSTANTS
  Paths,        \* the shard files, numbered in the order shard.List sorts them
  EnvOps,       \* what may happen to the shards, see EnvKinds
  Faults,       \* what may go wrong in the daemon, see FaultKinds
  MaxIds,       \* bound: events
  MaxChanges,   \* bound: changes of shards
  MaxFaults     \* bound: faults

(* "append"  a line is added (AppendLocked, or Syncthing brings new lines)  *)
(* "drop"    lines leave by a rewrite (compact)                             *)
(* "scrub"   a line's payload changes by a rewrite (redact-shard)           *)
(* "vanish"  the file is removed, and may come back                         *)
EnvKinds == {"append", "drop", "scrub", "vanish"}

(* "crash"   the daemon is killed and restarted by its supervisor           *)
(* "power"   the host goes down                                             *)
(* "io"      a transaction or a write of cursors.json fails                 *)
(* "dbgone"  index.db is deleted while the daemon is down (the runbook)     *)
(* "return"  a shard that was gone comes back in the middle of a sweep      *)
FaultKinds == {"crash", "power", "io", "dbgone", "return"}

ASSUME IndexAssumption ==
  /\ Paths \subseteq Nat \ {0}
  /\ EnvOps \subseteq EnvKinds
  /\ Faults \subseteq FaultKinds
  /\ MaxIds \in Nat /\ MaxChanges \in Nat /\ MaxFaults \in Nat

Ids == 1..MaxIds
Vers == {1, 2}          \* as first written, and scrubbed
Line == [id : Ids, ver : Vers]

\* A row of table events: the shard, the offset and the payload of an id.
Row == [path : Paths, off : Nat, ver : Vers]
NoRow == [path |-> 0, off |-> 0, ver |-> 0]

VARIABLES
  present,      \* the shards that exist
  content,      \* content[p]: the lines of shard p (what it had, if it is gone)
  rows,         \* rows[i]: the row of event i, or NoRow
  durable,      \* the rows a power failure cannot undo (last WAL checkpoint)
  cursors,      \* cursors[p]: the lines p's cursor has consumed; <<>> if none
  up,           \* the daemon is running
  job,          \* the holder of i.mu: an ingest or a sweep in progress
  pass,         \* the IngestDir in progress
  settled,      \* a pass without errors has ended, and nothing changed since
                \* it began (a history variable)
  born,         \* events written so far
  changes,      \* changes of shards so far
  faults        \* faults so far: their number, and which of the Hiding kinds

(* What can leave a cursor that hides lines: rows that fall back, and a     *)
(* shard that is swept and comes back.                                      *)
Hiding == {"power", "vanish"}

shards == <<present, content, born, changes>>
vars == <<present, content, rows, durable, cursors, up, job, pass, settled,
          born, changes, faults>>

NoJob == [who |-> "none", step |-> "idle", path |-> 0, snap |-> <<>>,
          start |-> 0, gone |-> {}]
NoPass == [on |-> FALSE, known |-> {}, todo |-> {}, good |-> FALSE]
NoCursors == [p \in Paths |-> <<>>]
NoRows == [i \in Ids |-> NoRow]

Init ==
  /\ present = {} /\ content = [p \in Paths |-> <<>>]
  /\ rows = NoRows /\ durable = NoRows /\ cursors = NoCursors
  /\ up = TRUE /\ job = NoJob /\ pass = NoPass
  /\ settled = FALSE
  /\ born = 0 /\ changes = 0 /\ faults = [n |-> 0, kinds |-> {}]

-------------------------------------------------------------------------------
(* The shards change. *)

Has(s, i) == \E k \in DOMAIN s : s[k].id = i

\* The last line of event i: later lines of an id overwrite its row.
LastAt(s, i) ==
  CHOOSE k \in DOMAIN s : s[k].id = i /\ \A n \in DOMAIN s : n > k => s[n].id # i

RowOf(s, p, i) == [path |-> p, off |-> LastAt(s, i), ver |-> s[LastAt(s, i)].ver]

\* s starts with c.
Matches(c, s) == Len(c) <= Len(s) /\ \A k \in 1..Len(c) : c[k] = s[k]

Fault(kind) ==
  /\ kind \in Faults /\ faults.n < MaxFaults
  /\ faults' = [n |-> faults.n + 1, kinds |-> faults.kinds \cup ({kind} \cap Hiding)]

Changed ==
  /\ changes < MaxChanges /\ changes' = changes + 1
  /\ settled' = FALSE
  /\ pass' = [pass EXCEPT !.good = FALSE]
  /\ UNCHANGED <<rows, durable, cursors, up, job>>

\* Every event has one line, in the shard of the host that wrote it.
AppendTo(p) ==
  /\ "append" \in EnvOps /\ born < MaxIds
  /\ born' = born + 1
  /\ present' = present \cup {p}
  /\ LET old == IF p \in present THEN content[p] ELSE <<>> IN
       content' = [content EXCEPT ![p] = Append(old, [id |-> born + 1, ver |-> 1])]
  /\ UNCHANGED faults
  /\ Changed

\* compact: timestamps need not follow the order of the lines, so any may go;
\* the others move towards the front and keep their order.
Drop(p) ==
  /\ "drop" \in EnvOps /\ p \in present
  /\ \E n \in 0..Len(content[p]) - 1 : \E from \in [1..n -> 1..Len(content[p])] :
       /\ \A k \in 1..n : k <= from[k] /\ \A m \in 1..n : k < m => from[k] < from[m]
       /\ content' = [content EXCEPT ![p] = [k \in 1..n |-> content[p][from[k]]]]
  /\ UNCHANGED <<present, born, faults>>
  /\ Changed

\* redact-shard.
ScrubLine(p, k) ==
  /\ "scrub" \in EnvOps /\ p \in present
  /\ k \in DOMAIN content[p] /\ content[p][k].ver = 1
  /\ content' = [content EXCEPT ![p][k].ver = 2]
  /\ UNCHANGED <<present, born, faults>>
  /\ Changed

Vanish(p) ==
  /\ "vanish" \in EnvOps /\ p \in present
  /\ present' = present \ {p}
  /\ faults' = [faults EXCEPT !.kinds = @ \cup {"vanish"}]
  /\ UNCHANGED <<content, born>>
  /\ Changed

\* The same file comes back (a synced folder is mounted again, say).
Return(p) ==
  /\ "vanish" \in EnvOps
  /\ p \in Paths \ present /\ content[p] # <<>>
  /\ \/ job.step # "delete" /\ UNCHANGED faults
     \/ job.step = "delete" /\ Fault("return")
  /\ present' = present \cup {p}
  /\ UNCHANGED <<content, born>>
  /\ Changed

-------------------------------------------------------------------------------
(* IngestJSONL. *)

(* Seeded bugs: definitions named ..Bug are variants of the definition that *)
(* follows them, each with one plausible mistake.  Nothing here uses them;  *)
(* substituted one at a time they show that the properties notice.          *)

\* The prefix is not compared: any cursor inside the file is resumed.
NoPrefixCheckBug(p) ==
  IF Len(cursors[p]) <= Len(content[p]) THEN Len(cursors[p]) ELSE 0

\* The last line is read again, also when there is none.
OverlapBug(p) == IF Matches(cursors[p], content[p]) THEN Len(cursors[p]) - 1 ELSE 0

\* Where an ingest of p starts reading: 0 is a full scan.
ResumeAt(p) == IF Matches(cursors[p], content[p]) THEN Len(cursors[p]) ELSE 0

\* A cursor at the end of an unchanged shard: nothing to do.
CaughtUp(p) == ResumeAt(p) > 0 /\ ResumeAt(p) = Len(content[p])

(* The cursors are loaded, the shard is opened, compared with its cursor    *)
(* and read; `who' is "dir" for a pass, "one" for watchSync or /push.       *)
Begin(who, p) ==
  /\ up /\ job = NoJob
  /\ p \in present /\ ~CaughtUp(p)
  /\ job' = [NoJob EXCEPT !.who = who, !.step = "commit", !.path = p,
                          !.snap = content[p], !.start = ResumeAt(p)]
  /\ UNCHANGED <<shards, rows, durable, cursors, up, pass, settled, faults>>

\* A full scan deletes nothing.
NoReconcileBug(j) ==
  [i \in Ids |->
     IF Has(j.snap, i) /\ LastAt(j.snap, i) > j.start
       THEN RowOf(j.snap, j.path, i)
       ELSE rows[i]]

(* The transaction: the lines read are upserted by id; a full scan deletes  *)
(* the rows of this shard it has not seen.                                  *)
Ingested(j) ==
  [i \in Ids |->
     IF Has(j.snap, i) /\ LastAt(j.snap, i) > j.start
       THEN RowOf(j.snap, j.path, i)
     ELSE IF j.start = 0 /\ rows[i].path = j.path
       THEN NoRow
     ELSE rows[i]]

\* IngestDir goes on to its next shard.
PassAfter(j, good) ==
  IF j.who = "dir"
    THEN [pass EXCEPT !.todo = @ \ {j.path}, !.good = @ /\ good]
    ELSE pass

\* The cursor is saved first, and the rows are committed after it.
CursorFirstBug ==
  /\ job.step = "commit"
  /\ cursors' = [cursors EXCEPT ![job.path] = job.snap]
  /\ IF "io" \in Faults
       THEN rows' \in {rows, Ingested(job)}
       ELSE rows' = Ingested(job)
  /\ job' = NoJob
  /\ pass' = PassAfter(job, TRUE)
  /\ UNCHANGED <<shards, durable, up, settled, faults>>

Commit ==
  /\ job.step = "commit"
  /\ rows' = Ingested(job)
  /\ job' = [job EXCEPT !.step = "save"]
  /\ UNCHANGED <<shards, durable, cursors, up, pass, settled, faults>>

\* saveCursors: temp file and rename.
SaveCursor ==
  /\ job.step = "save"
  /\ cursors' = [cursors EXCEPT ![job.path] = job.snap]
  /\ pass' = PassAfter(job, TRUE)
  /\ job' = NoJob
  /\ UNCHANGED <<shards, rows, durable, up, settled, faults>>

\* An error return that leaves i.mu locked.
KeepsMutexBug ==
  /\ Fault("io")
  /\ job.step \in {"commit", "save"}
  /\ pass' = PassAfter(job, FALSE)
  /\ job' = [job EXCEPT !.step = "idle"]
  /\ UNCHANGED <<shards, rows, durable, cursors, up, settled>>

\* The transaction is rolled back, or is committed and the cursor not saved.
IngestFails ==
  /\ Fault("io")
  /\ job.step \in {"commit", "save"}
  /\ pass' = PassAfter(job, FALSE)
  /\ job' = NoJob
  /\ UNCHANGED <<shards, rows, durable, cursors, up, settled>>

-------------------------------------------------------------------------------
(* IngestDir. *)

\* shard.List: the shards there are now.
PassStart ==
  /\ up /\ ~pass.on
  /\ pass' = [on |-> TRUE, known |-> present, todo |-> present, good |-> TRUE]
  /\ UNCHANGED <<shards, rows, durable, cursors, up, job, settled, faults>>

NextPath(p) == p \in pass.todo /\ \A q \in pass.todo : p <= q

PassIngest(p) == pass.on /\ NextPath(p) /\ Begin("dir", p)

\* The shard needs nothing, or is gone by now (an error; the loop goes on).
PassSkip(p) ==
  /\ up /\ pass.on /\ NextPath(p) /\ job = NoJob
  /\ p \notin present \/ CaughtUp(p)
  /\ pass' = [pass EXCEPT !.todo = @ \ {p}, !.good = @ /\ p \in present]
  /\ UNCHANGED <<shards, rows, durable, cursors, up, job, settled, faults>>

\* A shard that was not there when the pass listed them, nor is there now.
Missing(p) == p \notin pass.known /\ p \notin present

(* sweepVanished: which shards with rows are gone ...                       *)
SweepFind ==
  /\ up /\ pass.on /\ pass.todo = {} /\ job = NoJob
  /\ job' = [NoJob EXCEPT !.who = "dir", !.step = "delete",
               !.gone = {p \in Paths : (\E i \in Ids : rows[i].path = p) /\ Missing(p)}]
  /\ UNCHANGED <<shards, rows, durable, cursors, up, pass, settled, faults>>

(* ... their rows are deleted, one statement per shard ...                  *)
SweepDelete(p) ==
  /\ job.step = "delete" /\ p \in job.gone
  /\ rows' = [i \in Ids |-> IF rows[i].path = p THEN NoRow ELSE rows[i]]
  /\ job' = [job EXCEPT !.gone = @ \ {p}]
  /\ UNCHANGED <<shards, durable, cursors, up, pass, settled, faults>>

(* ... and the cursors of the shards that are gone are dropped.             *)
SweepCursors ==
  /\ job.step = "delete" /\ job.gone = {}
  /\ cursors' = [p \in Paths |-> IF Missing(p) THEN <<>> ELSE cursors[p]]
  /\ job' = NoJob /\ pass' = NoPass
  /\ settled' = pass.good
  /\ UNCHANGED <<shards, rows, durable, up, faults>>

SweepFails ==
  /\ Fault("io")
  /\ job.step = "delete"
  /\ job' = NoJob /\ pass' = NoPass
  /\ UNCHANGED <<shards, rows, durable, cursors, up, settled>>

-------------------------------------------------------------------------------
(* The daemon stops and starts. *)

Stop ==
  /\ up' = FALSE
  /\ job' = NoJob /\ pass' = NoPass
  /\ settled' = FALSE
  /\ UNCHANGED <<shards, durable>>

\* The process dies: what was committed, and the last cursors.json, remain.
Crash == Fault("crash") /\ up /\ Stop /\ UNCHANGED <<rows, cursors>>

(* The host dies.  With synchronous(NORMAL) a commit is not synced until    *)
(* the WAL is checkpointed, and cursors.json is renamed without a sync: the *)
(* rows fall back, cursors.json is there or is not readable.                *)
PowerLoss ==
  /\ Fault("power") /\ up
  /\ Stop
  /\ rows' = durable
  /\ cursors' \in {cursors, NoCursors}

Checkpoint ==
  /\ "power" \in Faults \ faults.kinds /\ faults.n < MaxFaults
  /\ durable # rows
  /\ durable' = rows
  /\ UNCHANGED <<shards, rows, cursors, up, job, pass, settled, faults>>

\* The runbook's "delete index.db and let it rebuild".
DeleteDB ==
  /\ Fault("dbgone") /\ ~up
  /\ rows' = NoRows /\ durable' = NoRows
  /\ UNCHANGED <<shards, cursors, up, job, pass, settled>>

\* The cursors are trusted whatever the table holds.
TrustCursorsBug == cursors

\* reconcileWithCursors: cursors that outlived the table are dropped.
Reconciled == IF rows = NoRows THEN NoCursors ELSE cursors

\* NewIndex.
Restart ==
  /\ ~up
  /\ up' = TRUE
  /\ cursors' = Reconciled
  /\ UNCHANGED <<shards, rows, durable, job, pass, settled, faults>>

-------------------------------------------------------------------------------
Change ==
  \E p \in Paths :
    \/ AppendTo(p)
    \/ Drop(p) \/ \E k \in 1..MaxIds : ScrubLine(p, k)
    \/ Vanish(p) \/ Return(p)

IngestStep == Commit \/ SaveCursor
PassStep ==
  \/ PassStart \/ SweepFind \/ SweepCursors
  \/ \E p \in Paths : PassIngest(p) \/ PassSkip(p) \/ SweepDelete(p)

Next ==
  \/ Change
  \/ \E p \in Paths : Begin("one", p)
  \/ IngestStep \/ IngestFails
  \/ PassStep \/ SweepFails
  \/ Crash \/ PowerLoss \/ Checkpoint \/ DeleteDB \/ Restart

Spec == Init /\ [][Next]_vars

(* The supervisor restarts the daemon, a goroutine that holds i.mu runs on, *)
(* and periodicRebuild's ticker starts a pass every 5 minutes, which gets   *)
(* i.mu sooner or later between the ingests of others (a Go mutex goes to a *)
(* waiter that has waited for 1 ms): strong fairness.                       *)
FairSpec ==
  Spec /\ WF_vars(Restart) /\ WF_vars(IngestStep) /\ SF_vars(PassStep)

-------------------------------------------------------------------------------
(* Properties. *)

TypeOK ==
  /\ present \subseteq Paths
  /\ content \in [Paths -> Seq(Line)]
  /\ rows \in [Ids -> Row \cup {NoRow}] /\ durable \in [Ids -> Row \cup {NoRow}]
  /\ cursors \in [Paths -> Seq(Line)]
  /\ up \in BOOLEAN /\ settled \in BOOLEAN
  /\ job \in [who : {"none", "one", "dir"}, step : {"idle", "commit", "save", "delete"},
              path : Paths \cup {0}, snap : Seq(Line), start : Nat,
              gone : SUBSET Paths]
  /\ pass \in [on : BOOLEAN, known : SUBSET Paths, todo : SUBSET Paths,
               good : BOOLEAN]
  /\ born \in Nat /\ changes \in Nat
  /\ faults \in [n : Nat, kinds : SUBSET Hiding]

(* What an index built from nothing over the same shards would hold: the    *)
(* shards in order, later lines and later shards overwriting.               *)
HasIn(p, i) == p \in present /\ Has(content[p], i)
Rebuilt ==
  [i \in Ids |->
     IF \E p \in Paths : HasIn(p, i)
       THEN LET p == CHOOSE q \in Paths : HasIn(q, i)
                                          /\ \A r \in Paths : HasIn(r, i) => r <= q
            IN RowOf(content[p], p, i)
       ELSE NoRow]

(* "An existing index always converges to what a fresh rebuild would        *)
(* produce" (README.md): after a pass that saw no error and no change, the  *)
(* table is what a rebuild would give.                                      *)
AlwaysConverged == settled => rows = Rebuilt

(* Where that is true: as long as nothing has failed, however the shards    *)
(* grow, shrink, are rewritten, go and come back between the steps of       *)
(* ingests and passes (pkg/index/index.go IngestJSONL, sweepVanished).      *)
Converged == faults.n = 0 => AlwaysConverged

(* The half of it that holds through crashes, errors and a deleted table    *)
(* (but not a power loss, or a shard that vanished): after such a pass      *)
(* every event of the shards has its row, at its place, with its present    *)
(* payload.                                                                 *)
Complete == \A i \in Ids : Rebuilt[i] # NoRow => rows[i] = Rebuilt[i]
NothingMissing == settled /\ faults.kinds = {} => Complete

(* Under the same condition a cursor that still matches its shard never     *)
(* hides a line: when nothing is running, each line under it has its row.   *)
CursorCovers ==
  job = NoJob /\ up /\ faults.kinds = {} =>
    \A p \in present : Matches(cursors[p], content[p]) =>
      \A k \in 1..Len(cursors[p]) :
        rows[content[p][k].id] = [path |-> p, off |-> k, ver |-> content[p][k].ver]

(* Changes come to an end, and then the index becomes and stays what a      *)
(* rebuild would give, when nothing has failed; after crashes, errors and a *)
(* deleted table it becomes and stays complete.  No interruption leaves a   *)
(* cursor that hides an event for ever, no error path keeps i.mu.           *)
EventuallyConverged ==
  <>[](/\ faults.n = 0 => rows = Rebuilt
       /\ faults.kinds = {} => Complete)
===============================================================================
