# activity-mesh: TLA+ models, checks and proofs

`activity-mesh` is a history of what agents do on a handful of hosts. Each host
appends events to its own file, `events-<host>.jsonl` (a *shard*), in a folder
that Syncthing replicates; a daemon on each host keeps a SQLite index of all the
shards and serves it over HTTP; a watcher turns file changes into events; shell
scripts check the health of it all. This directory models the parts of that
system that write and that must agree with each other, model-checks them with
TLC, and proves what it can with TLAPS.

## 1. Inventory

| Component (source) | State it keeps | Operations | What is hard |
|---|---|---|---|
| **Shard write path** (`pkg/event/lock.go`, `event.go`, `audit.go`, `pkg/shard`, `cmd/activity-log/{main,compact,redact}.go`) | the shard, `seq-<host>` (number file and lock in one), monthly gzip archives, the redaction audit | `emit`, the locked part of `/push`, `compact`, `redact-shard` | separate processes; a rewrite races an append; failures and kills between the file operations; rollback of several archives |
| **Index** (`pkg/index`) | `events` table (WAL, synchronous NORMAL), `cursors.json` | ingest of one shard, pass over the directory, sweep of vanished shards, reconcile at start | two files updated one after the other; shards rewritten, vanishing, returning while they are read; crash, power loss, deleted database |
| **`POST /push`** (`server/main.go`) | `pushMu`, the request | validate, ingest, duplicate check, append, ingest, answer | retries, lost answers, concurrent handlers of one ULID, crash between append and index |
| **Shard watch** (`watchSync`) | map of pending paths | fsnotify event, 200 ms tick, ingest | entry forgotten before the ingest, no retry |
| **Activity watcher** (`cmd/activity-watcher`) | debounce map, token bucket, coalesced count, emit queue of 256 | file event, rollup tick, root removed and re-attached, shutdown | bounded queue, counts that must not be lost, watches of a replaced tree |
| **Registry gate** (`pkg/registry`) | YAML registries, synced and edited on any host | is this kind and scope writable | read file by file before the lock; damaged, absent or badly merged files |
| **Redaction** (`pkg/redact`) | rules | spans of a string, JSON walk | overlapping spans, keys that collide after redaction |
| **Clock sync** (`sntp.go`, `clockoffset.go`) | offset cache | SNTP exchange | arithmetic, era wrap, implausible answers |
| **Heartbeat, alerts** (`health/*.sh`) | strike, cooldown and alert files | hourly probe, alert, recovery | alert storms, lost alerts |
| **Prompt router hook** (`hooks/`) | per-session token counter | inject context within a budget | read-modify-write without lock |
| **refresh-caches** (`refreshscopes.go`) | scopes-cache, agents-cache | rewrite both from the registries | overlapping runs, one of the two written, registries edited meanwhile |
| **Query, status, read handlers** | none | read | see a consistent shard |
| **git hook, MCP wrapper, installers, weekly digest, health checks** | generated files | rewrite | pure I/O |

How they interact: every writer of a shard takes the `flock` on `seq-<host>`;
the daemon learns of writes only from the shard itself (fsnotify, a pass every
five minutes, and the two ingests of a push); the index never feeds back into a
shard, except that `/push` asks it whether a ULID is already written; other
hosts' shards change under the index without any lock.

What makes each component correct:

* *write path*: no acknowledged event is lost or doubled; sequence numbers are
  unique and increase along the shard; a rewrite never undoes another process's
  work; redactions are audited; the lock always comes back;
* *index*: it converges to what a rebuild from the shards would give;
* *push*: a ULID is appended once, a success is true and visible, a client that
  keeps trying is answered;
* *watcher*: every change becomes an event or is counted in a rollup;
* *heartbeat*: one alert per outage and cooldown, none lost after a recovery;
* *daemon's watch*: a changed shard is not forgotten before it is ingested;
* *registries*: no way past a gate that is shut; caches that follow;
* *redaction*: exactly what was found is cut, and no field is lost;
* *clock sync*: the offset stamped on events is right to half a round trip;
* *router*: a session gets no more than its budget.

The hazards this code is exposed to are listed, each at its line, in
`PROJECT.json`.

## 2. Modules

| Module | Models |
|---|---|
| `EventStore` | what one host's log promises: acknowledged events are in it, and it forgets none. Abstract; used twice as the target of a refinement. |
| `ShardWriters` | the write path, down to the single file operation |
| `ShardWritersProofs` | its theorems: types, exclusion, the order of the numbers, what becomes of each event |
| `ShardIndex` | the index: ingest, pass, sweep, restart |
| `ShardIndexProofs` | its theorems: types, cursors, convergence |
| `PushDaemon` | `/push` with its clients, the index and the CLI around it |
| `PushDaemonProofs` | its theorems: types, one copy, read your push, the event store |
| `WatcherSource` | one source of the watcher: debounce, budget, queue, rollup, worker, shutdown |
| `WatcherSourceProofs` | its theorems: types, the account of the changes, the rate |
| `WatcherTree` | how a recursive source hears of files while its tree changes |
| `WatcherTreeProofs` | its theorems: types, no echo |
| `HealthAlerts` | the heartbeat and the health run: state files, alerts, throttling |
| `HealthAlertsProofs` | its theorems: justified, told, throttled |
| `DaemonWatch` | the daemon's watch of the shards and its passes |
| `RegistryGate` | the registries, the gate in front of the host lock, refresh-caches |
| `RegistryGateProofs` | its theorems |
| `ClockSync` | the SNTP exchange and the cached offset |
| `SpanRedaction` | merging of spans and of keys in redaction |
| `RouterBudget` | the token budget of the prompt router |
| `PartsProofs` | the theorems of `ClockSync`, `DaemonWatch`, `RouterBudget` and `SpanRedaction`, each by itself |
| `MC...` | instances for TLC; `MCParts` explores `ClockSync`, `SpanRedaction`, `RouterBudget` and `DaemonWatch` side by side, not interleaved, as they share nothing |

### `ShardWriters`

A process is `idle`, `waiting` for the lock, or at a named point of its operation
(`locked`, `numbered`, `appended`, `released`, `audited`, `archiving`,
`rewriting`); `job[p]` holds the operation's local variables, among them the copy
of the shard a rewriter has read. Each action is one file operation with all its
outcomes: `NextSeq`/`NextSeqFails` store the number; `AppendLine`, `AppendGlued`,
`AppendFails` are `AppendLocked` with its newline healing; `ArchiveMonth` and
`ArchiveFails` are one turn of the loop over months and the rollback closure,
with what can go wrong inside it: `Statted` is `statArchive`, for which any error
means that there is no archive, and `Undone` a rollback whose ignored `Remove` or
`Truncate` failed;
`CompactRewrite` and `RedactRewrite` are the rename. `Crash` kills a process
anywhere: the kernel drops its lock and the write in progress may be cut short
(`PartialLine`, `TornMember`).

A file is a set of event lines with places, not a byte string: only the order of
lines matters. Lines that are no events are kept verbatim by both rewrites and
are left out, but the state of the end of the file is kept, because the next
append depends on it. `seq-<host>` may be emptied or overwritten in place
(`SeqFileDamaged`); nobody removes it, which would put the lock on another file
(`lock.go:32-36`). `emit` and `push` differ where the code does: the CLI's
deferred release comes after the audit, the daemon's explicit one before.
Sequence numbers are 64 bits in the code and unbounded here.

### `ShardIndex`

`content[p]` is the sequence of complete lines of shard `p`, `rows` the table,
`cursors` the consumed prefixes (a sha256 there, the prefix itself here), `job`
the ingest or sweep that holds `i.mu`, `pass` the `IngestDir` in progress. An
ingest is three steps: `Begin` (load the cursors, compare the prefix, read),
`Commit`, `SaveCursor`; the shard, the daemon and the host can change between
any two. The sweep is `SweepFind`, one `SweepDelete` per shard, `SweepCursors`.
`PowerLoss` returns the table to the last checkpoint; `DeleteDB` is the runbook's
repair. Two history variables serve the properties: `settled` says that a pass
without error has ended and no shard has changed since it began, `faults.kinds`
remembers a power loss and a vanished shard, without which no event goes missing. An event has one line, in the shard of its
host: `/push` refuses other hosts' events (`server/main.go:469`). `Drop(p)`, a
compaction, keeps any lines but not all, in their order: `from[k]` is the old place
of the k-th line that stays.

### `PushDaemon`

A handler walks through `handlePush` from `pushMu` on; clients send until they
are told. What the other two modules establish is used here in one step: an
ingest makes the rows those of the shard's complete lines (`ShardIndex`), a CLI
command works under the host lock (`ShardWriters`). A file is how many copies of
each line it has: nothing here depends on their order, and `Copies` counts the whole
lines, the archived ones and the one that lacks only its newline. `faults.kinds` remembers the
two faults that blind the duplicate check: a failed ingest, and a write that
stopped just before its newline.

### `WatcherSource`

`Handle(f)` is `handle` for a change of the path `f`: `Suppress`, `Report` or
`Coalesce`, by the debouncer, the budget and the room in the queue. `Rollup` and
`RollupIdle` are the ticker's case, `WorkerTake`, `EmitSucceeds`, `EmitFails`,
`WorkerExit` the goroutine that runs `activity-log emit` one at a time, `Cancel`
and `LoopReturns` the shutdown. Time is discrete: `seen[f]`, `refilled` and
`recent` hold ages in ticks, so that the debouncer's map and the time of the last
refill need no clock. `passed`, `ended`, `lost`, `recent` and `spawned` are history
variables for the properties: `ended` counts the changes whose emit came to an
end, an event or an error in the log, `lost` those the log calls lost, `recent`
the single requests queued and `spawned` the subprocesses started for one, by age.

### `WatcherTree`

The tree is a root with a file and one directory with a file, which stands for
what is beneath it as well. A directory is an
inode, since a watch follows the inode while `addTree` goes by path: between
`DirEvent` (the loop has seen the directory), `AddDir` and `AnnounceDir` the path
may come to mean another one. `Poll`, `AttachRoot`, `AttachTree`, `AttachDirs`,
`Swap`, `AnnounceRoot`, `AnnounceRest` are the re-attachment, and the tree changes
between any two of them. `MoveDirOut` moves the directory out of the root with the
directories beneath it, `MoveRootAway` the root itself; `out` and `away` are the
inodes concerned, where somebody may go on writing (`WriteElsewhere`). What
fsnotify does is external: events come in order, the watch of a directory that is
removed or moved is dropped, those of the directories beneath a moved one are not
and report under the old path. `due` holds the files written and not yet
reported, `deaf` says that the log names the directory as not watched. A path
component above the root that is replaced gives the root no event; as in the
code, nothing notices, and the model has no such step.

### `HealthAlerts`

`hb` and `run` say where each job is and what it has seen; `misses`, `alertAge`,
`lastSig` and `sigAge` are the files `heartbeat-misses`, `heartbeat-last-alert` and
`health-last-alert`, a time being kept as its age. A write leaves its value, an empty
file, which the scripts read as 0 or as no signature, or, if it cannot open the
file, what was there (`Stored`, `RunRecord`); an `rm` may fail (`AllClear`). The time
that is stored is the `now` a job took before it sent the alert: `since` is its
age. `HbKilled` and `RunKilled` end a job at any step. The wall clock is not stepped. `AlertOnce` is `alert_once`, `CheckCut` the
watchdog of `run_check`. `streak`, `sentAge`, `told` and `toldAge` are what
really happened, for the properties. A job is not started while it runs
(launchd); cron would start another one.

### `DaemonWatch`

`events` is fsnotify's queue, `pending[f]` the map of `watchSync`: an entry is
`fresh` until 150 ms have gone by (`Settles`), then a tick takes it (`WatchTick`),
deletes it and reads the shard (`IngestReads`), and commits (`IngestCommits`) or
not (`IngestErrs`). `PassIngests` is the first pass and the periodic ones. Lines
may come at any point: before `Attach`, during a tick, between the reading and
the commit. `excused` is a history variable: the shards that changed where the
watch could not see it, with no ingest begun since. What an ingest does inside is
`ShardIndex`; here the index has a number of the shard's lines.

### `RegistryGate`

A registry is absent, garbled, or a sequence of declarations (a name and a
status), so that a merge may declare a name twice. `CheckKind` and `CheckScope`
are the two halves of `EnforceEmit`, each of which reads its file anew; between
and after them the files are edited (`Declare`, `Restate`, `Strike`), damaged,
withdrawn and published. `open[w]` is a history variable: which of the gates have
been open on the disk since writer `w` began. It is computed from what the file
says (no declaration archives the scope), not from what `Loads` and
`CanEmitToScope` make of it. `ReadScopes`, `SaveScopes`, `ReadAgents`,
`SaveAgents` are a run of refresh-caches, and runs may overlap.

### `ClockSync`

Time is counted in ticks from NTP's epoch; `now` is true time and `error` how far
the local clock is off. `Wire` is `toNTP` followed by `fromNTP`: 32 bits of
seconds, read as era 0. `Request`, `ServerReceives`, `ServerAnswers`, `Accept`
are the four instants t1..t4, with time and steps of the clock in between;
`TryNext` stands for a refused answer as well as for none. The round trip is
monotonic, as in Go's `Sub`, and the offset is not. `Suspended` lets time pass while
the host sleeps and its monotonic clock stands still.

### `SpanRedaction`

`MergeSpan`, `WriteSpan` and `WalkField` are one turn each of the loops of
`mergeOverlapping`, `replaceSpans` and `walk`. Which spans are found, and what a
key becomes, is any choice. The reference definition is in the properties: a
position is cut if and only if some span covers it, and every field is there once.

### `RouterBudget`

`Prompt` reads the counter, `Answered` cuts the answer, `Empty` and `Counted` are
the two halves of `echo >`, `NotCounted` its failure, `Inject` the output. Hooks
of one session may overlap. `injected` is what the session really got, `spoiled`
counts the overlaps, lost counts and aged files.

## 3. Runs

Constants are small on purpose; the bound that matters is given with each run.

| Run | Shows | Bounds |
|---|---|---|
| `writers_faults` | `OnePlace`, `AuditTrue`, refinement of `EventStore`, `LockComesBack` with failing writes and an emptied sequence file; rollbacks succeed | 2 processes, 2 events in 2 months (one per archive, so the second archive can fail after the first), 2 faults |
| `writers_crash` | `SeqOrder`, `SeqUnique`, `NoLeakReturns`, `LeavesForArchive` with failing writes, stats and rollbacks, an unreadable tail and kills at any point | 2 processes, 2 events, 2 faults |
| `index` | `Converged` while nothing has failed; `NothingMissing`, `CursorCovers` through crashes, errors and a deleted database; `EventuallyConverged`: both for good in the end | 2 shards, 3 events, 4 changes, 2 faults (a deleted database takes both: it is deleted while the daemon is down) |
| `push` | `AppendedOnce`, `ReadYourPush`, refinement of `EventStore`, `EventuallyTold`, with compactions | 2 ULIDs, 2 handlers, 1 CLI command, 3 faults or retries of any kind |
| `watcher_source` | `Accounted`, `RateBound`, `AllSettled`, `ShutdownEnds` | 4 paths, each with one change (the debouncer lets a path through once per window, and `RateBound` speaks of up to twice the budget), budget 2, queue 1 (one more started than was queued), window of 2 ticks |
| `watcher_tree` | `EveryFileHeard`, `RootWatched`, `NoEcho` | 4 inodes (a root with a directory, replaced by another pair, or a directory or root replaced or moved out three times), 2 changes of files, 1 watch that cannot be added |
| `alerts` | `AlertJustified`, `OutageAlerted` (heartbeat); `NothingUntold`, `TroubleTold` (health run); `Throttled` (both) | 2 checks, threshold 2, windows of 2 ticks, 1 fault; one job per host, as the two share only the notifier |
| `registry` | `GateHolds`, `CachesConverge` | 1 writer (writers share nothing), 2 runs of refresh-caches (an older and a newer one), files of up to 2 declarations (a name declared twice), 3 edits (one before, between and after the two looks), 1 run that dies |
| `parts` | `OffsetBound` (`ClockSync`) | 2 servers; an era of 8 ticks that ends within the run; a clock 1 behind, right or 3 ahead, stepped once; suspended for up to 2 ticks; round trip up to 3, offset up to 2, so that both limits refuse something |
| | `RedactsExactly` (`SpanRedaction`) | 3 spans in a text of 4: apart, touching, nested, equal, overlapping in a row; 3 keys that become `1`, `1#1` or `2` |
| | `BudgetKept` (`RouterBudget`) | caps of 4 and 2, answers of up to 3, 6 prompts, 2 at a time, 2 things going wrong |
| | `WatchRemembers` (`DaemonWatch`) | 2 shards of up to 3 lines, 2 troubles |

`watcher_tree` does not check deadlock: the tree may stop changing, or its root
stay away, with nothing left for the loop to do. Nor does `parts`: a string or an
object that is redacted is done, and bounded clocks, prompts and lines end.

Two processes are enough for the write path because all its interleaving is about
one lock: a holder and one that reads or waits. Two events are enough to have
an older and a newer line, and two archives. In the index a shard interacts
with another only through the pass and the sweep, and each way for a cursor to
go wrong needs at most a line before it, a line after it and a replacement.
A duplicate append needs two handlers of one ULID.

Each property has a seeded bug (an operator named `..Bug` before the definition
it replaces) that makes its run fail; see `mutants` in `PROJECT.json`.

Violation runs state what a document or comment of the repository says and find
it wrong:

| Run | What happens |
|---|---|
| `writers_torn` | compact is killed inside a gzip member; `zcat` stops there, and everything archived later in that month is hidden (`README.md:110`, `compact.go:140`) |
| `index_power` | after a power loss the cursor is ahead of the rows for good (`README.md:130`) |
| `push_compacted` | a retry of an event that was archived meanwhile is appended again (`ARCHITECTURE.md:254`) |

### Known limits

The models can reach more states in which a property fails; they need a fault at
one particular point, and the passing runs leave out that fault, for that
property only. Each can be seen with TLC by adding the fault to the run named.

| Property | Is false after | Run to change |
|---|---|---|
| `OnePlace` | a kill between the archives and the rewrite (`compact.go:164`): the events are in both | `writers_faults`, `"crash"` |
| `OnePlace`, `ImplementsStore` | a rollback that fails, inside a member or after it (`compact.go:147`, `150`): events are in both places, or a broken member hides later ones | `writers_faults`, `"undo"` |
| `AuditTrue`, `ImplementsStore` | a `Stat` that fails, then a rollback: the whole archive, taken for a new one, is removed (`compact.go:146`, `178`) | `writers_faults`, `"stat"` |
| `AckedReadable` | an unreadable last byte of a torn shard (`shard.go:72`): the new event is glued to the fragment and its writer told it succeeded | `writers_torn`, `"io"` and `"tailread"`, 2 faults |
| `SeqOrder`, `SeqUnique` | a damaged sequence file: the numbers start again | `writers_crash`, `"seqfile"` |
| `AlwaysConverged` | a shard that returns between the two looks of the sweep (`index.go:528`, `549`), or after a sweep that failed half way: its cursor hides it | `index_power`, `"vanish"`, `"return"` or `"io"` |
| `AlwaysConverged` | a crash before `saveCursors`, then a compaction of just the lines after the cursor: their rows stay | `index_power`, `"drop"`, `"crash"` |
| `RetriedOnce` | the two ingests of a push both failing, or a first copy that lacks only its newline: the retry is not recognised | `push_compacted`, `MaxCli = 0`, `"ingest"` or `"short"`, 3 faults |

So `Converged` is premised on no fault so far, `NothingMissing` and `CursorCovers`
on no power loss and no vanished shard, `EventuallyConverged` has a half for each,
and `AppendedOnce` is premised on no archived event, no failed ingest and no short
write. All these happen in the runs; only what the property says after them is
weaker. `ReadYourPush` needs the ingest after the append to work, whose error the
code only logs.

`compact.go:138-141` says of the rollback that it returns "every touched archive" to
its size before the run; the two rows on it are where it does not. A `seq-<host>`
removed by hand while it is held would undo the exclusion itself, and with it every
property of the write path; the models have no such step.

`AllSettled` is premised on a watcher that is not stopped: at shutdown the count
for the next rollup is dropped and what is queued is refused, both without
another try. It does not say that each change is told. A rollup that finds the queue
full is given up, and the log says how many events are lost (`main.go:551-552`),
although the burst is to stay visible (`main.go:436-440`); and an emit that fails is
not tried again.

`RateBound` is weaker than the comment at `main.go:136-137`, by which
`maxEmitsPerWindow` bounds the subprocesses started in a window. Across a refill
a window queues up to two budgets less one, and after an emit that hung the worker
starts one after the other all that has waited: up to a whole queue (256 in the
code) more than the window queued.

`NoEcho` speaks of what left with a root, or had left it before. A directory moved
out of a root that stays echoes: the watches beneath it live on, and the loop asks
only whether the root itself went (`main.go:499`), so what changes there is
reported under a path that is no more. `EveryFileHeard` excuses a directory whose watch failed, which is not
tried again until the root is replaced. It supposes that no kernel queue
overflows: the loop logs that error and does not look for what it missed.

`AlertJustified` and `NothingUntold` except the faults after which they are false,
which all happen in the run. A heartbeat that saw the daemon answer, but is killed
while its `emit` waits, or cannot open the file to reset the count
(`dead-man-heartbeat.sh:93`), leaves the old count behind. A health run that is killed
between the alert and its record, cannot open the file for it (`master.sh:119`) or
cannot remove it at the all-clear (`162`) leaves an older set, which is suppressed if
it comes back within the window.
`Throttled` is about the decisions to alert and about runs in which nothing failed.
Both windows run from the `now` taken before the notification (`108`, `master.sh:111`):
the owner may get the next alert sooner than a window after this one, by as long as
this one took to be delivered.
`OutageAlerted` supposes that the host lock comes free: the heartbeat emits its
canary before it counts, and `emit` waits for the lock without a limit. On a disk
that stays full the count is always stored as an empty file, and the threshold is
never met.

`WatchRemembers` excuses what the watch cannot see: lines between the first pass
and `w.Add` (`main.go:141`, `192`), lost events, failed ingests. These wait for the
pass every five minutes, and so does a shard that is written more often than every
150 ms, whose entry stays fresh. It is a safety property: with the excuse alone
nothing follows about when the pass comes; `EventuallyConverged` says that it does.

`GateHolds` says that each gate was open at some moment since the writer began,
which is what a check without a lock can promise: a scope archived while an emit
waits for the host lock is still written to, and the two files may be seen at
different moments. An empty `scopes.yaml` declares nothing and shuts nothing, so
an editor that truncates the file before it writes it opens the gate for that
moment; and an absent file, by design, is no gate. `IsValidScope`, `Load` and the
lookups by name have no users outside the tests.

`CachesConverge` lets the agents' cache wait for a valid `scopes.yaml`: the run
ends at the first registry that does not load. The other way round, an invalid
`agents.yaml` is found after the scopes' cache has been rewritten, although the
command's help says "On registry read/parse failure the existing caches are left
untouched" (`refreshscopes.go:30`); the messages of the two halves speak of their
own cache only, which is what the model has.

`OffsetBound` speaks of the mean of the clock's error before and after the
exchange, so a clock stepped in the middle shifts the offset by half the step. It
also allows half the time of a suspend in the exchange: the monotonic clock stands
still then, so `maxSaneRTT` does not refuse the answer, and an offset that wrong is
stored although the clock was right before and after. An
exchange across the end of the era, or behind it, is refused as implausible: from
2036 on nothing is measured, and the cached offset stays as it was.

`BudgetKept` is not the cap itself: prompts that overlap, a count that cannot be
written and a counter that is deleted after two days let the session have up to
the cap once more, each.

### Fairness

* `ShardWriters`: a process that holds the lock is scheduled (`WF` on its steps).
  Nothing in them waits for another process. Who gets the lock is left open.
* `ShardIndex`: the supervisor restarts the daemon; a goroutine that holds `i.mu`
  runs on; the periodic pass, started by a ticker, gets `i.mu` although other
  ingests compete (`SF`: a Go mutex hands itself to a waiter of 1 ms). Watch
  events are *not* assumed to arrive: `watchSync` drops its entry before the
  ingest and does not retry.
* `PushDaemon`: handlers get `pushMu` and the lock if these are free again and
  again, a client keeps trying. Faults are bounded and never fair.

* `WatcherSource`: time passes, the worker's goroutine runs, and the `select`
  takes a case that is ready again and again (Go chooses at random: `SF` for the
  ticker). An emit need not succeed; that it ends is `emitTimeout`.
* `WatcherTree`: the loop runs on (`WF`); its `select` takes a poll timer that is
  due although events keep coming (`SF`).

* `HealthAlerts`: time passes, a started job runs on, the watchdog wakes up; the
  canary's `emit` gets the host lock if that is free again and again (`SF`).
  Neither the lock, nor the notifier, nor a check is assumed to be well.
* `RegistryGate`: the heartbeat starts refresh-caches every hour
  (`dead-man-heartbeat.sh:88`) and a run goes on (`WF` on its steps). It may die,
  `MaxKilled` times.
* `ClockSync`, `SpanRedaction`, `RouterBudget` and `DaemonWatch` have no liveness
  property and assume none. That the passes get round to every shard is
  `EventuallyConverged` of `ShardIndex`.

## 4. Proofs

`ShardWritersProofs` proves, for every set of processes, instants and months and
every bound:

* `TypeCorrect`: `Spec => []TypeOK`;
* `SeqOrderCorrect`: `Spec => []SeqOrder` unless `"seqfile"` is among the faults
  (an emptied sequence file restarts the numbers, so the property is false then).

The assumption is `WritersAssumption`. Neither property is inductive:

* `TypeOK` alone does not bound the size a failing compaction cuts an archive
  back to. `BaseInv` says that a recorded size is never beyond the archive, so
  the rollback yields a sequence of members again.
* `SeqOrder` says nothing of the event a process is about to append, nor of the
  copy a rewriter is about to put in place of the shard. `OrderInv` adds that no
  line lies beyond `end`, and that the number of the event in hand is stored on
  file and ahead of every number in the shard; `SnapInv` that the copy of a
  rewriter *is* the shard, nobody else having written since it was read. Both
  hold because of `LockInv`: whoever is inside the lock by its own account holds
  it, so there is at most one of them.

There is one lemma per invariant and, inside it, one step per action. TLC checks
the same properties in `writers_faults` and `writers_crash`.

Its second half proves what becomes of the events, for every value of the constants:

* `SeqUniqueCorrect`: `Spec => []SeqUnique` unless `"seqfile"` is among the faults;
* `LinesLeaveForArchive`: `Spec => LeavesForArchive`, whichever faults happen;
* `NoLeakComesBack`: `Spec => NoLeakReturns`, likewise;
* `AuditIsTrue`: `Spec => []AuditTrue` unless `"tailread"` or `"stat"` is;
* `EveryEventInOnePlace`: `Spec => []OnePlace` unless `"crash"` or `"undo"` is;
* `WritersImplementStore`: `Spec => ImplementsStore` unless one of these four is.

The hypotheses are those of "Known limits" and of the run `writers_torn`: with the
fault that is excluded TLC finds the property violated. All rest on one lemma about the files, `FromWhere`: what is on disk after a
step is a copy of what was there, perhaps scrubbed, or the event the process has in
hand. `UniqueInv` extends `OrderInv` from the shard to the archives, whose lines may
lie there twice but carry the number they had in the shard. `ArchInv` says of a
compaction under way that each line it will drop is archived or of a month still to
come, so nothing is lost when no month is left. `IdInv` says that an event that is
being written has an id nothing on disk and no other writer has, so the append of
an event with a leak cannot be taken for the return of one.

Three more invariants carry the rest. `RollInv` says of a compaction under way that
the last member of each month it has done is its own and is recorded with the size
before it (or with a smaller one, if the archive could not be statted), so a rollback
takes back these members and, unless `"stat"` is among the faults, no others; with
`ArchInv` it gives `DiskGrows`: no other step but a lost separator takes an event off
the disk. `FlightInv` and
`AuditInv` follow the event in hand through its append, audit row and answer: its
id is nobody else's and not yet acknowledged, it is on disk once handed over, and
its row is there before the answer while nothing has failed. `PlaceInv` keeps the
places apart: ids identify the lines of the shard, no two members share an event,
and a member shares events with the shard only if it is the last of a month that a
compaction now under way has done. That two months of one compaction do not share an event
is what the calendar gives. For the refinement, `WholeInv` (no broken member) makes
what `zcat` reads all there is, `DiskSteps` says that a step adds at most the id in
hand to the log, and `StoreSteps` maps every step to `SWrite`, `SAck` or a stutter.

`ShardIndexProofs` proves `TypesKept`, `CursorsCover` (`Spec => []CursorCovers`),
`NothingIsMissing` and `PassConverges` (`Spec => []Converged`), for any shards
and events, from `IndexAssumption`. None of them is inductive, because the table,
the cursor file and the shard change one after the other. The invariants relate
them: `CoverInv` that a cursor, also the one in the hands of an ingest, covers only
rows that are written; `FreshInv` that what a pass has done with a shard still
holds if the shard did not change since; `ExactInv` that, while nothing has
failed, no row is there without its line. A crash falls between any two steps.

`PushDaemonProofs` proves `TypesKept`, `PushedIsReadable` (`Spec => []ReadYourPush`),
`RetriesAppendOnce` (`Spec => []AppendedOnce`) and `PushImplementsStore`
(`Spec => ImplementsStore`, without any hypothesis on the faults), for any ULIDs and handlers,
from `PushAssumption`. What they need of the handlers is `MuInv`: who is past
`pushMu` by its own account is its holder. `OnceInv` adds to "at most one copy" that a
handler on its way to the append has a ULID no line carries, which the lookup
establishes and `pushMu` keeps, and `ReadInv` what a positive answer stands for.

`HealthAlertsProofs` proves `TypesKept`, `AlertsAreJustified`
(`Spec => []AlertJustified`), `NothingStaysUntold` (`Spec => NothingUntold`) and
`AlertsAreThrottled` (`Spec => Throttled`) for any checks, threshold, cooldown
and repeat window, from `AlertsAssumption`. `CountInv`: the count on file is never
ahead of the misses in a row, unless a job was killed or a count not cleared;
`TellInv`: the signature on file, if any, is what the owner was told last, unless an
older one was left there; `PaceInv`: while nothing has failed, the age on file is
that of the `now` at which the alert delivered last was decided on. Each names the
step between an alert and its record, where the file is behind.

`PartsProofs` proves, of the clock sync, `OffsetBoundHolds`, `ClockSpec => []OffsetBound`, for any
number of servers, any era, limits, delays and errors of the clock, from
`ClockAssumption`: no clock is off, and no host sleeps, by as much as an era less the accepted offset.
The inductive invariant `ClockInv` relates the timestamps of the exchange under way
to the true time: t1 is by the local clock, each of t2 and t3 is true time or true
time less an era, and an offset found is `Within` the bound; it keeps how long
the host had slept at t1, which the monotonic clock does not tell. The heart is
`AcceptedIsRight`: if the two wire times lost an era, or only t3 did, what comes
out is implausible and refused, and if neither did, half the round trip bounds the
error; `HalfBound` is what Go's division does.

`RegistryGateProofs` proves `TypesKept`, `Spec => []TypeOK`, and `GateAlwaysHolds`,
`Spec => []GateHolds`, from `GateAssumption`. `GateHolds` says nothing of a writer
between the two checks; the invariant adds that the gate it has passed was open,
and that the gates that are open now are among those seen open since it began. Two
lemmas tie the code's view to what the file says: a file that loads has no name
twice, so that its status for a scope is the only one declared.

Of the daemon's watch, `PartsProofs` proves `WatchForgetsNothing`, `WatchSpec => []WatchRemembers`,
for any set of shards. `WatchRemembers` is not inductive: when an ingest commits
what it read, lines may have come since. The invariant adds that the loop reads one
shard at a time and never more than it has, and that a shard with more lines than
were read is remembered otherwise (`IngestOK`).

Of the router, `PartsProofs` proves `BudgetIsKept`, `RouterSpec => []BudgetKept`,
from `RouterAssumption`: that finitely many hooks run at a time, and that the caps
are numbers. What the running hooks may still inject is `Owed`, counted as a set with
one element a token, so that a step of one hook changes it by what that hook owes
(`OwedMoves`) without a sum over the hooks. It is not enough that what is injected
and owed is granted: a hook that overwrites the file forgets what was written since
it read. `BudgetInv` says that one place holds a count not yet outrun: the file,
or one of the hooks that will still write it (its owner), whose answer then needs no
grant. Each overlap, lost count and aged file grants the cap once more, and pays for
a change of the owner that no write makes.

`WatcherSourceProofs` proves `SourceTypes`, `ChangesAccounted`
(`Spec => []Accounted`) and `RateBounded` (`Spec => []RateBound`) from
`WatcherAssumption`. Both properties say that running sums with some value exist, of
the requests in the queue and of the ticks of a window, so that the proof gives the
sums after a step from those before it (`AppendSums` and its companions) where a fold
would need an induction. `AccountInv` adds that the hand of an idle worker is empty.
`RateInv` says what bounds the rate: since the last refill no more single requests
were queued than tokens are gone, and that what was queued in the window that ends
where it was, or in the one now when the next is due, is at most a budget less one.
Of the subprocesses it says (`Behind`) that those started in the last ticks and the
single requests that still wait (`Singles`) are at most those queued in these ticks and a full
queue.

`WatcherTreeProofs` proves `TypesKept` and `NothingEchoes` (`Spec => []NoEcho`).
That nothing was echoed says nothing of the next step. `EchoInv` says of each
watcher that is in use, the loop's until it has read that its root went and the
fresh one of a re-attachment, that the event of its root's going comes before every
event of what went with it, and that without such an event it watches the root that
is there and no inode that left with another (`Alert`).

Of redaction, `PartsProofs` proves `RedactionIsExact`, `RedactSpec =>
[]RedactsExactly`, for any text, spans, keys and names, from `RedactionAssumption`.
`MergeInv` says that the merged spans lie apart and cover what the spans gone through
do, which a span that is merged keeps because none of those to come begins before it
(they are sorted); `WriteInv` that the pieces tell the truth up to the last span
written (`Tells`). `FreeNameIsFree` is the pigeonhole principle: of c + 1 numbers one
gives a name that is not among the c taken ones, so `CHOOSE` finds the first.

Only model-checked: liveness and `ENABLED`, which are out of the prover's reach. Every
safety and action property of the passing runs, and both refinements, are theorems.

## 5. Not modelled

Of redaction, the patterns, the entropy test and the allowlist are left out; they
are data. Of the router hook, how a prompt is matched to a query is left out, and of
refresh-caches the aliases. Of the health jobs, `alerts.log` with its rotation, the snapshot and what
the checks look at are left out. Of the watcher, the YAML configuration, the
patterns and the templates are left out. Query, status, MCP, installers, git hook,
digests and health checks only read, or write files nobody else depends on.
Windows locking (`flock_windows.go`) has the same contract as `flock`. The daemon
and the CLI resolve their directories independently; the models assume that they
agree, as the installers arrange.

## 6. What is left

1. `Mesh`: several hosts, replication that delays and reorders whole-file
   versions, remote indexes; single writer per shard implies no conflict copy.
2. Readers: `activity-log query` reads shards while they are rewritten.
