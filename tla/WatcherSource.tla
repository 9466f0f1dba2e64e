----------------------------- MODULE WatcherSource -----------------------------
(***************************************************************************)
(* One source of the activity watcher (cmd/activity-watcher/main.go        *)
(* watchSource): an event loop that debounces the changes it hears of,     *)
(* spends a budget of individual `activity-log emit' calls per window,     *)
(* counts what exceeds it into a rollup, and hands both to a worker        *)
(* through a bounded queue.  "the events past the budget must stay visible *)
(* as a rollup rather than vanish" (coalesce_test.go).                     *)
(*                                                                         *)
(* Abstractions.  What reaches `handle' is a change of a path that matches *)
(* the source; how it is heard of is WatcherTree.  Time is discrete and    *)
(* kept as ages: the debouncer's map holds, for each path, how long ago it *)
(* let a change through, capped where it makes no difference any more.     *)
(* The debouncer is shared by the sources, but its keys are not.           *)
(***************************************************************************)
EXTENDS Integers, Sequences

CONSTANTS
  Files,        \* the paths of this source
  Window,       \* the debounce window, in ticks
  Budget,       \* maxEmitsPerWindow
  QueueCap,     \* the capacity of emitCh
  MaxChanges    \* bound: changes that pass the debouncer

ASSUME WatcherAssumption ==
  /\ Window \in Nat \ {0} /\ Budget \in Nat \ {0} /\ QueueCap \in Nat \ {0}
  /\ MaxChanges \in Nat

(* A request to the worker stands for n changes: one that is reported by    *)
(* itself, or a rollup of n.                                                *)
Request == [n : Nat \ {0}, rollup : BOOLEAN]
Single == [n |-> 1, rollup |-> FALSE]
NoRequest == [n |-> 0, rollup |-> FALSE]

VARIABLES
  seen,         \* seen[f]: ticks since a change of f passed the debouncer
  left,         \* tokens left in the emit budget
  refilled,     \* ticks since the budget was refilled
  coalesced,    \* changes waiting for the next rollup
  queue,        \* emitCh
  hand,         \* the request the worker runs
  worker,       \* "idle", "busy", "refused" (no subprocess) or "exited"
  phase,        \* ticks since the rollup ticker last fired
  tick,         \* the rollup ticker's channel holds a tick
  ctx,          \* "live", or "done" after SIGTERM
  loop,         \* the event loop is "on", or has "returned"
  closed,       \* emitCh is closed
  passed,       \* changes let through by the debouncer so far
  ended,        \* changes whose emit ended: an event, or an error in the log
  lost,         \* changes of a rollup that found the queue full (in the log)
  recent,       \* recent[a]: single requests queued a ticks ago
  spawned       \* spawned[a]: subprocesses started for one a ticks ago

clock == <<seen, refilled, phase, tick>>
intake == <<left, coalesced, passed, lost>>
output == <<hand, worker, ended>>
life == <<ctx, loop, closed>>
vars == <<seen, left, refilled, coalesced, queue, hand, worker, phase, tick,
          ctx, loop, closed, passed, ended, lost, recent, spawned>>

Init ==
  /\ seen = [f \in Files |-> Window + 1]
  /\ left = Budget /\ refilled = Window
  /\ coalesced = 0 /\ queue = <<>> /\ hand = NoRequest /\ worker = "idle"
  /\ phase = 0 /\ tick = FALSE
  /\ ctx = "live" /\ loop = "on" /\ closed = FALSE
  /\ passed = 0 /\ ended = 0 /\ lost = 0
  /\ recent = [a \in 0..(Window - 1) |-> 0] /\ spawned = recent

-------------------------------------------------------------------------------
(* Seeded bugs: definitions named ..Bug are variants of the definition that *)
(* follows them, each with one plausible mistake.  Nothing here uses them;  *)
(* substituted one at a time they show that the properties notice.          *)

\* debouncer.hit refuses a change that comes within the window of another.
Debounced(f) == seen[f] <= Window

(* handle, called when the loop has heard of a change of f: it is          *)
(* suppressed ...                                                          *)
Suppress(f) ==
  /\ loop = "on" /\ Debounced(f)
  /\ UNCHANGED vars

(* ... or passes, and is reported alone or counted.                         *)
Pass(f) ==
  /\ loop = "on" /\ passed < MaxChanges /\ ~Debounced(f)
  /\ seen' = [seen EXCEPT ![f] = 0]
  /\ passed' = passed + 1
  /\ UNCHANGED <<phase, tick, spawned, lost, output, life>>

\* The budget is full at every look.
AlwaysDueBug == TRUE

\* emitBudget.take refills the bucket when it was last filled a window ago.
RefillDue == refilled >= Window
Tokens == IF RefillDue THEN Budget ELSE left
Refill == refilled' = IF RefillDue THEN 0 ELSE refilled

\* One request too many.
HasRoomBug == Len(queue) <= QueueCap

HasRoom == Len(queue) < QueueCap

\* A token and a place in the queue: the change is reported by itself.
Report(f) ==
  /\ Pass(f) /\ Refill
  /\ Tokens > 0 /\ left' = Tokens - 1
  /\ HasRoom /\ queue' = Append(queue, Single)
  /\ recent' = [recent EXCEPT ![0] = @ + 1]
  /\ UNCHANGED coalesced

\* Past the queue a change is dropped, as it was before rollups.
DropsWhenFullBug(f) ==
  /\ Pass(f) /\ Refill
  /\ \/ Tokens = 0 /\ left' = 0 /\ coalesced' = coalesced + 1
     \/ Tokens > 0 /\ left' = Tokens - 1 /\ ~HasRoom /\ UNCHANGED coalesced
  /\ UNCHANGED <<queue, recent>>

\* No token, or a token and no place: it is counted for the rollup.
Coalesce(f) ==
  /\ Pass(f) /\ Refill
  /\ \/ Tokens = 0 /\ left' = 0
     \/ Tokens > 0 /\ left' = Tokens - 1 /\ ~HasRoom
  /\ coalesced' = coalesced + 1
  /\ UNCHANGED <<queue, recent>>

\* The rollup ticker's channel holds at most one tick.
RollupIdle ==
  /\ loop = "on" /\ tick /\ coalesced = 0
  /\ tick' = FALSE
  /\ UNCHANGED <<seen, refilled, phase, recent, spawned, intake, queue, output, life>>

Rollup ==
  /\ loop = "on" /\ tick /\ coalesced > 0
  /\ tick' = FALSE
  /\ coalesced' = 0
  /\ \/ /\ HasRoom
        /\ queue' = Append(queue, [n |-> coalesced, rollup |-> TRUE])
        /\ UNCHANGED lost
     \/ ~HasRoom /\ lost' = lost + coalesced /\ UNCHANGED queue
  /\ UNCHANGED <<seen, refilled, phase, recent, spawned, left, passed, output, life>>

-------------------------------------------------------------------------------
(* The worker. *)

\* Under a cancelled context exec starts no subprocess.
WorkerTake ==
  /\ worker = "idle" /\ queue # <<>>
  /\ worker' = IF ctx = "live" THEN "busy" ELSE "refused"
  /\ hand' = Head(queue) /\ queue' = Tail(queue)
  /\ spawned' = IF ctx = "live" /\ hand' = Single
                   THEN [spawned EXCEPT ![0] = @ + 1] ELSE spawned
  /\ UNCHANGED <<clock, recent, intake, ended, life>>

Free == worker' = "idle" /\ hand' = NoRequest

\* The subprocess printed a ULID, whatever its exit.  Under a cancelled context
\* none is started, but one that runs may have printed its ULID already.
EmitSucceeds ==
  /\ worker = "busy"
  /\ ended' = ended + hand.n
  /\ Free
  /\ UNCHANGED <<clock, recent, spawned, intake, queue, life>>

\* Only a cancelled context ends an emit that hangs.
NoTimeoutBug ==
  /\ worker \in {"busy", "refused"} /\ ctx = "done"
  /\ ended' = ended + hand.n
  /\ Free
  /\ UNCHANGED <<clock, recent, spawned, intake, queue, life>>

\* It failed, ran into emitTimeout, or the context was cancelled: an error is
\* logged and the worker goes on.
EmitFails ==
  /\ worker \in {"busy", "refused"}
  /\ ended' = ended + hand.n
  /\ Free
  /\ UNCHANGED <<clock, recent, spawned, intake, queue, life>>

WorkerExit ==
  /\ worker = "idle" /\ queue = <<>> /\ closed
  /\ worker' = "exited"
  /\ UNCHANGED <<clock, recent, spawned, intake, queue, hand, ended, life>>

-------------------------------------------------------------------------------
(* Time and shutdown. *)

Min2(a, b) == IF a <= b THEN a ELSE b

Older(count) == [a \in DOMAIN count |-> IF a = 0 THEN 0 ELSE count[a - 1]]

Tick ==
  /\ seen' = [f \in Files |-> Min2(seen[f] + 1, Window + 1)]
  /\ refilled' = Min2(refilled + 1, Window)
  /\ phase' = (phase + 1) % Window
  /\ tick' = (tick \/ phase' = 0)
  /\ recent' = Older(recent) /\ spawned' = Older(spawned)
  /\ UNCHANGED <<intake, queue, output, life>>

\* SIGINT or SIGTERM.
Cancel ==
  /\ ctx = "live" /\ ctx' = "done"
  /\ UNCHANGED <<clock, recent, spawned, intake, queue, output, loop, closed>>

\* The event loop returns and nobody closes the queue.
NoCloseBug ==
  /\ loop = "on" /\ ctx = "done"
  /\ loop' = "returned"
  /\ UNCHANGED <<clock, recent, spawned, intake, queue, output, ctx, closed>>

(* ctx.Done is one of several ready cases of the select: it is taken some   *)
(* time.  The deferred close lets the worker finish what is queued.         *)
LoopReturns ==
  /\ loop = "on" /\ ctx = "done"
  /\ loop' = "returned" /\ closed' = TRUE
  /\ UNCHANGED <<clock, recent, spawned, intake, queue, output, ctx>>

-------------------------------------------------------------------------------
Handle(f) == Suppress(f) \/ Report(f) \/ Coalesce(f)

Next ==
  \/ \E f \in Files : Handle(f)
  \/ RollupIdle \/ Rollup
  \/ WorkerTake \/ EmitSucceeds \/ EmitFails \/ WorkerExit
  \/ Tick \/ Cancel \/ LoopReturns

Spec == Init /\ [][Next]_vars

(* Time passes, the select takes each of its ready cases in the end (Go     *)
(* chooses among them at random), and the worker's goroutine runs.  An emit *)
(* need not succeed: only emitTimeout, or its own failure, is certain.      *)
FairSpec ==
  /\ Spec
  /\ WF_vars(Tick) /\ SF_vars(RollupIdle \/ Rollup) /\ WF_vars(LoopReturns)
  /\ WF_vars(WorkerTake) /\ WF_vars(EmitFails) /\ WF_vars(WorkerExit)

-------------------------------------------------------------------------------
(* Properties. *)

TypeOK ==
  /\ seen \in [Files -> 0..(Window + 1)]
  /\ left \in 0..Budget /\ refilled \in 0..Window
  /\ coalesced \in Nat /\ queue \in Seq(Request) /\ Len(queue) <= QueueCap
  /\ hand \in Request \cup {NoRequest} /\ worker \in {"idle", "busy", "refused", "exited"}
  /\ phase \in 0..(Window - 1) /\ tick \in BOOLEAN
  /\ ctx \in {"live", "done"} /\ loop \in {"on", "returned"} /\ closed \in BOOLEAN
  /\ passed \in Nat
  /\ ended \in Nat /\ lost \in Nat
  /\ recent \in [0..(Window - 1) -> Nat] /\ spawned \in [0..(Window - 1) -> Nat]

(* A change that passed the debouncer is never dropped silently and never   *)
(* told twice: it waits -- alone, in a rollup, or for the next one -- or    *)
(* its emit ended, or the log counts it among those lost.  (sum[k]: the     *)
(* changes that the first k requests in the queue stand for.)               *)
Accounted ==
  \E sum \in [0..Len(queue) -> 0..passed] :
    /\ sum[0] = 0 /\ \A k \in 1..Len(queue) : sum[k] = sum[k - 1] + queue[k].n
    /\ passed = ended + lost + hand.n + sum[Len(queue)] + coalesced

(* A burst does not become "a subprocess storm" (main.go:436-440).  The     *)
(* bucket is refilled when the first change after a window comes, so a      *)
(* window that lies across a refill queues at most one request less than    *)
(* two budgets.  What is started may be more, after an emit that hung: all  *)
(* that waited, which is a queue at most, besides what was queued since     *)
(* then.  Neither keeps to the one budget of which the comment of           *)
(* maxEmitsPerWindow speaks.  (in[k], out[k]: the requests for one change   *)
(* that were queued, and the subprocesses started for one, in the last k    *)
(* ticks.)                                                                  *)
RateBound ==
  \E in, out \in [0..Window -> 0..(2 * Budget - 1 + QueueCap)] :
    /\ in[0] = 0 /\ \A k \in 1..Window : in[k] = in[k - 1] + recent[k - 1]
    /\ out[0] = 0 /\ \A k \in 1..Window : out[k] = out[k - 1] + spawned[k - 1]
    /\ in[Window] <= 2 * Budget - 1
    /\ \A k \in 0..Window : out[k] <= in[k] + QueueCap

(* Unless the watcher is stopped, no change waits for ever, however many of *)
(* the emits hang or fail: the rollup comes and the queue drains, so that   *)
(* each is told, or the log has an error of its emit or counts it as lost.  *)
(* That it is told is more than the code gives: a rollup that finds the     *)
(* queue full, or whose emit fails, is not tried again.                     *)
AllSettled == <>[](ctx = "done" \/ passed = ended + lost)

(* A stopped watcher ends: the worker runs the queue dry and exits.         *)
ShutdownEnds == ctx = "done" ~> worker = "exited"
===============================================================================
