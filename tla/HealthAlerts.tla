----------------------------- MODULE HealthAlerts ------------------------------
(***************************************************************************)
(* The two jobs that tell the owner of a host what is wrong with it: the   *)
(* dead-man heartbeat (health/dead-man-heartbeat.sh), which asks the       *)
(* daemon for a sign of life, and the health run (health/master.sh), which *)
(* starts the checks of health/checks in parallel and reports them.  Each  *)
(* keeps small files between its runs: the misses in a row and the time of *)
(* the last alert; the signature and the time of the last alert.           *)
(*                                                                         *)
(* Abstractions.  Time is discrete; the scheduler starts a job once per    *)
(* tick and never while it runs (launchd), and the wall clock is not       *)
(* stepped.  A time is kept as its age, capped where it makes no           *)
(* difference any more.  What a check looks at is left out: it is fine,    *)
(* fails (tier 3) or hangs; one that warns is told like one that was       *)
(* stopped.  A kill is also a reboot.                                      *)
(***************************************************************************)
EXTENDS Integers

CONSTANTS
  Checks,       \* the scripts of health/checks
  Schedules,    \* the sets of jobs a host may have scheduled
  Threshold,    \* HEARTBEAT_THRESHOLD
  Cooldown,     \* HEARTBEAT_COOLDOWN, in ticks
  Repeat,       \* ACTIVITY_MESH_ALERT_REPEAT_S, in ticks
  MaxFaults     \* bound: jobs killed, files not written, results not combined

Jobs == {"heartbeat", "master"}

ASSUME AlertsAssumption ==
  /\ Schedules \subseteq SUBSET Jobs
  /\ Threshold \in Nat \ {0} /\ Cooldown \in Nat \ {0} /\ Repeat \in Nat \ {0}
  /\ MaxFaults \in Nat

(* A job is killed; a write opens its file and fails, which leaves it empty *)
(* ("write"); it cannot open it, which leaves what was there ("keep"); what *)
(* a good run clears -- the misses, the last alert -- stays ("uncleared");  *)
(* the results of the checks do not combine.                                *)
FaultKinds == {"kill", "write", "keep", "uncleared", "aggregation"}

Statuses == {"fine", "warn", "fail"}
Findings == {"fine", "fail", "hang"}   \* what a check does when it is run
NoResult == [c \in Checks |-> "pending"]

(* A signature lists the checks at tier 2 and above with their status.      *)
Unhealthy == {"warn", "fail"}
Signature == (SUBSET (Checks \X Unhealthy)) \cup {{<<"aggregation", "fail">>}}
Sig(got) == {<<c, got[c]>> : c \in {k \in Checks : got[k] # "fine"}}

VARIABLES
  jobs,         \* the jobs scheduled on this host
  due,          \* the jobs the scheduler is about to start
  daemon,       \* "up", "down", or "busy": no answer, under a high load
  stuck,        \* the host lock is held by a process that hangs
  state,        \* state[c]: what the check c finds, "hang" if it does not end
  reach,        \* notifications are delivered
  misses,       \* heartbeat-misses
  alertAge,     \* age of heartbeat-last-alert (Cooldown: none, or old)
  hb,           \* the heartbeat's run: where it is, what it saw, and the
                \* age of the `now` it compared and is to store
  lastSig,      \* health-last-alert: its signature, {} if there is none ...
  sigAge,       \* ... and its age
  run,          \* the health run: where it is, its results, the signature
                \* it sends and the age of the `now` to store
  streak,       \* conclusive misses in a row, as probed
  sentAge,      \* ticks since the heartbeat decided on the alert delivered last
  told,         \* the signature delivered last, {} after a run without one
  toldAge,      \* ticks since the health run decided to send it
  suffered,     \* the kinds of faults so far
  faults

world == <<jobs, daemon, stuck, state, reach>>
beat == <<misses, alertAge, hb, streak, sentAge>>
health == <<lastSig, sigAge, run, told, toldAge>>
vars == <<jobs, due, daemon, stuck, state, reach, misses, alertAge, hb, lastSig,
          sigAge, run, streak, sentAge, told, toldAge, suffered, faults>>

HbIdle == [at |-> "idle", saw |-> "none", since |-> 0]
RunIdle == [at |-> "idle", got |-> NoResult, sig |-> {}, since |-> 0]

Init ==
  /\ jobs \in Schedules /\ due = {}
  /\ daemon = "up" /\ stuck = FALSE /\ reach = TRUE
  /\ state = [c \in Checks |-> "fine"]
  /\ misses = 0 /\ alertAge = Cooldown /\ hb = HbIdle
  /\ lastSig = {} /\ sigAge = Repeat /\ run = RunIdle
  /\ streak = 0 /\ sentAge = Cooldown /\ told = {} /\ toldAge = Repeat
  /\ suffered = {} /\ faults = 0

Min2(a, b) == IF a <= b THEN a ELSE b

Suffers(kind) ==
  /\ faults < MaxFaults /\ faults' = faults + 1
  /\ suffered' = suffered \cup {kind}
NoFault == UNCHANGED <<suffered, faults>>

-------------------------------------------------------------------------------
(* The world: what nobody looks at does not change.                         *)

DaemonChanges(s) ==
  /\ "heartbeat" \in jobs /\ daemon' = s
  /\ UNCHANGED <<jobs, due, stuck, state, reach, beat, health, suffered, faults>>

LockChanges(s) ==
  /\ "heartbeat" \in jobs /\ stuck' = s
  /\ UNCHANGED <<jobs, due, daemon, state, reach, beat, health, suffered, faults>>

CheckChanges(c, s) ==
  /\ "master" \in jobs /\ state' = [state EXCEPT ![c] = s]
  /\ UNCHANGED <<jobs, due, daemon, stuck, reach, beat, health, suffered, faults>>

ReachChanges(s) ==
  /\ reach' = s
  /\ UNCHANGED <<jobs, due, daemon, stuck, state, beat, health, suffered, faults>>

\* The age of the `now` a job took before it sends.
Aged(job, window) ==
  IF job.at \in {"sending", "recording"}
    THEN [job EXCEPT !.since = Min2(@ + 1, window)] ELSE job

Tick ==
  /\ due' = jobs /\ hb' = Aged(hb, Cooldown) /\ run' = Aged(run, Repeat)
  /\ alertAge' = Min2(alertAge + 1, Cooldown)
  /\ sentAge' = Min2(sentAge + 1, Cooldown)
  /\ sigAge' = Min2(sigAge + 1, Repeat)
  /\ toldAge' = Min2(toldAge + 1, Repeat)
  /\ UNCHANGED <<world, misses, streak, lastSig, told, suffered, faults>>

-------------------------------------------------------------------------------
(* Seeded bugs: definitions named ..Bug are variants of the definition that *)
(* follows them, each with one plausible mistake.  Nothing here uses them;  *)
(* substituted one at a time they show that the properties notice.          *)

(* The heartbeat.                                                           *)

HbStep(from) == hb.at = from /\ UNCHANGED <<world, health>>
HbGoes(to) == hb' = [hb EXCEPT !.at = to]
HbEnds == hb' = HbIdle

HbStart ==
  /\ HbStep("idle") /\ "heartbeat" \in due
  /\ due' = due \ {"heartbeat"}
  /\ hb' = [HbIdle EXCEPT !.at = "emitting", !.saw = daemon]
  /\ streak' = CASE daemon = "up" -> 0
               [] daemon = "down" -> Min2(streak + 1, Threshold + 1)
               [] daemon = "busy" -> streak
  /\ UNCHANGED <<misses, alertAge, sentAge>> /\ NoFault

\* emit_canary, clock-sync and refresh-scopes: the first takes the host lock.
EmitCanary ==
  /\ HbStep("emitting") /\ ~stuck
  /\ HbGoes("counting")
  /\ UNCHANGED <<due, misses, alertAge, streak, sentAge>> /\ NoFault

\* What a write leaves behind: its value, an empty file, which reads as 0, or
\* what was there.
Stored(file, value, empty, kept) ==
  \/ file' = value /\ NoFault
  \/ file' = empty /\ Suffers("write")
  \/ file' = file /\ Suffers(kept)

CountOk ==
  /\ HbStep("counting") /\ hb.saw = "up"
  /\ Stored(misses, 0, 0, "uncleared") /\ HbEnds
  /\ UNCHANGED <<due, alertAge, streak, sentAge>>

\* A daemon that is slow on a busy machine is as good as dead.
BusyIsMissBug ==
  /\ HbStep("counting") /\ hb.saw = "busy"
  /\ misses' = Min2(misses + 1, Threshold + 1)
  /\ IF misses + 1 >= Threshold THEN HbGoes("sending") ELSE HbEnds
  /\ UNCHANGED <<due, alertAge, streak, sentAge>> /\ NoFault

CountBusy ==
  /\ HbStep("counting") /\ hb.saw = "busy"
  /\ HbEnds
  /\ UNCHANGED <<due, misses, alertAge, streak, sentAge>> /\ NoFault

\* Only the miss that meets the threshold is worth an alert.
ExactBug(n) == n = Threshold /\ alertAge >= Cooldown

Alerting(n) == n >= Threshold /\ alertAge >= Cooldown

CountMiss ==
  /\ HbStep("counting") /\ hb.saw = "down"
  /\ Stored(misses, Min2(misses + 1, Threshold + 1), 0, "keep")
  /\ IF Alerting(misses + 1) THEN HbGoes("sending") ELSE HbEnds
  /\ UNCHANGED <<due, alertAge, streak, sentAge>>

HbDeliver ==
  /\ HbStep("sending") /\ reach
  /\ sentAge' = hb.since /\ HbGoes("recording")
  /\ UNCHANGED <<due, misses, alertAge, streak>> /\ NoFault

HbUndelivered ==
  /\ HbStep("sending") /\ ~reach
  /\ HbEnds
  /\ UNCHANGED <<due, misses, alertAge, streak, sentAge>> /\ NoFault

\* The time of the first alert of an outage is kept.
KeepsFirstTimeBug ==
  /\ HbStep("recording")
  /\ HbEnds
  /\ UNCHANGED <<due, misses, alertAge, streak, sentAge>> /\ NoFault

HbRecord ==
  /\ HbStep("recording")
  /\ Stored(alertAge, hb.since, Cooldown, "keep")
  /\ HbEnds
  /\ UNCHANGED <<due, misses, streak, sentAge>>

HbKilled ==
  /\ hb # HbIdle /\ Suffers("kill")
  /\ HbEnds
  /\ UNCHANGED <<world, health, due, misses, alertAge, streak, sentAge>>

-------------------------------------------------------------------------------
(* The health run.                                                          *)

RunStep(from) == run.at = from /\ UNCHANGED <<world, beat>>
RunGoes(to) == run' = [run EXCEPT !.at = to]
RunEnds == run' = RunIdle

RunStart ==
  /\ RunStep("idle") /\ "master" \in due
  /\ due' = due \ {"master"}
  /\ RunGoes("checking")
  /\ UNCHANGED <<lastSig, sigAge, told, toldAge>> /\ NoFault

CheckEnds(c) ==
  /\ RunStep("checking") /\ run.got[c] = "pending" /\ state[c] # "hang"
  /\ run' = [run EXCEPT !.got[c] = state[c]]
  /\ UNCHANGED <<due, lastSig, sigAge, told, toldAge>> /\ NoFault

\* A check that was stopped has found nothing.
CutIsFineBug(c) ==
  /\ RunStep("checking") /\ run.got[c] = "pending"
  /\ run' = [run EXCEPT !.got[c] = "fine"]
  /\ UNCHANGED <<due, lastSig, sigAge, told, toldAge>> /\ NoFault

\* CHECK_TIMEOUT_S is over: the check is stopped and reported at tier 2,
\* though it may just have printed its line.
CheckCut(c) ==
  /\ RunStep("checking") /\ run.got[c] = "pending"
  /\ run' = [run EXCEPT !.got[c] = "warn"]
  /\ UNCHANGED <<due, lastSig, sigAge, told, toldAge>> /\ NoFault

Complete == \A c \in Checks : run.got[c] # "pending"

\* The last alert is remembered through a run without one.
KeepsSignatureBug ==
  /\ RunStep("checking") /\ Complete /\ Sig(run.got) = {}
  /\ told' = {}
  /\ RunEnds
  /\ UNCHANGED <<due, lastSig, sigAge, toldAge>> /\ NoFault

\* Nothing at tier 2 or above: health-last-alert is removed.
AllClear ==
  /\ RunStep("checking") /\ Complete /\ Sig(run.got) = {}
  /\ \/ lastSig' = {} /\ sigAge' = Repeat /\ NoFault
     \/ UNCHANGED <<lastSig, sigAge>> /\ Suffers("uncleared")
  /\ told' = {} /\ RunEnds
  /\ UNCHANGED <<due, toldAge>>

\* alert_once(sig).
AlertOnce(sig) ==
  IF sig = lastSig /\ sigAge < Repeat
    THEN RunEnds
    ELSE run' = [run EXCEPT !.at = "sending", !.sig = sig]

\* An alert goes out whatever the tiers are.
AnyTierBug ==
  /\ RunStep("checking") /\ Complete
  /\ AlertOnce(Sig(run.got))
  /\ UNCHANGED <<due, lastSig, sigAge, told, toldAge>> /\ NoFault

Report ==
  /\ RunStep("checking") /\ Complete /\ Sig(run.got) # {}
  /\ AlertOnce(Sig(run.got))
  /\ UNCHANGED <<due, lastSig, sigAge, told, toldAge>> /\ NoFault

\* The results do not combine (jq is missing): no snapshot, but an alert.
AggregationFails ==
  /\ RunStep("checking") /\ Complete
  /\ AlertOnce({<<"aggregation", "fail">>})
  /\ UNCHANGED <<due, lastSig, sigAge, told, toldAge>> /\ Suffers("aggregation")

RunDeliver ==
  /\ RunStep("sending") /\ reach
  /\ told' = run.sig /\ toldAge' = run.since
  /\ RunGoes("recording")
  /\ UNCHANGED <<due, lastSig, sigAge>> /\ NoFault

RunUndelivered ==
  /\ RunStep("sending") /\ ~reach
  /\ RunEnds
  /\ UNCHANGED <<due, lastSig, sigAge, told, toldAge>> /\ NoFault

RunRecord ==
  /\ RunStep("recording")
  /\ \/ lastSig' = run.sig /\ sigAge' = run.since /\ NoFault
     \/ lastSig' = {} /\ sigAge' = Repeat /\ Suffers("write")
     \/ UNCHANGED <<lastSig, sigAge>> /\ Suffers("keep")
  /\ RunEnds
  /\ UNCHANGED <<due, told, toldAge>>

RunKilled ==
  /\ run # RunIdle /\ Suffers("kill")
  /\ RunEnds
  /\ UNCHANGED <<world, beat, due, lastSig, sigAge, told, toldAge>>

-------------------------------------------------------------------------------
World ==
  \/ \E s \in {"up", "down", "busy"} : DaemonChanges(s)
  \/ \E s \in BOOLEAN : LockChanges(s) \/ ReachChanges(s)
  \/ \E c \in Checks, s \in Findings : CheckChanges(c, s)

HbWork ==
  \/ HbStart \/ CountOk \/ CountBusy \/ CountMiss
  \/ HbDeliver \/ HbUndelivered \/ HbRecord

RunWork ==
  \/ RunStart \/ \E c \in Checks : CheckEnds(c)
  \/ AllClear \/ Report \/ RunDeliver \/ RunUndelivered \/ RunRecord

Next ==
  \/ World \/ Tick
  \/ HbWork \/ EmitCanary \/ HbKilled
  \/ RunWork \/ AggregationFails \/ RunKilled
  \/ \E c \in Checks : CheckCut(c)

Spec == Init /\ [][Next]_vars

(* Time passes, a job that was started runs on unless it waits for the host *)
(* lock, and the watchdog of a check wakes up.  The lock need not come      *)
(* free, a check need not end, a notification need not be delivered.        *)
FairSpec ==
  /\ Spec /\ WF_vars(Tick)
  /\ WF_vars(HbWork) /\ SF_vars(EmitCanary)
  /\ WF_vars(RunWork) /\ \A c \in Checks : WF_vars(CheckCut(c))

-------------------------------------------------------------------------------
(* Properties.                                                              *)

TypeOK ==
  /\ jobs \in Schedules /\ due \subseteq jobs
  /\ daemon \in {"up", "down", "busy"} /\ stuck \in BOOLEAN /\ reach \in BOOLEAN
  /\ state \in [Checks -> Findings]
  /\ misses \in 0..(Threshold + 1) /\ alertAge \in 0..Cooldown
  /\ hb.at \in {"idle", "emitting", "counting", "sending", "recording"}
  /\ hb.saw \in {"none", "up", "down", "busy"} /\ hb.since \in 0..Cooldown
  /\ (hb.at = "idle" <=> hb = HbIdle)
  /\ lastSig \in Signature /\ sigAge \in 0..Repeat
  /\ (lastSig = {} => sigAge = Repeat)
  /\ run.at \in {"idle", "checking", "sending", "recording"}
  /\ run.got \in [Checks -> Statuses \cup {"pending"}]
  /\ run.sig \in Signature /\ run.since \in 0..Repeat
  /\ (run.at = "idle" <=> run = RunIdle)
  /\ (run.at \in {"sending", "recording"} <=> run.sig # {})
  /\ streak \in 0..(Threshold + 1) /\ sentAge \in 0..Cooldown
  /\ told \in Signature /\ toldAge \in 0..Repeat
  /\ suffered \subseteq FaultKinds /\ faults \in 0..MaxFaults

(* "After 3 misses in a row it sends a fail alert" (ARCHITECTURE.md): the   *)
(* heartbeat alerts only if the daemon was found dead that many times with  *)
(* no sign of life in between, unless a run that saw one was killed before  *)
(* it could count it, or could not open the file to clear the count.        *)
AlertJustified ==
  /\ hb.at \in {"sending", "recording"}
  /\ suffered \cap {"kill", "uncleared"} = {}
  => streak >= Threshold

(* A daemon that stays dead is reported, again and again, if only the host  *)
(* lock comes free and notifications get through in the end -- whatever     *)
(* failed before and however far the count went meanwhile.                  *)
OutageAlerted ==
  <>[]("heartbeat" \in jobs /\ daemon = "down" /\ ~stuck /\ reach)
    => []<>(hb.at = "recording")

(* "a different set goes out at once, and a run with nothing at tier 2 or   *)
(* above resets it": a health run keeps silent only if what it found is what *)
(* its owner was told last, also after records that left an empty file.  A  *)
(* kill between an alert and its record, a record whose file cannot be      *)
(* opened and a file that is not removed leave an older set behind.         *)
NothingUntold ==
  [][/\ run.at = "checking" /\ run' = RunIdle
     /\ suffered' \cap {"kill", "keep", "uncleared"} = {}
     => told' = Sig(run.got) \/ faults' # faults]_vars

(* "at most once an hour" and "the same set of tier >= 2 checks is sent at  *)
(* most once per" repeat window (ARCHITECTURE.md): while no fault happens,  *)
(* neither job decides to say what it said before within its window of its  *)
(* earlier decision, whatever it saw between.  Both windows run from the    *)
(* `now` taken before the notification, not from its delivery: the owner    *)
(* may get the next one sooner, by the time the first was on its way.       *)
Throttled ==
  [][/\ hb.at = "counting" /\ hb'.at = "sending" /\ suffered = {}
          => sentAge >= Cooldown
     /\ run.at = "checking" /\ run'.at = "sending" /\ run'.sig = told /\ suffered = {}
          => toldAge >= Repeat]_vars

(* A check that stays bad, or hangs for good, is told of in the end, though *)
(* other checks may change all the time.                                    *)
TroubleTold ==
  \A c \in Checks :
    <>[]("master" \in jobs /\ state[c] \in {"fail", "hang"} /\ reach)
      => <>[](\E s \in Unhealthy : <<c, s>> \in told)
===============================================================================
