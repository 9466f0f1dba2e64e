--------------------------- MODULE HealthAlertsProofs --------------------------
(***************************************************************************)
(* The alerts are justified and throttled and nothing new is kept quiet,   *)
(* proved for any checks, thresholds and windows and any number of faults. *)
(*                                                                         *)
(* The argument.  What is in a file follows what happened outside: without *)
(* a kill or a count left uncleared the misses are at most the streak as   *)
(* probed (CountInv); if no older signature was left behind either, the    *)
(* one on file, if there is one, is the one delivered last (TellInv); and  *)
(* without any fault the age on file is that of the decision to send what  *)
(* was delivered last (PaceInv) -- except between the two halves of a      *)
(* step, which each invariant names.                                       *)
(***************************************************************************)
EXTENDS HealthAlerts, TLAPS

HbType == [at : {"idle", "emitting", "counting", "sending", "recording"},
           saw : {"none", "up", "down", "busy"}, since : 0..Cooldown]
RunType == [at : {"idle", "checking", "sending", "recording"},
            got : [Checks -> Statuses \cup {"pending"}], sig : Signature,
            since : 0..Repeat]

Typed == TypeOK /\ hb \in HbType /\ run \in RunType

\* What a run has probed and not counted yet is in the streak already.
Probed(saw) == hb.at \in {"emitting", "counting"} /\ hb.saw = saw
CountInv ==
  suffered \cap {"kill", "uncleared"} = {} =>
    /\ misses <= streak \/ Probed("up")
    /\ Probed("down") => Min2(misses + 1, Threshold + 1) <= streak
    /\ hb.at \in {"sending", "recording"} => streak >= Threshold

\* Between the alert and its record the file holds the signature before.
TellInv ==
  suffered \cap {"kill", "keep", "uncleared"} = {} =>
    IF run.at = "recording" THEN told = run.sig ELSE lastSig # {} => told = lastSig

PaceInv ==
  suffered = {} =>
    /\ IF hb.at = "recording" THEN sentAge = hb.since ELSE alertAge = sentAge
    /\ run.at # "recording" => told = lastSig /\ (told # {} => sigAge = toldAge)
    /\ run.at = "recording" => told = run.sig /\ toldAge = run.since

-------------------------------------------------------------------------------
LEMMA Constants ==
  /\ Threshold \in Nat /\ Threshold > 0 /\ Cooldown \in Nat /\ Cooldown > 0
  /\ Repeat \in Nat /\ Repeat > 0 /\ MaxFaults \in Nat /\ Schedules \subseteq SUBSET Jobs
BY AlertsAssumption

LEMMA Min2Facts ==
  ASSUME NEW a \in Nat, NEW b \in Nat
  PROVE  /\ Min2(a, b) \in 0..b /\ Min2(a, b) <= a
         /\ Min2(a, b) = a \/ Min2(a, b) = b
         /\ b <= a => Min2(a, b) = b
BY DEF Min2

LEMMA IdleFacts ==
  /\ HbIdle \in HbType /\ HbIdle.at = "idle"
  /\ RunIdle \in RunType /\ RunIdle.at = "idle" /\ RunIdle.sig = {}
BY Constants DEF HbIdle, HbType, RunIdle, RunType, NoResult, Signature

LEMMA HbGoesEffect ==
  ASSUME hb \in HbType, NEW to \in {"counting", "sending", "recording"}, HbGoes(to)
  PROVE  hb' \in HbType /\ hb'.at = to /\ hb'.saw = hb.saw /\ hb'.since = hb.since
         /\ hb' # HbIdle
BY DEF HbType, HbGoes, HbIdle

LEMMA RunGoesEffect ==
  ASSUME run \in RunType, NEW to \in {"checking", "sending", "recording"}, RunGoes(to)
  PROVE  run' \in RunType /\ run'.at = to /\ run'.got = run.got /\ run'.sig = run.sig
         /\ run'.since = run.since /\ run' # RunIdle
BY DEF RunType, RunGoes, RunIdle

\* Time passes for a notification on its way.
LEMMA HbAged ==
  ASSUME hb \in HbType, hb' = Aged(hb, Cooldown)
  PROVE  /\ hb' \in HbType /\ hb'.at = hb.at /\ hb'.saw = hb.saw
         /\ hb.at \in {"sending", "recording"} => hb'.since = Min2(hb.since + 1, Cooldown)
         /\ hb.at \notin {"sending", "recording"} => hb' = hb
<1>1. CASE hb.at \in {"sending", "recording"}
  <2>1. hb' = [at |-> hb.at, saw |-> hb.saw, since |-> Min2(hb.since + 1, Cooldown)]
    BY <1>1 DEF Aged, HbType
  <2>2. Min2(hb.since + 1, Cooldown) \in 0..Cooldown
    BY Min2Facts, Constants DEF HbType
  <2>3. QED
    BY <1>1, <2>1, <2>2 DEF HbType
<1>2. CASE hb.at \notin {"sending", "recording"}
  BY <1>2 DEF Aged
<1>3. QED
  BY <1>1, <1>2

LEMMA RunAged ==
  ASSUME run \in RunType, run' = Aged(run, Repeat)
  PROVE  /\ run' \in RunType /\ run'.at = run.at /\ run'.sig = run.sig
         /\ run.at \in {"sending", "recording"} => run'.since = Min2(run.since + 1, Repeat)
         /\ run.at \notin {"sending", "recording"} => run' = run
<1>1. CASE run.at \in {"sending", "recording"}
  <2>1. run' = [at |-> run.at, got |-> run.got, sig |-> run.sig,
                since |-> Min2(run.since + 1, Repeat)]
    BY <1>1 DEF Aged, RunType
  <2>2. Min2(run.since + 1, Repeat) \in 0..Repeat
    BY Min2Facts, Constants DEF RunType
  <2>3. QED
    BY <1>1, <2>1, <2>2 DEF RunType
<1>2. CASE run.at \notin {"sending", "recording"}
  BY <1>2 DEF Aged
<1>3. QED
  BY <1>1, <1>2

LEMMA CheckEffect ==
  ASSUME run \in RunType, run.at = "checking", NEW c \in Checks, NEW s \in Statuses,
         run' = [run EXCEPT !.got[c] = s]
  PROVE  run' \in RunType /\ run'.at = "checking" /\ run'.sig = run.sig /\ run' # RunIdle
<1>1. run' = [at |-> run.at, got |-> [run.got EXCEPT ![c] = s], sig |-> run.sig,
               since |-> run.since]
  BY DEF RunType
<1>2. QED
  BY <1>1 DEF RunType, RunIdle

\* A complete set of results gives a signature.
LEMMA SigType ==
  ASSUME run \in RunType, Complete
  PROVE  Sig(run.got) \in Signature
<1>1. \A c \in Checks : run.got[c] \in Statuses
  BY DEF RunType, Complete
<1>2. Sig(run.got) \subseteq Checks \X Unhealthy
  BY <1>1 DEF Sig, Statuses, Unhealthy
<1>3. QED
  BY <1>2 DEF Signature

LEMMA AlertOnceEffect ==
  ASSUME run \in RunType, NEW sig \in Signature, sig # {}, AlertOnce(sig)
  PROVE  \/ run' = RunIdle /\ sig = lastSig /\ sigAge < Repeat
         \/ /\ run' \in RunType /\ run'.at = "sending" /\ run'.sig = sig /\ run' # RunIdle
            /\ ~(sig = lastSig /\ sigAge < Repeat)
<1>1. CASE sig = lastSig /\ sigAge < Repeat
  BY <1>1 DEF AlertOnce, RunEnds
<1>2. CASE ~(sig = lastSig /\ sigAge < Repeat)
  <2>1. run' = [at |-> "sending", got |-> run.got, sig |-> sig, since |-> run.since]
    BY <1>2 DEF AlertOnce, RunType
  <2>2. QED
    BY <1>2, <2>1 DEF RunType, RunIdle
<1>3. QED
  BY <1>1, <1>2

LEMMA FaultsCount ==
  ASSUME TypeOK, NEW kind, Suffers(kind)
  PROVE  kind \in suffered' /\ suffered' # {} /\ suffered \subseteq suffered'
         /\ faults' \in 0..MaxFaults /\ faults' # faults
BY Constants DEF TypeOK, Suffers

\* The faults a step may add.
LEMMA FaultsGrow ==
  ASSUME TypeOK, [Next]_vars
  PROVE  suffered \subseteq suffered' /\ suffered' \subseteq FaultKinds
         /\ faults' \in 0..MaxFaults
<1>1. NoFault \/ \E kind \in FaultKinds : Suffers(kind)
  BY DEF Next, vars, World, HbWork, RunWork, DaemonChanges, LockChanges, CheckChanges,
      ReachChanges, Tick, HbStart, EmitCanary, CountOk, CountBusy, CountMiss, HbDeliver,
      HbUndelivered, HbRecord, HbKilled, RunStart, CheckEnds, CheckCut, AllClear, Report,
      AggregationFails, RunDeliver, RunUndelivered, RunRecord, RunKilled, Stored, NoFault,
      FaultKinds
<1>2. CASE NoFault
  BY <1>2 DEF NoFault, TypeOK
<1>3. ASSUME NEW kind \in FaultKinds, Suffers(kind)
      PROVE  suffered \subseteq suffered' /\ suffered' \subseteq FaultKinds
             /\ faults' \in 0..MaxFaults
  BY <1>3, FaultsCount DEF Suffers, TypeOK
<1>4. QED
  BY <1>1, <1>2, <1>3

-------------------------------------------------------------------------------
(* Types. *)

LEMMA TypedInit == Init => Typed
<1>1. SUFFICES ASSUME Init PROVE Typed
  OBVIOUS
<1>2. hb \in HbType /\ run \in RunType
  BY <1>1, IdleFacts DEF Init
<1>3. {} \in Signature
  BY DEF Signature
<1>4. /\ jobs \in Schedules /\ due \subseteq jobs
      /\ daemon \in {"up", "down", "busy"} /\ stuck \in BOOLEAN /\ reach \in BOOLEAN
      /\ state \in [Checks -> Findings]
  BY <1>1 DEF Init, Findings
<1>5. /\ misses \in 0..(Threshold + 1) /\ alertAge \in 0..Cooldown
      /\ streak \in 0..(Threshold + 1) /\ sentAge \in 0..Cooldown
      /\ sigAge \in 0..Repeat /\ toldAge \in 0..Repeat /\ faults \in 0..MaxFaults
  BY <1>1, Constants DEF Init
<1>6. /\ hb = HbIdle /\ run = RunIdle /\ lastSig \in Signature /\ told \in Signature
      /\ sigAge = Repeat /\ suffered = {}
  BY <1>1, <1>3 DEF Init
<1>7. QED
  BY <1>2, <1>4, <1>5, <1>6, IdleFacts DEF Typed, TypeOK, HbType, RunType

LEMMA TypedStep == Typed /\ [Next]_vars => Typed'
<1> SUFFICES ASSUME Typed, [Next]_vars PROVE Typed'
  OBVIOUS
<1> USE Constants, IdleFacts
<1>a. TypeOK /\ hb \in HbType /\ run \in RunType
  BY DEF Typed
<1>b. suffered' \subseteq FaultKinds /\ faults' \in 0..MaxFaults
  BY <1>a, FaultsGrow
<1> DEFINE
      WorldOK == /\ jobs \in Schedules /\ due \subseteq jobs
                 /\ daemon \in {"up", "down", "busy"} /\ stuck \in BOOLEAN /\ reach \in BOOLEAN
                 /\ state \in [Checks -> Findings]
      BeatOK == /\ misses \in 0..(Threshold + 1) /\ alertAge \in 0..Cooldown
                /\ hb \in HbType /\ (hb.at = "idle" <=> hb = HbIdle)
                /\ streak \in 0..(Threshold + 1) /\ sentAge \in 0..Cooldown
      HealthOK == /\ lastSig \in Signature /\ sigAge \in 0..Repeat
                  /\ (lastSig = {} => sigAge = Repeat)
                  /\ run \in RunType /\ (run.at = "idle" <=> run = RunIdle)
                  /\ (run.at \in {"sending", "recording"} <=> run.sig # {})
                  /\ told \in Signature /\ toldAge \in 0..Repeat
<1>c. WorldOK /\ BeatOK /\ HealthOK
  BY <1>a DEF TypeOK
<1>d. ASSUME WorldOK', BeatOK', HealthOK' PROVE Typed'
  BY <1>b, <1>d DEF Typed, TypeOK, HbType, RunType
<1> SUFFICES WorldOK' /\ BeatOK' /\ HealthOK'
  BY <1>d
<1>e. ASSUME UNCHANGED beat PROVE BeatOK'
  BY <1>c, <1>e DEF beat
<1>f. ASSUME UNCHANGED health PROVE HealthOK'
  BY <1>c, <1>f DEF health
<1>g. ASSUME UNCHANGED world, due' \subseteq due PROVE WorldOK'
  BY <1>c, <1>g DEF world
<1>1. CASE World
  <2>1. WorldOK'
    BY <1>1, <1>c DEF World, DaemonChanges, LockChanges, CheckChanges, ReachChanges
  <2>2. UNCHANGED <<beat, health>>
    BY <1>1 DEF World, DaemonChanges, LockChanges, CheckChanges, ReachChanges
  <2>3. QED
    BY <2>1, <2>2, <1>e, <1>f
<1>2. CASE Tick
  <2>1. WorldOK'
    BY <1>2, <1>c DEF Tick, world
  <2>2. BeatOK'
    <3>1. alertAge' \in 0..Cooldown /\ sentAge' \in 0..Cooldown
      BY <1>2, <1>c, Min2Facts DEF Tick
    <3>2. hb' \in HbType /\ (hb'.at = "idle" <=> hb' = HbIdle)
      BY <1>2, <1>c, HbAged DEF Tick
    <3>3. QED
      BY <1>2, <1>c, <3>1, <3>2 DEF Tick
  <2>3. HealthOK'
    <3>0. run' \in RunType /\ (run'.at = "idle" <=> run' = RunIdle)
          /\ run'.at = run.at /\ run'.sig = run.sig
      BY <1>2, <1>c, RunAged DEF Tick
    <3>1. sigAge' \in 0..Repeat /\ toldAge' \in 0..Repeat /\ (sigAge = Repeat => sigAge' = Repeat)
      BY <1>2, <1>c, Min2Facts DEF Tick
    <3>2. QED
      BY <1>2, <1>c, <3>0, <3>1 DEF Tick
  <2>4. QED
    BY <2>1, <2>2, <2>3
<1>3. CASE HbStart
  <2>1. hb' = [at |-> "emitting", saw |-> daemon, since |-> 0] /\ UNCHANGED <<misses, alertAge, sentAge, world, health>>
        /\ due' \subseteq due
    BY <1>3 DEF HbStart, HbStep, HbIdle
  <2>2. hb' \in HbType /\ hb'.at = "emitting" /\ hb' # HbIdle
    BY <1>c, <2>1 DEF HbType, HbIdle
  <2>3. streak' \in 0..(Threshold + 1)
    BY <1>3, <1>c, Min2Facts DEF HbStart
  <2>4. QED
    BY <1>c, <1>f, <1>g, <2>1, <2>2, <2>3
<1>4. CASE EmitCanary \/ CountOk \/ CountBusy \/ HbDeliver \/ HbUndelivered \/ HbKilled
  <2>1. /\ UNCHANGED <<world, health, due, streak, alertAge>>
        /\ misses' \in {misses, 0} /\ sentAge' \in {sentAge, hb.since}
    BY <1>4 DEF EmitCanary, CountOk, CountBusy, HbDeliver, HbUndelivered, HbKilled, HbStep,
        Stored
  <2>2. HbEnds \/ \E to \in {"counting", "sending", "recording"} : HbGoes(to)
    BY <1>4 DEF EmitCanary, CountOk, CountBusy, HbDeliver, HbUndelivered, HbKilled
  <2>3. hb' \in HbType /\ (hb'.at = "idle" <=> hb' = HbIdle)
    BY <1>a, <2>2, HbGoesEffect DEF HbEnds
  <2>4. hb.since \in 0..Cooldown
    BY <1>a DEF HbType
  <2>5. QED
    BY <1>c, <1>f, <1>g, <2>1, <2>3, <2>4
<1>5. CASE CountMiss
  <2>1. /\ UNCHANGED <<world, health, due, streak, alertAge, sentAge>>
        /\ misses' \in {misses, Min2(misses + 1, Threshold + 1), 0}
    BY <1>5 DEF CountMiss, HbStep, Stored
  <2>2. HbEnds \/ HbGoes("sending")
    BY <1>5 DEF CountMiss
  <2>3. hb' \in HbType /\ (hb'.at = "idle" <=> hb' = HbIdle)
    BY <1>a, <2>2, HbGoesEffect DEF HbEnds
  <2>4. misses' \in 0..(Threshold + 1)
    BY <1>c, <2>1, Min2Facts
  <2>5. QED
    BY <1>c, <1>f, <1>g, <2>1, <2>3, <2>4
<1>6. CASE HbRecord
  <2>1. /\ UNCHANGED <<world, health, due, misses, streak, sentAge>> /\ hb' = HbIdle
        /\ alertAge' \in {alertAge, hb.since, Cooldown}
    BY <1>6 DEF HbRecord, HbStep, Stored, HbEnds
  <2>2. hb.since \in 0..Cooldown
    BY <1>a DEF HbType
  <2>3. QED
    BY <1>c, <1>f, <1>g, <2>1, <2>2
<1>7. CASE RunStart
  <2>1. /\ run = RunIdle /\ RunGoes("checking") /\ due' \subseteq due
        /\ UNCHANGED <<world, beat, lastSig, sigAge, told, toldAge>>
    BY <1>7, <1>c DEF RunStart, RunStep
  <2>2. QED
    BY <1>a, <1>c, <1>e, <1>g, <2>1, RunGoesEffect
<1>8. ASSUME NEW c \in Checks, CheckEnds(c) \/ CheckCut(c) PROVE WorldOK' /\ BeatOK' /\ HealthOK'
  <2>1. /\ run.at = "checking" /\ UNCHANGED <<world, beat, due, lastSig, sigAge, told, toldAge>>
        /\ \E s \in Statuses : run' = [run EXCEPT !.got[c] = s]
    BY <1>8, <1>c DEF CheckEnds, CheckCut, RunStep, Statuses, Findings
  <2>2. run' \in RunType /\ run'.at = "checking" /\ run'.sig = run.sig /\ run' # RunIdle
    BY <1>a, <2>1, CheckEffect
  <2>3. QED
    BY <1>c, <1>e, <1>g, <2>1, <2>2
<1>9. CASE AllClear \/ RunUndelivered \/ RunKilled
  <2>1. /\ UNCHANGED <<world, beat, due, toldAge>> /\ run' = RunIdle
        /\ \/ UNCHANGED <<lastSig, sigAge, told>>
           \/ lastSig' = {} /\ sigAge' = Repeat /\ told' = {}
           \/ UNCHANGED <<lastSig, sigAge>> /\ told' = {}
    BY <1>9 DEF AllClear, RunUndelivered, RunKilled, RunStep, RunEnds
  <2>2. HealthOK'
    <3>1. {} \in Signature /\ run' \in RunType /\ run'.at = "idle" /\ run'.sig = {}
      BY <2>1 DEF Signature
    <3>2. CASE UNCHANGED <<lastSig, sigAge, told>>
      BY <1>c, <2>1, <3>1, <3>2
    <3>3. CASE lastSig' = {} /\ sigAge' = Repeat /\ told' = {}
      BY <1>c, <2>1, <3>1, <3>3
    <3>4. CASE UNCHANGED <<lastSig, sigAge>> /\ told' = {}
      BY <1>c, <2>1, <3>1, <3>4
    <3>5. QED
      BY <2>1, <3>2, <3>3, <3>4
  <2>3. QED
    BY <1>c, <1>e, <1>g, <2>1, <2>2
<1>10. CASE Report \/ AggregationFails
  <2>1. /\ UNCHANGED <<world, beat, due, lastSig, sigAge, told, toldAge>>
        /\ \E sig : sig # {} /\ sig \in Signature /\ AlertOnce(sig)
    <3>1. CASE Report
      BY <1>a, <3>1, SigType DEF Report, RunStep
    <3>2. CASE AggregationFails
      <4>1. {<<"aggregation", "fail">>} # {} /\ {<<"aggregation", "fail">>} \in Signature
        BY DEF Signature
      <4>2. QED
        BY <3>2, <4>1 DEF AggregationFails, RunStep
    <3>3. QED
      BY <1>10, <3>1, <3>2
  <2>2. run' \in RunType /\ (run'.at = "idle" <=> run' = RunIdle)
        /\ (run'.at \in {"sending", "recording"} <=> run'.sig # {})
    BY <1>a, <2>1, AlertOnceEffect
  <2>3. QED
    BY <1>c, <1>e, <1>g, <2>1, <2>2
<1>11. CASE RunDeliver
  <2>1. /\ run.at = "sending" /\ UNCHANGED <<world, beat, due, lastSig, sigAge>>
        /\ told' = run.sig /\ toldAge' = run.since /\ RunGoes("recording")
    BY <1>11 DEF RunDeliver, RunStep
  <2>2. run.sig \in Signature /\ run.since \in 0..Repeat
    BY <1>a DEF RunType
  <2>3. QED
    BY <1>a, <1>c, <1>e, <1>g, <2>1, <2>2, RunGoesEffect
<1>12. CASE RunRecord
  <2>1. /\ run.at = "recording" /\ UNCHANGED <<world, beat, due, told, toldAge>> /\ run' = RunIdle
        /\ \/ lastSig' = run.sig /\ sigAge' = run.since
           \/ lastSig' = {} /\ sigAge' = Repeat
           \/ UNCHANGED <<lastSig, sigAge>>
    BY <1>12 DEF RunRecord, RunStep, RunEnds
  <2>2. run.sig \in Signature /\ {} \in Signature /\ run.sig # {} /\ run.since \in 0..Repeat
    BY <1>a, <1>c, <2>1 DEF RunType, Signature
  <2>3. run' \in RunType /\ run'.at = "idle" /\ run'.sig = {}
    BY <2>1
  <2>4. HealthOK'
    <3>1. CASE lastSig' = run.sig /\ sigAge' = run.since
      BY <1>c, <2>1, <2>2, <2>3, <3>1
    <3>2. CASE lastSig' = {} /\ sigAge' = Repeat
      BY <1>c, <2>1, <2>2, <2>3, <3>2
    <3>3. CASE UNCHANGED <<lastSig, sigAge>>
      BY <1>c, <2>1, <2>3, <3>3
    <3>4. QED
      BY <2>1, <3>1, <3>2, <3>3
  <2>5. QED
    BY <1>c, <1>e, <1>g, <2>1, <2>4
<1>13. CASE UNCHANGED vars
  BY <1>13, <1>c, <1>e, <1>f, <1>g DEF vars, world, beat, health
<1>14. QED
  BY <1>1, <1>2, <1>3, <1>4, <1>5, <1>6, <1>7, <1>8, <1>9, <1>10, <1>11, <1>12, <1>13
  DEF Next, HbWork, RunWork

\* The variables of both jobs and of their files keep their types.
THEOREM TypesKept == Spec => []TypeOK
<1>1. Spec => []Typed
  BY TypedInit, TypedStep, PTL DEF Spec
<1>2. Typed => TypeOK
  BY DEF Typed
<1>3. QED
  BY <1>1, <1>2, PTL

-------------------------------------------------------------------------------
(* The heartbeat's count. *)

LEMMA CountInit == Init => CountInv
BY IdleFacts DEF Init, CountInv, Probed

LEMMA CountStep == Typed /\ CountInv /\ [Next]_vars => CountInv'
<1> SUFFICES ASSUME Typed, CountInv, [Next]_vars, suffered' \cap {"kill", "uncleared"} = {}
             PROVE  CountInv'
  BY DEF CountInv
<1>a. /\ TypeOK /\ hb \in HbType /\ suffered \cap {"kill", "uncleared"} = {}
      /\ ~Suffers("kill") /\ ~Suffers("uncleared")
      /\ misses \in 0..(Threshold + 1) /\ streak \in 0..(Threshold + 1)
      /\ Threshold \in Nat /\ Threshold > 0
      /\ HbIdle.at = "idle"
  BY FaultsGrow, FaultsCount, IdleFacts, Constants DEF Typed, TypeOK
<1>b. /\ misses <= streak \/ Probed("up")
      /\ Probed("down") => Min2(misses + 1, Threshold + 1) <= streak
      /\ hb.at \in {"sending", "recording"} => streak >= Threshold
  BY <1>a DEF CountInv
<1>c. ASSUME UNCHANGED <<misses, hb, streak>> PROVE CountInv'
  BY <1>c, <1>b DEF CountInv, Probed
<1>d. ASSUME HbEnds, misses' <= streak' PROVE CountInv'
  BY <1>d, <1>a DEF HbEnds, CountInv, Probed
<1>1. CASE HbStart
  <2>1. /\ hb' = [at |-> "emitting", saw |-> daemon, since |-> 0] /\ misses' = misses /\ misses <= streak
        /\ streak' = CASE daemon = "up" -> 0
                     [] daemon = "down" -> Min2(streak + 1, Threshold + 1)
                     [] daemon = "busy" -> streak
        /\ daemon \in {"up", "down", "busy"}
    BY <1>1, <1>a, <1>b DEF HbStart, HbStep, Probed, TypeOK, HbIdle
  <2>2. hb'.at = "emitting" /\ hb'.saw = daemon
    BY <2>1
  <2>3. Min2(misses + 1, Threshold + 1) <= Min2(streak + 1, Threshold + 1)
        /\ misses <= Min2(streak + 1, Threshold + 1)
    BY <1>a, <2>1 DEF Min2
  <2>4. CASE daemon = "up"
    BY <2>1, <2>2, <2>4 DEF CountInv, Probed
  <2>5. CASE daemon = "down"
    BY <2>1, <2>2, <2>3, <2>5 DEF CountInv, Probed
  <2>6. CASE daemon = "busy"
    BY <2>1, <2>2, <2>6 DEF CountInv, Probed
  <2>7. QED
    BY <2>1, <2>4, <2>5, <2>6
<1>2. CASE EmitCanary
  <2>1. hb.at = "emitting" /\ HbGoes("counting") /\ UNCHANGED <<misses, streak>>
    BY <1>2 DEF EmitCanary, HbStep
  <2>2. hb'.at = "counting" /\ hb'.saw = hb.saw
    BY <1>a, <2>1, HbGoesEffect
  <2>3. QED
    BY <1>b, <2>1, <2>2 DEF CountInv, Probed
<1>3. CASE CountOk
  BY <1>3, <1>a, <1>d DEF CountOk, Stored
<1>4. CASE CountBusy \/ HbUndelivered \/ HbRecord
  BY <1>4, <1>b, <1>d DEF CountBusy, HbUndelivered, HbRecord, HbStep, Probed
<1>5. CASE CountMiss
  <2>1. /\ Probed("down") /\ streak' = streak
        /\ misses' \in {misses, Min2(misses + 1, Threshold + 1), 0}
        /\ IF Alerting(misses + 1) THEN HbGoes("sending") ELSE HbEnds
    BY <1>5 DEF CountMiss, HbStep, Stored, Probed
  <2>2. misses' <= streak'
    BY <1>a, <1>b, <2>1 DEF Min2
  <2>3. ASSUME Alerting(misses + 1) PROVE streak >= Threshold
    BY <1>a, <1>b, <2>1, <2>3 DEF Alerting, Min2
  <2>4. HbGoes("sending") => hb'.at = "sending"
    BY <1>a, HbGoesEffect
  <2>5. QED
    BY <1>d, <2>1, <2>2, <2>3, <2>4 DEF CountInv, Probed
<1>6. CASE HbDeliver
  <2>1. hb.at = "sending" /\ HbGoes("recording") /\ UNCHANGED <<misses, streak>>
    BY <1>6 DEF HbDeliver, HbStep
  <2>2. hb'.at = "recording"
    BY <1>a, <2>1, HbGoesEffect
  <2>3. QED
    BY <1>b, <2>1, <2>2 DEF CountInv, Probed
<1>7. CASE World \/ UNCHANGED vars
  BY <1>7, <1>c DEF World, DaemonChanges, LockChanges, CheckChanges, ReachChanges, vars, beat
<1>11. CASE Tick
  <2>1. hb'.at = hb.at /\ hb'.saw = hb.saw /\ UNCHANGED <<misses, streak>>
    BY <1>11, <1>a, HbAged DEF Tick
  <2>2. QED
    BY <1>b, <2>1 DEF CountInv, Probed
<1>8. CASE RunWork \/ AggregationFails \/ \E c \in Checks : CheckCut(c)
  BY <1>8, <1>c DEF RunWork, RunStart, CheckEnds, CheckCut, AllClear, Report,
      AggregationFails, RunDeliver, RunUndelivered, RunRecord, RunStep, beat
<1>9. ~HbKilled /\ ~RunKilled
  BY <1>a DEF HbKilled, RunKilled
<1>10. QED
  BY <1>1, <1>2, <1>3, <1>4, <1>5, <1>6, <1>7, <1>8, <1>9, <1>11 DEF Next, HbWork

(* "After 3 misses in a row it sends a fail alert" (ARCHITECTURE.md): a     *)
(* heartbeat that was never killed and always cleared its count alerts only *)
(* if that many probes in a row had found the daemon dead, whatever other   *)
(* writes failed, and whether they left an empty file or the old one.       *)
THEOREM AlertsAreJustified == Spec => []AlertJustified
<1>1. Spec => [](Typed /\ CountInv)
  BY TypedInit, CountInit, TypedStep, CountStep, PTL DEF Spec
<1>2. CountInv => AlertJustified
  BY DEF CountInv, AlertJustified
<1>3. QED
  BY <1>1, <1>2, PTL

-------------------------------------------------------------------------------
(* What was told last. *)

LEMMA TellInit == Init => TellInv
BY IdleFacts DEF Init, TellInv

LEMMA TellStep == Typed /\ TellInv /\ [Next]_vars => TellInv'
<1> SUFFICES ASSUME Typed, TellInv, [Next]_vars,
                    suffered' \cap {"kill", "keep", "uncleared"} = {}
             PROVE  TellInv'
  BY DEF TellInv
<1>a. /\ TypeOK /\ run \in RunType /\ suffered \cap {"kill", "keep", "uncleared"} = {}
      /\ ~Suffers("kill") /\ ~Suffers("keep") /\ ~Suffers("uncleared")
      /\ RunIdle.at = "idle"
  BY FaultsGrow, FaultsCount, IdleFacts DEF Typed
<1>b. IF run.at = "recording" THEN told = run.sig ELSE lastSig # {} => told = lastSig
  BY <1>a DEF TellInv
<1>c. ASSUME UNCHANGED <<lastSig, run, told>> PROVE TellInv'
  BY <1>c, <1>b DEF TellInv
<1>d. ASSUME UNCHANGED <<lastSig, told>>, run.at # "recording", run'.at # "recording" PROVE TellInv'
  BY <1>d, <1>b DEF TellInv
<1>1. CASE RunStart
  BY <1>1, <1>a, <1>d, RunGoesEffect DEF RunStart, RunStep
<1>2. ASSUME NEW c \in Checks, CheckEnds(c) \/ CheckCut(c) PROVE TellInv'
  <2>1. run.at = "checking" /\ UNCHANGED <<lastSig, told>>
        /\ \E s \in Statuses : run' = [run EXCEPT !.got[c] = s]
    BY <1>2, <1>a DEF CheckEnds, CheckCut, RunStep, Statuses, Findings, TypeOK
  <2>2. run'.at = "checking"
    BY <1>a, <2>1, CheckEffect
  <2>3. QED
    BY <1>d, <2>1, <2>2
<1>3. CASE AllClear
  BY <1>3, <1>a DEF AllClear, RunEnds, TellInv
<1>4. CASE Report
  <2>1. /\ run.at = "checking" /\ UNCHANGED <<lastSig, told>>
        /\ Sig(run.got) # {} /\ Sig(run.got) \in Signature /\ AlertOnce(Sig(run.got))
    BY <1>4, <1>a, SigType DEF Report, RunStep
  <2>2. run'.at # "recording"
    BY <1>a, <2>1, AlertOnceEffect
  <2>3. QED
    BY <1>d, <2>1, <2>2
<1>5. CASE AggregationFails
  <2>1. /\ run.at = "checking" /\ UNCHANGED <<lastSig, told>>
        /\ AlertOnce({<<"aggregation", "fail">>})
    BY <1>5 DEF AggregationFails, RunStep
  <2>2. {<<"aggregation", "fail">>} # {} /\ {<<"aggregation", "fail">>} \in Signature
    BY DEF Signature
  <2>3. run'.at # "recording"
    BY <1>a, <2>1, <2>2, AlertOnceEffect
  <2>4. QED
    BY <1>d, <2>1, <2>3
<1>6. CASE RunDeliver
  <2>1. told' = run.sig /\ RunGoes("recording")
    BY <1>6 DEF RunDeliver
  <2>2. run'.at = "recording" /\ run'.sig = run.sig
    BY <1>a, <2>1, RunGoesEffect
  <2>3. QED
    BY <2>1, <2>2 DEF TellInv
<1>7. CASE RunUndelivered
  BY <1>7, <1>a, <1>d DEF RunUndelivered, RunStep, RunEnds
<1>8. CASE RunRecord
  BY <1>8, <1>a, <1>b DEF RunRecord, RunStep, RunEnds, TellInv
<1>12. CASE Tick
  <2>1. run'.at = run.at /\ run'.sig = run.sig /\ UNCHANGED <<lastSig, told>>
    BY <1>12, <1>a, RunAged DEF Tick
  <2>2. QED
    BY <1>b, <2>1 DEF TellInv
<1>9. CASE World \/ HbWork \/ EmitCanary \/ UNCHANGED vars
  BY <1>9, <1>c DEF World, DaemonChanges, LockChanges, CheckChanges, ReachChanges,
      HbWork, EmitCanary, HbStart, CountOk, CountBusy, CountMiss, HbDeliver, HbUndelivered,
      HbRecord, HbStep, vars, health
<1>10. ~HbKilled /\ ~RunKilled
  BY <1>a DEF HbKilled, RunKilled
<1>11. QED
  BY <1>1, <1>2, <1>3, <1>4, <1>5, <1>6, <1>7, <1>8, <1>9, <1>10, <1>12 DEF Next, RunWork

(* A health run keeps silent only if what it found is what its owner was    *)
(* told last (health/master.sh alert_once), whatever records were emptied   *)
(* before -- if no run was killed and no older record was left in place.    *)
THEOREM NothingStaysUntold == Spec => NothingUntold
<1> DEFINE A == run.at = "checking" /\ run' = RunIdle
                  /\ suffered' \cap {"kill", "keep", "uncleared"} = {}
                  => told' = Sig(run.got) \/ faults' # faults
<1>1. ASSUME Typed, TellInv, [Next]_vars, run.at = "checking", run' = RunIdle,
             suffered' \cap {"kill", "keep", "uncleared"} = {}, faults' = faults
      PROVE  told' = Sig(run.got)
  <2>1. /\ TypeOK /\ run \in RunType /\ \A kind : ~Suffers(kind)
        /\ run' # run /\ RunIdle.at = "idle"
        /\ suffered \cap {"kill", "keep", "uncleared"} = {}
    BY <1>1, FaultsGrow, FaultsCount, IdleFacts DEF Typed
  <2>2. lastSig # {} => told = lastSig
    BY <1>1, <2>1 DEF TellInv
  <2>3. CASE AllClear
    BY <2>3 DEF AllClear
  <2>4. CASE Report
    <3>1. /\ Sig(run.got) # {} /\ Sig(run.got) \in Signature /\ AlertOnce(Sig(run.got))
          /\ told' = told
      BY <2>1, <2>4, SigType DEF Report, RunStep
    <3>2. Sig(run.got) = lastSig
      BY <1>1, <2>1, <3>1, AlertOnceEffect
    <3>3. QED
      BY <2>2, <3>1, <3>2
  <2>5. \A c \in Checks : ~CheckEnds(c) /\ ~CheckCut(c)
    <3>1. SUFFICES ASSUME NEW c \in Checks, CheckEnds(c) \/ CheckCut(c) PROVE FALSE
      OBVIOUS
    <3>2. \E s \in Statuses : run' = [run EXCEPT !.got[c] = s]
      BY <2>1, <3>1 DEF CheckEnds, CheckCut, RunStep, Statuses, Findings, TypeOK
    <3>3. QED
      BY <1>1, <2>1, <3>2, CheckEffect
  <2>8. ~Tick
    BY <1>1, <2>1, RunAged DEF Tick
  <2>6. run' = run \/ AllClear \/ Report
    BY <1>1, <2>1, <2>5, <2>8
    DEF Next, World, DaemonChanges, LockChanges, CheckChanges, ReachChanges,
        HbWork, EmitCanary, HbStart, CountOk, CountBusy, CountMiss, HbDeliver, HbUndelivered,
        HbRecord, HbKilled, HbStep, vars, health, RunWork, RunStart, RunDeliver,
        RunUndelivered, RunRecord, RunKilled, AggregationFails, RunStep
  <2>7. QED
    BY <2>1, <2>3, <2>4, <2>6
<1>2. Typed /\ TellInv /\ [Next]_vars => [A]_vars
  BY <1>1
<1>3. Spec => [](Typed /\ TellInv)
  BY TypedInit, TellInit, TypedStep, TellStep, PTL DEF Spec
<1>4. QED
  BY <1>2, <1>3, PTL DEF Spec, NothingUntold

-------------------------------------------------------------------------------
(* The windows. *)

LEMMA PaceInit == Init => PaceInv
BY IdleFacts, Constants DEF Init, PaceInv

LEMMA PaceStep == Typed /\ PaceInv /\ [Next]_vars => PaceInv'
<1> SUFFICES ASSUME Typed, PaceInv, [Next]_vars, suffered' = {} PROVE PaceInv'
  BY DEF PaceInv
<1> DEFINE
      HbPace == /\ hb.at = "recording" => sentAge = hb.since
                /\ hb.at # "recording" => alertAge = sentAge
      RunPace == /\ run.at # "recording" => told = lastSig /\ (told # {} => sigAge = toldAge)
                 /\ run.at = "recording" => told = run.sig /\ toldAge = run.since
<1>a. /\ TypeOK /\ hb \in HbType /\ run \in RunType
      /\ suffered = {} /\ \A kind : ~Suffers(kind)
      /\ alertAge \in 0..Cooldown /\ sentAge \in 0..Cooldown /\ Cooldown \in Nat
      /\ sigAge \in 0..Repeat /\ toldAge \in 0..Repeat /\ Repeat \in Nat
      /\ hb.since \in 0..Cooldown /\ run.since \in 0..Repeat
      /\ HbIdle.at = "idle" /\ RunIdle.at = "idle"
  BY FaultsGrow, FaultsCount, IdleFacts, Constants DEF Typed, TypeOK
<1>b. HbPace /\ RunPace
  BY <1>a DEF PaceInv
<1> SUFFICES HbPace' /\ RunPace'
  BY DEF PaceInv
<1>c. ASSUME UNCHANGED beat PROVE HbPace'
  BY <1>b, <1>c DEF beat
<1>d. ASSUME UNCHANGED health PROVE RunPace'
  BY <1>b, <1>d DEF health
<1>e. ASSUME UNCHANGED <<alertAge, sentAge>>, hb.at # "recording", hb'.at # "recording"
      PROVE  HbPace'
  BY <1>b, <1>e
<1>f. ASSUME UNCHANGED <<lastSig, sigAge, told, toldAge>>, run.at # "recording",
             run'.at # "recording"
      PROVE  RunPace'
  BY <1>b, <1>f
<1>1. CASE World \/ UNCHANGED vars
  BY <1>1, <1>c, <1>d DEF World, DaemonChanges, LockChanges, CheckChanges, ReachChanges,
      vars, beat, health
<1>2. CASE Tick
  <2>1. /\ UNCHANGED <<lastSig, told>>
        /\ alertAge' = Min2(alertAge + 1, Cooldown) /\ sentAge' = Min2(sentAge + 1, Cooldown)
        /\ sigAge' = Min2(sigAge + 1, Repeat) /\ toldAge' = Min2(toldAge + 1, Repeat)
        /\ hb' = Aged(hb, Cooldown) /\ run' = Aged(run, Repeat)
    BY <1>2 DEF Tick
  <2>2. /\ hb'.at = hb.at
        /\ hb.at = "recording" => hb'.since = Min2(hb.since + 1, Cooldown)
    BY <1>a, <2>1, HbAged
  <2>3. /\ run'.at = run.at /\ run'.sig = run.sig
        /\ run.at = "recording" => run'.since = Min2(run.since + 1, Repeat)
    BY <1>a, <2>1, RunAged
  <2>4. HbPace'
    BY <1>b, <2>1, <2>2
  <2>5. RunPace'
    BY <1>b, <2>1, <2>3
  <2>6. QED
    BY <2>4, <2>5
<1>3. CASE HbStart
  BY <1>3, <1>d, <1>e DEF HbStart, HbStep, HbIdle
<1>4. CASE EmitCanary
  BY <1>4, <1>a, <1>d, <1>e, HbGoesEffect DEF EmitCanary, HbStep
<1>5. CASE CountOk \/ CountBusy \/ HbUndelivered
  BY <1>5, <1>a, <1>d, <1>e DEF CountOk, CountBusy, HbUndelivered, HbStep, HbEnds, Stored
<1>6. CASE CountMiss
  <2>1. /\ UNCHANGED <<alertAge, sentAge, health>> /\ hb.at = "counting"
        /\ HbGoes("sending") \/ HbEnds
    BY <1>6 DEF CountMiss, HbStep
  <2>2. hb'.at # "recording"
    BY <1>a, <2>1, HbGoesEffect DEF HbEnds
  <2>3. QED
    BY <1>d, <1>e, <2>1, <2>2
<1>7. CASE HbDeliver
  <2>1. hb'.at = "recording" /\ hb'.since = hb.since
    BY <1>7, <1>a, HbGoesEffect DEF HbDeliver
  <2>2. QED
    BY <1>7, <1>d, <2>1 DEF HbDeliver, HbStep
<1>8. CASE HbRecord
  <2>1. alertAge' = hb.since /\ sentAge' = sentAge /\ hb' = HbIdle /\ UNCHANGED health
        /\ hb.at = "recording"
    BY <1>8, <1>a DEF HbRecord, HbStep, HbEnds, Stored
  <2>2. QED
    BY <1>a, <1>b, <1>d, <2>1
<1>9. CASE RunStart
  BY <1>9, <1>a, <1>c, <1>f, RunGoesEffect DEF RunStart, RunStep
<1>10. ASSUME NEW c \in Checks, CheckEnds(c) \/ CheckCut(c) PROVE HbPace' /\ RunPace'
  <2>1. /\ run.at = "checking" /\ UNCHANGED <<beat, lastSig, sigAge, told, toldAge>>
        /\ \E s \in Statuses : run' = [run EXCEPT !.got[c] = s]
    BY <1>10, <1>a DEF CheckEnds, CheckCut, RunStep, Statuses, Findings, TypeOK
  <2>2. run'.at = "checking"
    BY <1>a, <2>1, CheckEffect
  <2>3. QED
    BY <1>c, <1>f, <2>1, <2>2
<1>11. CASE AllClear
  BY <1>11, <1>a, <1>c DEF AllClear, RunStep, RunEnds
<1>12. CASE Report
  <2>1. /\ run.at = "checking" /\ UNCHANGED <<beat, lastSig, sigAge, told, toldAge>>
        /\ Sig(run.got) # {} /\ Sig(run.got) \in Signature /\ AlertOnce(Sig(run.got))
    BY <1>12, <1>a, SigType DEF Report, RunStep
  <2>2. run'.at # "recording"
    BY <1>a, <2>1, AlertOnceEffect
  <2>3. QED
    BY <1>c, <1>f, <2>1, <2>2
<1>13. CASE RunDeliver
  <2>1. run'.at = "recording" /\ run'.sig = run.sig /\ run'.since = run.since
    BY <1>13, <1>a, RunGoesEffect DEF RunDeliver
  <2>2. QED
    BY <1>13, <1>c, <2>1 DEF RunDeliver, RunStep
<1>14. CASE RunUndelivered
  BY <1>14, <1>a, <1>c, <1>f DEF RunUndelivered, RunStep, RunEnds
<1>15. CASE RunRecord
  <2>1. /\ run.at = "recording" /\ run' = RunIdle /\ sigAge' = run.since /\ UNCHANGED <<beat, told, toldAge>>
        /\ lastSig' = run.sig
    BY <1>15, <1>a DEF RunRecord, RunStep, RunEnds
  <2>2. told = run.sig /\ toldAge = run.since
    BY <1>b, <2>1
  <2>3. QED
    BY <1>a, <1>c, <2>1, <2>2
<1>16. ~HbKilled /\ ~RunKilled /\ ~AggregationFails
  BY <1>a DEF HbKilled, RunKilled, AggregationFails
<1>17. QED
  BY <1>1, <1>2, <1>3, <1>4, <1>5, <1>6, <1>7, <1>8, <1>9, <1>10, <1>11, <1>12, <1>13,
     <1>14, <1>15, <1>16
  DEF Next, HbWork, RunWork

(* "At most once an hour", and the same set of checks at most once per      *)
(* repeat window (ARCHITECTURE.md): while no fault happens, neither job     *)
(* decides to repeat an alert within its window of the decision to send it, *)
(* however long the notification takes and whatever was seen between.       *)
THEOREM AlertsAreThrottled == Spec => Throttled
<1> DEFINE A == /\ hb.at = "counting" /\ hb'.at = "sending" /\ suffered = {}
                     => sentAge >= Cooldown
                /\ run.at = "checking" /\ run'.at = "sending" /\ run'.sig = told /\ suffered = {}
                     => toldAge >= Repeat
<1>1. ASSUME Typed, PaceInv, [Next]_vars, suffered = {} PROVE A
  <2>1. /\ TypeOK /\ hb \in HbType /\ run \in RunType
        /\ alertAge \in 0..Cooldown /\ sentAge \in 0..Cooldown /\ Cooldown \in Nat
        /\ sigAge \in 0..Repeat /\ toldAge \in 0..Repeat /\ Repeat \in Nat
        /\ HbIdle.at = "idle" /\ RunIdle.at = "idle"
    BY <1>1, Constants, IdleFacts DEF Typed, TypeOK
  <2>2. /\ hb.at # "recording" => alertAge = sentAge
        /\ run.at # "recording" => told = lastSig /\ (told # {} => sigAge = toldAge)
    BY <1>1 DEF PaceInv
  <2>3. ASSUME Tick PROVE hb'.at = hb.at /\ run'.at = run.at
    BY <2>1, <2>3, HbAged, RunAged DEF Tick
  <2>4. ASSUME hb.at = "counting", hb'.at = "sending" PROVE sentAge >= Cooldown
    <3>1. CountMiss
      BY <1>1, <2>1, <2>3, <2>4
      DEF Next, World, DaemonChanges, LockChanges, CheckChanges, ReachChanges, HbWork, RunWork,
          EmitCanary, HbStart, CountOk, CountBusy, HbDeliver, HbUndelivered, HbRecord, HbKilled,
          HbStep, HbEnds, RunStart, CheckEnds, CheckCut, AllClear, Report, AggregationFails,
          RunDeliver, RunUndelivered, RunRecord, RunKilled, RunStep, vars, beat
    <3>2. Alerting(misses + 1)
      BY <2>1, <2>4, <3>1 DEF CountMiss, HbEnds
    <3>3. QED
      BY <2>1, <2>2, <2>4, <3>2 DEF Alerting
  <2>5. ASSUME run.at = "checking", run'.at = "sending", run'.sig = told PROVE toldAge >= Repeat
    <3>1. \A c \in Checks : ~CheckEnds(c) /\ ~CheckCut(c)
      <4>1. SUFFICES ASSUME NEW c \in Checks, CheckEnds(c) \/ CheckCut(c) PROVE FALSE
        OBVIOUS
      <4>2. \E s \in Statuses : run' = [run EXCEPT !.got[c] = s]
        BY <2>1, <4>1 DEF CheckEnds, CheckCut, RunStep, Statuses, Findings, TypeOK
      <4>3. QED
        BY <2>1, <2>5, <4>2, CheckEffect
    <3>2. \E sig \in Signature : sig # {} /\ AlertOnce(sig)
      <4>1. Report \/ AggregationFails
        BY <1>1, <2>1, <2>3, <2>5, <3>1
        DEF Next, World, DaemonChanges, LockChanges, CheckChanges, ReachChanges, HbWork, RunWork,
            EmitCanary, HbStart, CountOk, CountBusy, CountMiss, HbDeliver, HbUndelivered,
            HbRecord, HbKilled, HbStep, RunStart, AllClear, RunDeliver, RunUndelivered,
            RunRecord, RunKilled, RunStep, RunEnds, vars, health
      <4>2. CASE Report
        BY <2>1, <4>2, SigType DEF Report
      <4>3. CASE AggregationFails
        <5>1. {<<"aggregation", "fail">>} # {} /\ {<<"aggregation", "fail">>} \in Signature
          BY DEF Signature
        <5>2. QED
          BY <4>3, <5>1 DEF AggregationFails
      <4>4. QED
        BY <4>1, <4>2, <4>3
    <3>3. PICK sig \in Signature : sig # {} /\ AlertOnce(sig)
      BY <3>2
    <3>4. run'.sig = sig /\ ~(sig = lastSig /\ sigAge < Repeat)
      BY <2>1, <2>5, <3>3, AlertOnceEffect
    <3>5. QED
      BY <2>1, <2>2, <2>5, <3>3, <3>4
  <2>6. QED
    BY <2>4, <2>5
<1>2. Typed /\ PaceInv /\ [Next]_vars => [A]_vars
  BY <1>1
<1>3. Spec => [](Typed /\ PaceInv)
  BY TypedInit, PaceInit, TypedStep, PaceStep, PTL DEF Spec
<1>4. QED
  BY <1>2, <1>3, PTL DEF Spec, Throttled
===============================================================================
