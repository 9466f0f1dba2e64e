---------------------------- MODULE PartsProofs ----------------------------
(***************************************************************************)
(* Theorems about the four small components, each by itself: the clock     *)
(* sync, the watch of the daemon, the budget of the prompt router, and     *)
(* redaction.                                                              *)
(***************************************************************************)
EXTENDS ClockSync, DaemonWatch, RouterBudget, SpanRedaction,
        SequenceTheorems, FiniteSetTheorems, WellFoundedInduction, TLAPS

-------------------------------------------------------------------------------
(***************************************************************************)
(* That an offset clock-sync keeps is right, for every era, every bound on *)
(* the round trip and on the offset, and every set of clock errors.        *)
(*                                                                         *)
(* The argument: when an answer is there, the four timestamps are of four  *)
(* moments in this order, two of them read by the local clock as it was    *)
(* then and two as they came over the wire (ExchangeOK).  Whatever of them *)
(* lies beyond the end of the era, the answer is either refused or has the *)
(* error of the clock in it to half the round trip and the time the host   *)
(* slept, of which the monotonic clock knows nothing (AcceptedIsRight).    *)
(***************************************************************************)

(* Moments of an exchange: t1 was read when the monotonic clock was m1, the *)
(* server's two were in between.                                            *)
Sent(s) == s.m1 + s.woken
RequestedOK(s) ==
  /\ s.m1 \in Int /\ s.woken \in Int /\ 0 <= s.woken /\ s.woken <= asleep
  /\ Sent(s) <= now
  /\ s.begun \in Errors
  /\ s.t1 = Sent(s) + s.begun
ServedOK(s, a) == a \in Int /\ Sent(s) <= a /\ a <= now /\ s.t2 = Wire(a)
AnsweredOK(s, a, b) == ServedOK(s, a) /\ b \in Int /\ a <= b /\ b <= now /\ s.t3 = Wire(b)

ExchangeOK ==
  /\ sync.at \in {"sent", "served", "answered"} => RequestedOK(sync)
  /\ sync.at = "served" => \E a \in Int : ServedOK(sync, a)
  /\ sync.at = "answered" => \E a, b \in Int : AnsweredOK(sync, a, b)

KeptOK == \A c \in {sync.found, cache, stamp} : c.set => Within(c)

(* What holds in every state: OffsetBound with what it rests on. *)
ClockInv ==
  /\ ClockTypeOK
  /\ sync.at = "measured" \/ ~sync.found.set
  /\ ExchangeOK /\ KeptOK

(* Go's truncating division is at most one off twice the half.              *)
LEMMA HalfBound ==
  ASSUME NEW n \in Int
  PROVE  Half(n) \in Int /\ n - 1 <= 2 * Half(n) /\ 2 * Half(n) <= n + 1
BY DEF Half

(* parseSNTPOffset: an offset that passes its checks is within the bound,   *)
(* wherever the era ends.                                                   *)
LEMMA AcceptedIsRight ==
  ASSUME NEW s, NEW n \in Int, NEW e \in Errors, NEW m \in Int, NEW f \in Errors,
         NEW v \in Int, NEW z \in Int, 0 <= v, v <= z, z <= MaxSleep,
         NEW a \in Int, NEW b \in Int, m + v <= a, a <= b, b <= n,
         s.m1 = m, s.begun = f, s.t1 = m + v + f, s.t2 = Wire(a), s.t3 = Wire(b),
         Plausible(s, n + e, n - z)
  PROVE  Within([set |-> TRUE, off |-> Offset(s, n + e), begun |-> f, ended |-> e,
                 rtt |-> RoundTrip(s, n - z), slept |-> z - v])
<1> DEFINE x == (m + v + f - Wire(a)) + (n + e - Wire(b))
           r == (n - z - m) - (Wire(b) - Wire(a))
           l == r + (z - v)
<1>1. /\ e \in Int /\ f \in Int /\ Era \in Int /\ MaxRTT \in Int /\ MaxOffset \in Int
      /\ MaxSleep \in Int /\ 0 <= Era
      /\ MaxRTT < Era /\ 2 * MaxOffset + MaxRTT + MaxSleep + 1 < 2 * Era + e + f
  BY ClockAssumption
<1>2. Wire(a) \in Int /\ Wire(b) \in Int
  BY <1>1 DEF Wire
<1>3. x \in Int /\ r \in Int /\ l \in Int
  BY <1>1, <1>2
<1>4. Offset(s, n + e) = Half(x) /\ RoundTrip(s, n - z) = r
  BY <1>1, <1>2 DEF Offset, RoundTrip
<1>5. Half(x) \in Int /\ x - 1 <= 2 * Half(x) /\ 2 * Half(x) <= x + 1
  BY <1>3, HalfBound
<1>6. r <= MaxRTT /\ l <= MaxRTT + MaxSleep /\ Half(x) <= MaxOffset
  BY <1>1, <1>3, <1>4, <1>5 DEF Plausible
<1> HIDE DEF x, r, l
<1>7. -(l + 1) <= 2 * Half(x) - (f + e) /\ 2 * Half(x) - (f + e) <= l + 1
  <2>1. CASE b < Era
    <3>1. x = (m + v + f - a) + (n + e - b) /\ l = (n - (m + v)) - (b - a)
      BY <1>1, <2>1 DEF Wire, x, r, l
    <3>2. QED BY <3>1, <1>1, <1>3, <1>5
  <2>2. CASE a < Era /\ Era <= b
    <3>1. /\ x = (m + v + f - a) + (n + e - (b - Era))
          /\ l = (n - (m + v)) - (b - Era - a)
      BY <1>1, <2>2 DEF Wire, x, r, l
    <3>2. QED BY <3>1, <1>1, <1>3, <1>5
  <2>3. CASE Era <= a
    <3>1. /\ x = (m + v + f - (a - Era)) + (n + e - (b - Era))
          /\ l = (n - (m + v)) - (b - a)
      BY <1>1, <2>3 DEF Wire, x, r, l
    <3>2. 2 * Half(x) >= 2 * Era + f + e - l - 1
      BY <3>1, <1>1, <1>5
    <3>3. QED BY <3>2, <1>1, <1>3, <1>5, <1>6
  <2>4. QED BY <1>1, <2>1, <2>2, <2>3
<1>8. l = r + (z - v)
  BY DEF l
<1>9. QED BY <1>4, <1>7, <1>8 DEF Within

LEMMA ClockInvInit == ClockInit => ClockInv
BY ClockAssumption
   DEF ClockInit, ClockInv, ClockTypeOK, Sync, Found, ExchangeOK, KeptOK, NoSync, NoOffset

(* Time passes: what is known of the exchange stays known. *)
LEMMA LaterStillOK ==
  ASSUME now \in Int, now' \in Int, now <= now', sync' = sync, ExchangeOK,
         asleep \in Int, asleep' \in Int, asleep <= asleep'
  PROVE  ExchangeOK'
<1>1. sync.at \in {"sent", "served", "answered"} => RequestedOK(sync)'
  BY DEF ExchangeOK, RequestedOK, Sent
<1>2. ASSUME NEW a \in Int, ServedOK(sync, a) PROVE ServedOK(sync, a)'
  BY <1>2 DEF ServedOK, ExchangeOK, RequestedOK, Sent
<1>3. ASSUME NEW a \in Int, NEW b \in Int, AnsweredOK(sync, a, b)
      PROVE  AnsweredOK(sync, a, b)'
  BY <1>3, <1>2 DEF AnsweredOK
<1>4. QED BY <1>1, <1>2, <1>3 DEF ExchangeOK

(* The exchange ends or has not begun, and nothing is kept of it. *)
LEMMA BlankKept ==
  ASSUME ClockInv, UNCHANGED <<now, error, steps, asleep, cache, stamp>>,
         sync' \in Sync, sync'.at \in {"idle", "dialled"}, ~sync'.found.set
  PROVE  ClockInv'
BY DEF ClockInv, ClockTypeOK, ExchangeOK, KeptOK, Within

LEMMA BlankOK ==
  ASSUME NEW at \in {"idle", "dialled"}, NEW n \in 0..Servers,
         NEW s, s = [NoSync EXCEPT !.at = at, !.server = n] \/ s = NoSync
  PROVE  s \in Sync /\ s.at \in {"idle", "dialled"} /\ ~s.found.set
<1>1. NoSync \in Sync /\ ~NoSync.found.set /\ NoSync.at = "idle"
  BY ClockAssumption DEF NoSync, NoOffset, Sync, Found
<1>2. QED BY <1>1 DEF Sync

(* Every step keeps the invariant: one step per action. *)
LEMMA ClockInvStep == ClockInv /\ [ClockNext]_clockVars => ClockInv'
<1> SUFFICES ASSUME ClockInv, [ClockNext]_clockVars PROVE ClockInv'
  OBVIOUS
<1> USE ClockAssumption
<1> DEFINE Blank == sync' \in Sync /\ sync'.at \in {"idle", "dialled"} /\ ~sync'.found.set
<1>0. 0 \in 0..Servers /\ 1 \in 0..Servers /\ Servers \in Nat
  OBVIOUS
<1>a. /\ now \in Int /\ error \in Int /\ Wire(now) \in Int /\ Local \in Int /\ Monotonic \in Int
      /\ asleep \in Int /\ 0 <= asleep /\ asleep <= MaxSleep
  BY DEF ClockInv, ClockTypeOK, Wire, Local, Monotonic
<1>1. CASE SyncStart
  <2>1. Blank
    BY <1>1, BlankOK, <1>0 DEF SyncStart
  <2>2. QED BY <1>1, <2>1, BlankKept DEF SyncStart
<1>2. CASE Request
  <2>1. ExchangeOK'
    BY <1>2 DEF Request, ClockInv, ClockTypeOK, Sync, ExchangeOK, RequestedOK, Local, Monotonic,
           Sent
  <2>2. sync' \in Sync /\ sync'.found = sync.found
    BY <1>a, <1>2 DEF Request, ClockInv, ClockTypeOK, Sync
  <2>3. QED
    BY <1>2, <2>1, <2>2 DEF Request, ClockInv, ClockTypeOK, KeptOK, Within
<1>3. CASE ServerReceives
  <2>1. ServedOK(sync, now)'
    BY <1>3 DEF ServerReceives, ClockInv, ClockTypeOK, Sync, ExchangeOK, RequestedOK, ServedOK, Wire,
           Sent
  <2>2. ExchangeOK'
    BY <1>3, <2>1 DEF ServerReceives, ClockInv, ClockTypeOK, Sync, ExchangeOK, RequestedOK, Sent
  <2>3. sync' \in Sync /\ sync'.found = sync.found
    BY <1>a, <1>3 DEF ServerReceives, ClockInv, ClockTypeOK, Sync
  <2>4. QED
    BY <1>3, <2>2, <2>3 DEF ServerReceives, ClockInv, ClockTypeOK, KeptOK, Within
<1>4. CASE ServerAnswers
  <2>1. PICK a \in Int : ServedOK(sync, a)
    BY <1>4 DEF ServerAnswers, ClockInv, ExchangeOK
  <2>2. AnsweredOK(sync, a, now)'
    BY <1>4, <2>1 DEF ServerAnswers, ClockInv, ClockTypeOK, Sync, ServedOK, AnsweredOK, Wire,
           Sent
  <2>3. ExchangeOK'
    BY <1>4, <2>2 DEF ServerAnswers, ClockInv, ClockTypeOK, Sync, ExchangeOK, RequestedOK, Sent
  <2>4. sync' \in Sync /\ sync'.found = sync.found
    BY <1>a, <1>4 DEF ServerAnswers, ClockInv, ClockTypeOK, Sync
  <2>5. QED
    BY <1>4, <2>3, <2>4 DEF ServerAnswers, ClockInv, ClockTypeOK, KeptOK, Within
<1>5. CASE Accept
  <2> DEFINE this == [set |-> TRUE, off |-> Offset(sync, now + error), begun |-> sync.begun,
                      ended |-> error, rtt |-> RoundTrip(sync, now - asleep),
                      slept |-> asleep - sync.woken]
  <2>1. PICK a \in Int, b \in Int : AnsweredOK(sync, a, b)
    BY <1>5 DEF Accept, ClockInv, ExchangeOK
  <2>2. Plausible(sync, now + error, now - asleep)
    BY <1>5 DEF Accept, Local, Monotonic
  <2>3. Within(this)
    BY <1>a, <1>5, <2>1, <2>2, AcceptedIsRight
    DEF Accept, ClockInv, ClockTypeOK, Sync, ExchangeOK, RequestedOK, AnsweredOK, ServedOK, Sent
  <2>4. sync' = [sync EXCEPT !.at = "measured", !.found = this]
    BY <1>5 DEF Accept, Local, Monotonic
  <2>5. this \in Found
    BY <1>a, <2>2 DEF ClockInv, ClockTypeOK, Sync, Found, Plausible
  <2>6. QED
    BY <1>5, <2>3, <2>4, <2>5
    DEF Accept, ClockInv, ClockTypeOK, Sync, ExchangeOK, KeptOK, Within
<1>6. CASE TryNext
  <2>1. CASE sync.server < Servers
    <3>1. sync.server + 1 \in 0..Servers
      BY <2>1 DEF ClockInv, ClockTypeOK, Sync
    <3>2. Blank
      BY <1>6, <2>1, <3>1, BlankOK DEF TryNext, NextServer
    <3>3. QED BY <1>6, <3>2, BlankKept DEF TryNext
  <2>2. CASE ~(sync.server < Servers)
    <3>1. Blank
      BY <1>6, <2>2, BlankOK, <1>0 DEF TryNext, NextServer
    <3>2. QED BY <1>6, <3>1, BlankKept DEF TryNext
  <2>3. QED BY <2>1, <2>2
<1>7. CASE Store
  BY <1>7 DEF Store, ClockInv, ClockTypeOK, Sync, Found, ExchangeOK, KeptOK, NoSync, NoOffset, Within
<1>8. CASE SyncFails
  <2>1. Blank
    BY <1>8, BlankOK, <1>0 DEF SyncFails
  <2>2. QED BY <1>8, <2>1, BlankKept DEF SyncFails
<1>9. CASE Stamp
  BY <1>9, LaterStillOK DEF Stamp, ClockInv, ClockTypeOK, Sync, KeptOK, Within
<1>10. CASE Tick
  BY <1>10, LaterStillOK DEF Tick, ClockInv, ClockTypeOK, Sync, KeptOK, Within
<1>14. CASE Suspended
  BY <1>14, LaterStillOK DEF Suspended, ClockInv, ClockTypeOK, Sync, KeptOK, Within
<1>11. CASE StepClock
  BY <1>11, LaterStillOK DEF StepClock, ClockInv, ClockTypeOK, Sync, KeptOK, Within
<1>12. CASE UNCHANGED clockVars
  BY <1>12, LaterStillOK DEF clockVars, ClockInv, ClockTypeOK, Sync, KeptOK, Within
<1>13. QED
  BY <1>1, <1>2, <1>3, <1>4, <1>5, <1>6, <1>7, <1>8, <1>9, <1>10, <1>11, <1>12, <1>14 DEF ClockNext

(* An offset in the cache or on an event is right to half the round trip    *)
(* and half the time the host was suspended during the exchange, for every  *)
(* value of the constants.                                                  *)
THEOREM OffsetBoundHolds == ClockSpec => []OffsetBound
<1>1. ClockInv => OffsetBound
  BY DEF ClockInv, KeptOK, OffsetBound
<1>2. QED BY <1>1, ClockInvInit, ClockInvStep, PTL DEF ClockSpec

-------------------------------------------------------------------------------
(***************************************************************************)
(* That the watch forgets no line, for every set of shards and all bounds. *)
(*                                                                         *)
(* WatchRemembers is not inductive: it must be known of the ingest in      *)
(* progress that lines that came after it was read are remembered too,     *)
(* which holds because the loop receives no event meanwhile (IngestOK).    *)
(***************************************************************************)

Remembered(f) == f \in events \/ pending[f] # "no" \/ f \in excused

IngestOK ==
  \A f \in watch.reading :
    /\ watch.at = "tick" /\ watch.reading = {f}
    /\ watch.read \in 0..lines[f]
    /\ watch.read < lines[f] => Remembered(f)

WatchInv == WatchTypeOK /\ WatchRemembers /\ IngestOK

LEMMA LoopType ==
  ASSUME WatchTypeOK
  PROVE  /\ AfterIngest \in Loop
         /\ \A f \in Shards :
              [watch EXCEPT !.due = @ \ {f}, !.reading = {f}, !.read = lines[f]] \in Loop
<1>1. \A f \in Shards : lines[f] \in Nat
  BY WatchAssumption DEF WatchTypeOK
<1>2. \A f \in Shards : watch.due \ {f} \in SUBSET Shards /\ {f} \in SUBSET Shards
  BY DEF WatchTypeOK, Loop
<1>3. QED BY <1>1, <1>2 DEF WatchTypeOK, Loop, AfterIngest

LEMMA WatchInvInit == WatchInit => WatchInv
BY WatchAssumption
DEF WatchInit, WatchInv, WatchTypeOK, WatchRemembers, IngestOK, Loop, Starting, Off

(* Every step keeps the invariant: one step per action. *)
LEMMA WatchInvStep == WatchInv /\ [WatchNext]_watchVars => WatchInv'
<1> SUFFICES ASSUME WatchInv, [WatchNext]_watchVars PROVE WatchInv'
  OBVIOUS
<1> USE WatchAssumption DEF WatchInv, WatchTypeOK, WatchRemembers, IngestOK, Remembered
<1>1. ASSUME NEW f \in Shards, ShardGrows(f) PROVE WatchInv'
  BY <1>1 DEF ShardGrows
<1>2. ASSUME NEW f \in Shards, PassIngests(f) PROVE WatchInv'
  BY <1>2 DEF PassIngests
<1>3. ASSUME NEW f \in Shards, Receive(f) PROVE WatchInv'
  BY <1>3 DEF Receive
<1>4. ASSUME NEW f \in Shards, Settles(f) PROVE WatchInv'
  BY <1>4 DEF Settles
<1>5. ASSUME NEW f \in Shards, IngestReads(f) PROVE WatchInv'
  <2>1. /\ pending' = [pending EXCEPT ![f] = "no"]
        /\ excused' = excused \ {f} /\ lines' = lines /\ indexed' = indexed /\ events' = events
        /\ watch'.reading = {f} /\ watch'.read = lines[f] /\ watch'.at = "tick"
    BY <1>5 DEF IngestReads, Forgotten, Loop
  <2>2. watch' \in Loop
    BY <1>5, LoopType DEF IngestReads
  <2>3. WatchTypeOK'
    BY <1>5, <2>1, <2>2 DEF IngestReads
  <2>4. WatchRemembers'
    BY <1>5, <2>1 DEF IngestReads
  <2>5. IngestOK'
    BY <2>1
  <2>6. QED BY <2>3, <2>4, <2>5
<1>6. ASSUME NEW f \in Shards, IngestCommits(f) PROVE WatchInv'
  BY <1>6 DEF IngestCommits, AfterIngest, Loop
<1>7. ASSUME NEW f \in Shards, IngestErrs(f) PROVE WatchInv'
  <2>1. /\ watch'.reading = {} /\ watch.reading = {f}
        /\ excused' = excused \cup {f} /\ UNCHANGED <<lines, indexed, events, pending>>
    BY <1>7 DEF IngestErrs, AfterIngest, Loop
  <2>2. WatchTypeOK'
    <3>1. watch' \in Loop
      BY <1>7, LoopType DEF IngestErrs
    <3>2. troubles' \in 0..MaxTroubles
      BY <1>7 DEF IngestErrs, Trouble
    <3>3. QED BY <2>1, <3>1, <3>2
  <2>3. WatchRemembers' /\ IngestOK'
    BY <2>1
  <2>4. QED BY <2>2, <2>3
<1>8. CASE Attach
  BY <1>8 DEF Attach, Loop
<1>9. CASE AttachFails
  BY <1>9 DEF AttachFails, Off, Trouble, Loop
<1>10. CASE WatchTick
  BY <1>10 DEF WatchTick, Due, Loop
<1>11. CASE EventsLost
  BY <1>11 DEF EventsLost, Trouble
<1>12. CASE WatchRestarts
  BY <1>12 DEF WatchRestarts, Starting, Off, Trouble, Loop
<1>13. CASE UNCHANGED watchVars
  BY <1>13 DEF watchVars
<1>14. QED
  BY <1>1, <1>2, <1>3, <1>4, <1>5, <1>6, <1>7, <1>8, <1>9, <1>10, <1>11, <1>12, <1>13
  DEF WatchNext

(* No line is forgotten between the event and the index, for every number   *)
(* of shards and all bounds.                                                *)
THEOREM WatchForgetsNothing == WatchSpec => []WatchRemembers
BY WatchInvInit, WatchInvStep, PTL DEF WatchSpec, WatchInv

-------------------------------------------------------------------------------
(* The budget of the prompt router.  The argument: a hook under way owes at *)
(* most the cap of the session, and each overlap, lost count or aged file   *)
(* grants the cap once more.  One hook is not charged for: that of which    *)
(* the count it has read is not in the file any more, or will not be (the   *)
(* owner) -- or none, when the file holds the count (BudgetInv).            *)

Hook == [at : {"idle", "querying", "counting", "emptied", "injecting"},
         used : 0..SessionCap, fire : 0..SessionCap]

Busy(r) == r.at \in {"querying", "counting", "emptied"}

\* What the hook p of h may still inject, if it is not in O.
Charge(h, O, p) ==
  IF h[p].at = "injecting" THEN h[p].fire
  ELSE IF Busy(h[p]) /\ p \notin O THEN SessionCap ELSE 0

\* What the hooks may still inject, one element a token.
Load(c) == {x \in Prompts \X (1..SessionCap) : x[2] <= c[x[1]]}
Owed(h, O) == Cardinality(Load([p \in Prompts |-> Charge(h, O, p)]))

Granted == SessionCap * (1 + spoiled)

FileOwns == injected + Owed(hook, {}) + SessionCap <= Granted + tokens

\* The hook p owns; if it may end without a trace, so may the file.
HookOwns(p) ==
  /\ Busy(hook[p])
  /\ injected + Owed(hook, {p}) + SessionCap <= Granted + hook[p].used
  /\ hook[p].at # "emptied" /\ (\A q \in Prompts \ {p} : ~Busy(hook[q])) =>
       injected + Owed(hook, {p}) + SessionCap <= Granted + tokens

RouterTypes ==
  /\ tokens \in 0..SessionCap /\ injected \in Nat
  /\ prompted \in 0..MaxPrompts /\ spoiled \in 0..MaxSpoiled
  /\ hook \in [Prompts -> Hook]
  /\ \A p \in Prompts : hook[p].used + hook[p].fire <= SessionCap

BudgetInv == RouterTypes /\ (FileOwns \/ \E p \in Prompts : HookOwns(p))

-------------------------------------------------------------------------------
(* What is owed. *)

LEMMA LoadColumn ==
  ASSUME NEW p \in Prompts, NEW k \in 0..SessionCap
  PROVE  /\ IsFiniteSet({p} \X (1..k))
         /\ Cardinality({p} \X (1..k)) = k
<1>1. IsFiniteSet({p}) /\ Cardinality({p}) = 1
  BY FS_Singleton
<1>2. k \in Int /\ 1 \in Int /\ k >= 0
  OBVIOUS
<1>3. IsFiniteSet(1..k) /\ Cardinality(1..k) = k
  BY <1>2, FS_Interval
<1>4. Cardinality({p} \X (1..k)) = 1 * k /\ IsFiniteSet({p} \X (1..k))
  BY <1>1, <1>3, FS_Product
<1>5. QED
  BY <1>2, <1>4

LEMMA LoadChange ==
  ASSUME NEW c \in [Prompts -> 0..SessionCap], NEW c2 \in [Prompts -> 0..SessionCap],
         NEW p \in Prompts, \A q \in Prompts \ {p} : c2[q] = c[q]
  PROVE  /\ Cardinality(Load(c)) \in Nat /\ Cardinality(Load(c2)) \in Nat
         /\ Cardinality(Load(c2)) = Cardinality(Load(c)) - c[p] + c2[p]
<1> DEFINE Rest == {x \in Load(c) : x[1] # p}
           Col(k) == {p} \X (1..k)
<1>0. SessionCap \in Nat /\ c[p] \in 0..SessionCap /\ c2[p] \in 0..SessionCap
  BY RouterAssumption
<1>1. IsFiniteSet(Prompts \X (1..SessionCap))
  <2>1. IsFiniteSet(1..SessionCap)
    BY <1>0, FS_Interval
  <2>2. QED
    BY <2>1, RouterAssumption, FS_Product
<1>2. Rest \subseteq Prompts \X (1..SessionCap)
  BY DEF Load
<1>3. IsFiniteSet(Rest) /\ Cardinality(Rest) \in Nat
  BY <1>1, <1>2, FS_Subset, FS_CardinalityType
<1>4. Load(c) = Rest \cup Col(c[p])
  BY <1>0 DEF Load
<1>5. Load(c2) = Rest \cup Col(c2[p])
  BY <1>0 DEF Load
<1>6. \A k \in 0..SessionCap : Cardinality(Rest \cup Col(k)) = Cardinality(Rest) + k
  <2>1. SUFFICES ASSUME NEW k \in 0..SessionCap
                 PROVE  Cardinality(Rest \cup Col(k)) = Cardinality(Rest) + k
    OBVIOUS
  <2>2. IsFiniteSet(Col(k)) /\ Cardinality(Col(k)) = k
    BY LoadColumn
  <2>3. Rest \cap Col(k) = {}
    OBVIOUS
  <2>4. Cardinality(Rest \cup Col(k)) = Cardinality(Rest) + Cardinality(Col(k)) - 0
    <3>1. Cardinality(Rest \cap Col(k)) = 0
      BY <2>3, FS_EmptySet
    <3>2. Cardinality(Rest \cup Col(k))
            = Cardinality(Rest) + Cardinality(Col(k)) - Cardinality(Rest \cap Col(k))
      BY <1>3, <2>2, FS_Union
    <3>3. QED
      BY <3>1, <3>2
  <2>5. QED
    BY <1>3, <2>2, <2>4
<1>7. QED
  BY <1>0, <1>3, <1>4, <1>5, <1>6

LEMMA OwedType ==
  ASSUME NEW h \in [Prompts -> Hook], NEW O
  PROVE  Owed(h, O) \in Nat
<1>1. SessionCap \in Nat /\ IsFiniteSet(Prompts)
  BY RouterAssumption
<1>2. IsFiniteSet(1..SessionCap)
  BY <1>1, FS_Interval
<1>3. IsFiniteSet(Prompts \X (1..SessionCap))
  BY <1>1, <1>2, FS_Product
<1>4. Load([p \in Prompts |-> Charge(h, O, p)]) \subseteq Prompts \X (1..SessionCap)
  BY DEF Load
<1>5. QED
  BY <1>3, <1>4, FS_Subset, FS_CardinalityType DEF Owed

\* The hook p takes a step, or begins or ceases to own.
LEMMA OwedChange ==
  ASSUME NEW h \in [Prompts -> Hook], NEW h2 \in [Prompts -> Hook], NEW p \in Prompts,
         \A q \in Prompts \ {p} : h2[q] = h[q],
         NEW O, NEW O2, O \ {p} = O2 \ {p}
  PROVE  /\ Owed(h, O) \in Nat /\ Owed(h2, O2) \in Nat
         /\ Owed(h2, O2) = Owed(h, O) - Charge(h, O, p) + Charge(h2, O2, p)
<1> DEFINE c == [q \in Prompts |-> Charge(h, O, q)]
           c2 == [q \in Prompts |-> Charge(h2, O2, q)]
<1>1. SessionCap \in Nat
  BY RouterAssumption
<1>2. c \in [Prompts -> 0..SessionCap] /\ c2 \in [Prompts -> 0..SessionCap]
  BY <1>1 DEF Charge, Hook
<1>3. \A q \in Prompts \ {p} : c2[q] = c[q]
  BY DEF Charge
<1>4. c[p] = Charge(h, O, p) /\ c2[p] = Charge(h2, O2, p)
  OBVIOUS
<1> HIDE DEF c, c2
<1>5. QED
  BY <1>2, <1>3, <1>4, LoadChange DEF Owed, c, c2

\* What is asked of a hook that does not own.
Cost(r) == IF r.at = "injecting" THEN r.fire ELSE IF Busy(r) THEN SessionCap ELSE 0

\* The hook a takes a step.
OwedMove(a) ==
  /\ Owed(hook', {}) = Owed(hook, {}) - Cost(hook[a]) + Cost(hook'[a])
  /\ Busy(hook'[a]) => Owed(hook', {a}) = Owed(hook, {}) - Cost(hook[a])
  /\ Busy(hook[a]) => Owed(hook', {}) = Owed(hook, {a}) + Cost(hook'[a])
  /\ Busy(hook[a]) /\ Busy(hook'[a]) => Owed(hook', {a}) = Owed(hook, {a})
  /\ \A p \in Prompts \ {a} :
       Owed(hook', {p}) = Owed(hook, {p}) - Cost(hook[a]) + Cost(hook'[a])
  /\ Owed(hook, {}) \in Nat /\ Owed(hook', {}) \in Nat
  /\ \A p \in Prompts : Owed(hook, {p}) \in Nat /\ Owed(hook', {p}) \in Nat

LEMMA OwedMoves ==
  ASSUME RouterTypes, RouterTypes', NEW a \in Prompts,
         \A q \in Prompts \ {a} : hook'[q] = hook[q]
  PROVE  OwedMove(a)
<1>1. hook \in [Prompts -> Hook] /\ hook' \in [Prompts -> Hook] /\ SessionCap \in Nat
  BY RouterAssumption DEF RouterTypes
<1>2. /\ Charge(hook, {}, a) = Cost(hook[a]) /\ Charge(hook', {}, a) = Cost(hook'[a])
      /\ Busy(hook[a]) => Charge(hook, {a}, a) = 0
      /\ Busy(hook'[a]) => Charge(hook', {a}, a) = 0
      /\ \A p \in Prompts \ {a} : /\ Charge(hook, {p}, a) = Cost(hook[a])
                                  /\ Charge(hook', {p}, a) = Cost(hook'[a])
  BY DEF Charge, Cost, Busy
<1>3. Cost(hook[a]) \in Nat /\ Cost(hook'[a]) \in Nat
  BY <1>1 DEF Cost, Hook
<1>4. Owed(hook, {}) \in Nat /\ Owed(hook', {}) \in Nat
      /\ Owed(hook', {}) = Owed(hook, {}) - Cost(hook[a]) + Cost(hook'[a])
  BY <1>1, <1>2, OwedChange
<1>5. {a} \ {a} = {} \ {a}
  OBVIOUS
<1>6. Busy(hook'[a]) => Owed(hook', {a}) = Owed(hook, {}) - Cost(hook[a]) + 0
  BY <1>1, <1>2, <1>5, OwedChange
<1>7. Busy(hook[a]) => Owed(hook', {}) = Owed(hook, {a}) - 0 + Cost(hook'[a])
  BY <1>1, <1>2, <1>5, OwedChange
<1>8. \A O : Owed(hook, O) \in Nat /\ Owed(hook', O) \in Nat
  BY <1>1, OwedChange
<1>9. Busy(hook[a]) /\ Busy(hook'[a]) => Owed(hook', {a}) = Owed(hook, {a}) - 0 + 0
  BY <1>1, <1>2, OwedChange
<1>10. \A p \in Prompts \ {a} :
         Owed(hook', {p}) = Owed(hook, {p}) - Cost(hook[a]) + Cost(hook'[a])
  BY <1>1, <1>2, OwedChange
<1>11. QED
  BY <1>3, <1>4, <1>6, <1>7, <1>8, <1>9, <1>10 DEF OwedMove

\* Another hook under way may own.
LEMMA OwnerSwitch ==
  ASSUME NEW h \in [Prompts -> Hook], NEW q \in Prompts, Busy(h[q])
  PROVE  Owed(h, {q}) = Owed(h, {}) - SessionCap
<1>1. {q} \ {q} = {} \ {q}
  OBVIOUS
<1>2. Charge(h, {}, q) = SessionCap /\ Charge(h, {q}, q) = 0
  BY DEF Charge, Busy
<1>3. Owed(h, {}) \in Nat /\ SessionCap \in Nat
      /\ Owed(h, {q}) = Owed(h, {}) - SessionCap + 0
  BY <1>1, <1>2, OwedChange, RouterAssumption
<1>4. QED
  BY <1>3

LEMMA GrantedFacts ==
  ASSUME RouterTypes
  PROVE  /\ SessionCap \in Nat /\ Granted \in Nat
         /\ spoiled' = spoiled => Granted' = Granted
         /\ spoiled' = spoiled + 1 => Granted' = Granted + SessionCap
<1>1. SessionCap \in Nat /\ spoiled \in Nat
  BY RouterAssumption DEF RouterTypes
<1>2. \A a, b \in Nat : a * (1 + b) \in Nat /\ a * (1 + (b + 1)) = a * (1 + b) + a
  OBVIOUS
<1>3. QED
  BY <1>1, <1>2 DEF Granted

-------------------------------------------------------------------------------
(* Every step keeps the invariant: first the types, then what is owed. *)

LEMMA RouterTypesStep ==
  ASSUME RouterTypes, RouterNext
  PROVE  RouterTypes'
<1> USE DEF RouterTypes
<1>0. /\ SessionCap \in Nat /\ PerFireCap \in Nat /\ MinFire \in Nat
      /\ MaxPrompts \in Nat /\ MaxSpoiled \in Nat
  BY RouterAssumption
<1>s. Spoil => spoiled' \in 0..MaxSpoiled
  BY <1>0 DEF Spoil
<1>x. \A r \in Hook : /\ r = [at |-> r.at, used |-> r.used, fire |-> r.fire]
                       /\ r.used \in 0..SessionCap /\ r.fire \in 0..SessionCap
  BY DEF Hook
<1>h. ASSUME NEW p \in Prompts, NEW r \in Hook, r.used + r.fire <= SessionCap,
             hook' = [hook EXCEPT ![p] = r]
      PROVE  /\ hook' \in [Prompts -> Hook]
             /\ \A q \in Prompts : hook'[q].used + hook'[q].fire <= SessionCap
  BY <1>h
<1>r. Silent \in Hook /\ Silent.used + Silent.fire <= SessionCap
  BY <1>0 DEF Silent, Hook
<1>1. ASSUME NEW p \in Prompts, Prompt(p) PROVE RouterTypes'
  <2> DEFINE r == [at |-> "querying", used |-> tokens, fire |-> 0]
  <2>1. r \in Hook /\ r.used + r.fire <= SessionCap
    BY <1>0 DEF Hook
  <2>2. hook' = [hook EXCEPT ![p] = r] /\ UNCHANGED <<tokens, injected>>
        /\ prompted' \in 0..MaxPrompts /\ spoiled' \in 0..MaxSpoiled
    BY <1>0, <1>1, <1>s DEF Prompt
  <2> HIDE DEF r
  <2>3. QED
    BY <1>h, <2>1, <2>2
<1>2. ASSUME NEW p \in Prompts, Answered(p) PROVE RouterTypes'
  <2>1. PICK n \in 1..MaxAnswer :
          hook' = [hook EXCEPT ![p] =
                     [at |-> "counting", used |-> hook[p].used,
                      fire |-> IF n > FireCap(hook[p].used) THEN FireCap(hook[p].used) ELSE n]]
    BY <1>2 DEF Answered
  <2> DEFINE f == IF n > FireCap(hook[p].used) THEN FireCap(hook[p].used) ELSE n
             r == [at |-> "counting", used |-> hook[p].used, fire |-> f]
  <2>2. hook[p].used \in 0..SessionCap /\ n \in Nat
    BY DEF Hook
  <2>3. FireCap(hook[p].used) \in Nat /\ FireCap(hook[p].used) <= SessionCap - hook[p].used
    BY <1>0, <2>2 DEF FireCap
  <2>4. f \in Nat /\ f <= SessionCap - hook[p].used
    <3>1. CASE n > FireCap(hook[p].used)
      BY <2>3, <3>1
    <3>2. CASE ~(n > FireCap(hook[p].used))
      BY <1>0, <2>2, <2>3, <3>2
    <3>3. QED
      BY <3>1, <3>2
  <2>5. hook' = [hook EXCEPT ![p] = r]
    BY <2>1
  <2> HIDE DEF f
  <2>6. r \in Hook /\ r.used + r.fire <= SessionCap
    BY <1>0, <2>2, <2>4 DEF Hook
  <2>7. UNCHANGED <<tokens, prompted, injected, spoiled>>
    BY <1>2 DEF Answered
  <2> HIDE DEF r
  <2>8. QED
    BY <1>h, <2>5, <2>6, <2>7
<1>3. ASSUME NEW p \in Prompts, NEW at \in {"emptied", "injecting"},
             hook' = [hook EXCEPT ![p].at = at], tokens' \in 0..SessionCap,
             prompted' = prompted, injected' = injected, spoiled' \in 0..MaxSpoiled
      PROVE  RouterTypes'
  <2> DEFINE r == [at |-> at, used |-> hook[p].used, fire |-> hook[p].fire]
  <2>1. r \in Hook /\ r.used + r.fire <= SessionCap
    BY DEF Hook
  <2>2. hook' = [hook EXCEPT ![p] = r]
    <3>1. hook[p] \in Hook /\ hook[p] = [at |-> hook[p].at, used |-> hook[p].used, fire |-> hook[p].fire]
      BY <1>x
    <3>2. hook' = [hook EXCEPT ![p] = [hook[p] EXCEPT !.at = at]]
      BY <1>3
    <3>3. [hook[p] EXCEPT !.at = at] = r
      BY <3>1
    <3>4. QED
      BY <3>2, <3>3
  <2> HIDE DEF r
  <2>3. QED
    BY <1>h, <1>3, <2>1, <2>2
<1>4. ASSUME NEW p \in Prompts, Empty(p) PROVE RouterTypes'
  <2>1. hook' = [hook EXCEPT ![p].at = "emptied"] /\ tokens' = 0
        /\ UNCHANGED <<prompted, injected, spoiled>>
    BY <1>4 DEF Empty
  <2>2. tokens' \in 0..SessionCap /\ spoiled' \in 0..MaxSpoiled
    BY <1>0, <2>1
  <2>3. QED
    BY <1>3, <2>1, <2>2
<1>5. ASSUME NEW p \in Prompts, Counted(p) PROVE RouterTypes'
  <2>1. hook[p].used + hook[p].fire \in 0..SessionCap
    BY <1>0 DEF Hook
  <2>2. QED
    BY <1>3, <1>5, <2>1 DEF Counted
<1>6. ASSUME NEW p \in Prompts, NotCounted(p) PROVE RouterTypes'
  BY <1>3, <1>6, <1>s DEF NotCounted
<1>7. ASSUME NEW p \in Prompts, Inject(p) PROVE RouterTypes'
  <2>1. injected' \in Nat /\ hook' = [hook EXCEPT ![p] = Silent]
        /\ UNCHANGED <<tokens, prompted, spoiled>>
    BY <1>7 DEF Inject, Hook
  <2>2. QED
    BY <1>h, <1>r, <2>1
<1>8. ASSUME NEW p \in Prompts, StaysSilent(p) PROVE RouterTypes'
  <2>1. spoiled' \in 0..MaxSpoiled /\ hook' = [hook EXCEPT ![p] = Silent]
        /\ UNCHANGED <<tokens, prompted, injected>>
    BY <1>8, <1>s DEF StaysSilent
  <2>2. QED
    BY <1>h, <1>r, <2>1
<1>9. CASE AgedOut
  BY <1>0, <1>9, <1>s DEF AgedOut
<1>10. QED
  BY <1>1, <1>2, <1>4, <1>5, <1>6, <1>7, <1>8, <1>9 DEF RouterNext

\* What a hook that steps may count on, where another one owns.
LEMMA OwedStep ==
  ASSUME BudgetInv, RouterNext
  PROVE  (FileOwns \/ \E p \in Prompts : HookOwns(p))'
<1>t. RouterTypes /\ RouterTypes'
  BY RouterTypesStep DEF BudgetInv
<1>g. /\ SessionCap \in Nat /\ Granted \in Nat
      /\ spoiled' = spoiled => Granted' = Granted
      /\ spoiled' = spoiled + 1 => Granted' = Granted + SessionCap
  BY <1>t, GrantedFacts
<1>n. /\ tokens \in Nat /\ tokens <= SessionCap /\ tokens' \in Nat /\ tokens' <= SessionCap
      /\ injected \in Nat /\ injected' \in Nat
      /\ hook \in [Prompts -> Hook] /\ hook' \in [Prompts -> Hook]
  BY <1>t, <1>g DEF RouterTypes
<1>u. \A p \in Prompts : /\ hook[p].used \in Nat /\ hook[p].fire \in Nat
                         /\ hook[p].used + hook[p].fire <= SessionCap
                         /\ hook[p].used <= SessionCap /\ hook[p].fire <= SessionCap
                         /\ Owed(hook, {p}) \in Nat
  <2>1. SUFFICES ASSUME NEW p \in Prompts
                 PROVE  /\ hook[p].used \in Nat /\ hook[p].fire \in Nat
                        /\ hook[p].used + hook[p].fire <= SessionCap
                        /\ hook[p].used <= SessionCap /\ hook[p].fire <= SessionCap
                        /\ Owed(hook, {p}) \in Nat
    OBVIOUS
  <2>2. hook[p] \in Hook /\ hook[p].used + hook[p].fire <= SessionCap
    BY <1>t DEF RouterTypes
  <2>3. Owed(hook, {p}) \in Nat
    BY <1>n, OwedType
  <2>4. QED
    BY <1>g, <2>2, <2>3 DEF Hook
<1>o. FileOwns \/ \E p \in Prompts : HookOwns(p)
  BY DEF BudgetInv
\* What a hook that owns says of the rest.
<1>p. \A p \in Prompts : HookOwns(p) => injected + Owed(hook, {p}) <= Granted
  BY <1>g, <1>n, <1>u DEF HookOwns
<1>f. FileOwns => injected + Owed(hook, {}) <= Granted
  <2>1. Owed(hook, {}) \in Nat
    BY <1>n, OwedType
  <2>2. QED
    BY <1>g, <1>n, <2>1 DEF FileOwns
<1>m. ASSUME NEW a \in Prompts, \A q \in Prompts \ {a} : hook'[q] = hook[q]
      PROVE  OwedMove(a)
  BY <1>t, <1>m, OwedMoves
<1> DEFINE Goal == (FileOwns \/ \E p \in Prompts : HookOwns(p))'
<1>1. ASSUME NEW a \in Prompts, Prompt(a) PROVE Goal
  <2>1. /\ hook[a] = Silent /\ \A q \in Prompts \ {a} : hook'[q] = hook[q]
        /\ hook'[a] = [at |-> "querying", used |-> tokens, fire |-> 0]
        /\ tokens' = tokens /\ injected' = injected
    BY <1>1, <1>n DEF Prompt
  <2>2. /\ ~Busy(hook[a]) /\ Cost(hook[a]) = 0 /\ Busy(hook'[a]) /\ Cost(hook'[a]) = SessionCap
        /\ hook'[a].used = tokens
    BY <2>1 DEF Silent, Busy, Cost
  <2>m. OwedMove(a)
    BY <1>m, <2>1
  <2>u. hook[a].used \in Nat /\ hook[a].fire \in Nat
        /\ hook[a].used + hook[a].fire <= SessionCap
    BY <1>u
  <2>3. /\ Owed(hook', {}) = Owed(hook, {}) + SessionCap
        /\ Owed(hook', {a}) = Owed(hook, {})
        /\ \A p \in Prompts \ {a} : Owed(hook', {p}) = Owed(hook, {p}) + SessionCap
        /\ Owed(hook, {}) \in Nat
    BY <1>g, <2>2, <2>m, <2>u DEF OwedMove
  <2>4. CASE Running = {} /\ spoiled' = spoiled
    <3>1. \A p \in Prompts : ~Busy(hook[p])
      BY <2>4 DEF Running, Busy
    <3>2. FileOwns
      BY <1>o, <3>1 DEF HookOwns
    <3>3. HookOwns(a)'
      BY <1>g, <2>1, <2>2, <2>3, <2>4, <3>2 DEF FileOwns, HookOwns
    <3>4. QED
      BY <3>3
  <2>5. CASE spoiled' = spoiled + 1
    <3>1. CASE FileOwns
      <4>1. FileOwns'
        BY <1>g, <1>n, <2>1, <2>3, <2>5, <3>1 DEF FileOwns
      <4>2. QED
        BY <4>1
    <3>2. ASSUME NEW p \in Prompts, HookOwns(p) PROVE Goal
      <4>1. p # a /\ hook'[p] = hook[p]
        BY <2>1, <2>2, <3>2 DEF HookOwns
      <4>2. injected' + Owed(hook', {p}) + SessionCap <= Granted' + hook'[p].used
        BY <1>g, <1>n, <1>u, <2>1, <2>3, <2>5, <3>2, <4>1 DEF HookOwns
      <4>3. HookOwns(p)'
        BY <2>2, <3>2, <4>1, <4>2 DEF HookOwns
      <4>4. QED
        BY <4>3
    <3>3. QED
      BY <1>o, <3>1, <3>2
  <2>6. QED
    BY <1>1, <2>4, <2>5 DEF Prompt, Spoil
<1>2. ASSUME NEW a \in Prompts, Answered(a) PROVE Goal
  <2>1. /\ hook[a].at = "querying" /\ \A q \in Prompts \ {a} : hook'[q] = hook[q]
        /\ hook'[a].at = "counting" /\ hook'[a].used = hook[a].used
        /\ tokens' = tokens /\ injected' = injected /\ spoiled' = spoiled
    BY <1>2, <1>n DEF Answered
  <2>2. /\ Busy(hook[a]) /\ Busy(hook'[a])
        /\ Cost(hook[a]) = SessionCap /\ Cost(hook'[a]) = SessionCap
    BY <2>1 DEF Busy, Cost
  <2>m. OwedMove(a)
    BY <1>m, <2>1
  <2>u. hook[a].used \in Nat /\ hook[a].fire \in Nat
        /\ hook[a].used + hook[a].fire <= SessionCap
    BY <1>u
  <2>3. /\ Owed(hook', {}) = Owed(hook, {})
        /\ \A p \in Prompts : Owed(hook', {p}) = Owed(hook, {p})
    <3>1. Owed(hook', {}) = Owed(hook, {}) /\ Owed(hook', {a}) = Owed(hook, {a})
      BY <1>g, <2>2, <2>m DEF OwedMove
    <3>2. SUFFICES ASSUME NEW p \in Prompts \ {a}
                   PROVE  Owed(hook', {p}) = Owed(hook, {p})
      BY <3>1
    <3>3. Owed(hook', {p}) = Owed(hook, {p}) - Cost(hook[a]) + Cost(hook'[a])
          /\ Owed(hook, {p}) \in Nat
      BY <2>m DEF OwedMove
    <3>4. QED
      BY <1>g, <2>2, <3>3
  <2>4. \A p \in Prompts : /\ hook'[p].used = hook[p].used /\ (Busy(hook'[p]) <=> Busy(hook[p]))
                           /\ (hook'[p].at = "emptied" <=> hook[p].at = "emptied")
    BY <2>1, <2>2
  <2>5. FileOwns => FileOwns'
    BY <1>g, <2>1, <2>3 DEF FileOwns
  <2>6. \A p \in Prompts : HookOwns(p) => HookOwns(p)'
    BY <1>g, <2>1, <2>3, <2>4 DEF HookOwns
  <2>7. QED
    BY <1>o, <2>5, <2>6
<1>3. ASSUME NEW a \in Prompts, Empty(a) PROVE Goal
  <2>1. /\ hook[a].at = "counting" /\ \A q \in Prompts \ {a} : hook'[q] = hook[q]
        /\ hook'[a].at = "emptied" /\ hook'[a].used = hook[a].used
        /\ tokens' = 0 /\ injected' = injected /\ spoiled' = spoiled
    BY <1>3, <1>n DEF Empty, Hook
  <2>2. /\ Busy(hook[a]) /\ Busy(hook'[a])
        /\ Cost(hook[a]) = SessionCap /\ Cost(hook'[a]) = SessionCap
    BY <2>1 DEF Busy, Cost
  <2>m. OwedMove(a)
    BY <1>m, <2>1
  <2>u. hook[a].used \in Nat /\ hook[a].fire \in Nat
        /\ hook[a].used + hook[a].fire <= SessionCap
    BY <1>u
  <2>3. /\ Owed(hook', {a}) = Owed(hook, {}) - SessionCap
        /\ \A p \in Prompts : Owed(hook', {p}) = Owed(hook, {p})
        /\ Owed(hook, {}) \in Nat
    <3>1. Owed(hook', {a}) = Owed(hook, {}) - SessionCap /\ Owed(hook, {}) \in Nat
      BY <2>2, <2>m DEF OwedMove
    <3>2. Owed(hook', {a}) = Owed(hook, {a})
      BY <2>2, <2>m DEF OwedMove
    <3>3. SUFFICES ASSUME NEW p \in Prompts \ {a}
                   PROVE  Owed(hook', {p}) = Owed(hook, {p})
      BY <3>1, <3>2
    <3>4. Owed(hook', {p}) = Owed(hook, {p}) - SessionCap + SessionCap
          /\ Owed(hook, {p}) \in Nat
      BY <2>2, <2>m DEF OwedMove
    <3>5. QED
      BY <1>g, <3>4
  <2>4. CASE FileOwns
    <3>1. injected' + Owed(hook', {a}) + SessionCap <= Granted' + hook'[a].used
      BY <1>f, <1>g, <1>n, <1>u, <2>1, <2>3, <2>4
    <3>2. HookOwns(a)'
      BY <2>1, <2>2, <3>1 DEF HookOwns
    <3>3. QED
      BY <3>2
  <2>5. ASSUME NEW p \in Prompts, HookOwns(p) PROVE Goal
    <3>1. Busy(hook'[p]) /\ hook'[p].used = hook[p].used
      BY <2>1, <2>2, <2>5 DEF HookOwns
    <3>2. injected' + Owed(hook', {p}) + SessionCap <= Granted' + hook'[p].used
      BY <1>g, <2>1, <2>3, <2>5, <3>1 DEF HookOwns
    <3>3. HookOwns(p)'
      BY <2>1, <2>2, <3>1, <3>2 DEF HookOwns
    <3>4. QED
      BY <3>3
  <2>6. QED
    BY <1>o, <2>4, <2>5
<1>4. ASSUME NEW a \in Prompts, Counted(a) \/ NotCounted(a) PROVE Goal
  <2>1. /\ hook[a].at \in {"counting", "emptied"} /\ \A q \in Prompts \ {a} : hook'[q] = hook[q]
        /\ hook'[a].at = "injecting" /\ hook'[a].fire = hook[a].fire
        /\ injected' = injected
        /\ \/ tokens' = hook[a].used + hook[a].fire /\ spoiled' = spoiled
           \/ tokens' = tokens /\ spoiled' = spoiled + 1
    BY <1>4, <1>n DEF Counted, NotCounted, Spoil, Hook
  <2>2. /\ Busy(hook[a]) /\ ~Busy(hook'[a])
        /\ Cost(hook[a]) = SessionCap /\ Cost(hook'[a]) = hook[a].fire
    BY <2>1 DEF Busy, Cost
  <2>m. OwedMove(a)
    BY <1>m, <2>1
  <2>u. hook[a].used \in Nat /\ hook[a].fire \in Nat
        /\ hook[a].used + hook[a].fire <= SessionCap
    BY <1>u
  <2>3. /\ Owed(hook', {}) = Owed(hook, {}) - SessionCap + hook[a].fire
        /\ Owed(hook', {}) = Owed(hook, {a}) + hook[a].fire
        /\ \A p \in Prompts \ {a} : Owed(hook', {p}) = Owed(hook, {p}) - SessionCap + hook[a].fire
        /\ Owed(hook, {}) \in Nat
    BY <1>g, <2>2, <2>m, <2>u DEF OwedMove
  \* What is granted and in the file make up for the answer.
  <2>4. Granted' + tokens' \in Nat /\ Granted + hook[a].fire <= Granted' + tokens'
    <3>1. CASE tokens' = hook[a].used + hook[a].fire /\ spoiled' = spoiled
      BY <1>g, <1>n, <2>u, <3>1
    <3>2. CASE tokens' = tokens /\ spoiled' = spoiled + 1
      BY <1>g, <1>n, <2>u, <3>2
    <3>3. QED
      BY <2>1, <3>1, <3>2
  <2>5. Granted' \in Nat /\ Granted <= Granted'
    BY <1>g, <2>1
  <2>6. CASE FileOwns
    <3>1. FileOwns'
      BY <1>f, <1>g, <1>n, <1>u, <2>1, <2>3, <2>4, <2>6 DEF FileOwns
    <3>2. QED
      BY <3>1
  <2>7. CASE HookOwns(a)
    <3>1. injected + Owed(hook, {a}) + SessionCap <= Granted + hook[a].used
      BY <2>7 DEF HookOwns
    <3>2. injected' + Owed(hook', {}) + SessionCap <= Granted' + tokens'
      <4>1. CASE tokens' = hook[a].used + hook[a].fire /\ spoiled' = spoiled
        BY <1>g, <1>n, <1>u, <2>1, <2>3, <3>1, <4>1
      <4>2. CASE tokens' = tokens /\ spoiled' = spoiled + 1
        BY <1>g, <1>n, <1>u, <2>1, <2>3, <3>1, <4>2
      <4>3. QED
        BY <2>1, <4>1, <4>2
    <3>3. FileOwns'
      BY <3>2 DEF FileOwns
    <3>4. QED
      BY <3>3
  <2>8. ASSUME NEW p \in Prompts \ {a}, HookOwns(p) PROVE Goal
    <3>1. hook'[p] = hook[p] /\ injected + Owed(hook, {p}) <= Granted
      BY <1>p, <2>1, <2>8
    <3>2. injected' + Owed(hook', {p}) + SessionCap <= Granted' + hook'[p].used
      BY <1>g, <1>n, <1>u, <2>1, <2>3, <2>5, <2>8, <3>1 DEF HookOwns
    <3>3. injected' + Owed(hook', {p}) + SessionCap <= Granted' + tokens'
      BY <1>g, <1>n, <1>u, <2>1, <2>3, <2>4, <2>8, <3>1
    <3>4. HookOwns(p)'
      BY <2>8, <3>1, <3>2, <3>3 DEF HookOwns
    <3>5. QED
      BY <3>4
  <2>9. QED
    BY <1>o, <2>6, <2>7, <2>8
<1>5. ASSUME NEW a \in Prompts, Inject(a) PROVE Goal
  <2>1. /\ hook[a].at = "injecting" /\ \A q \in Prompts \ {a} : hook'[q] = hook[q]
        /\ hook'[a] = Silent
        /\ tokens' = tokens /\ injected' = injected + hook[a].fire /\ spoiled' = spoiled
    BY <1>5, <1>n DEF Inject
  <2>2. /\ ~Busy(hook[a]) /\ ~Busy(hook'[a])
        /\ Cost(hook[a]) = hook[a].fire /\ Cost(hook'[a]) = 0
    BY <2>1 DEF Busy, Cost, Silent
  <2>m. OwedMove(a)
    BY <1>m, <2>1
  <2>u. hook[a].used \in Nat /\ hook[a].fire \in Nat
        /\ hook[a].used + hook[a].fire <= SessionCap
    BY <1>u
  <2>3. /\ Owed(hook', {}) = Owed(hook, {}) - hook[a].fire
        /\ \A p \in Prompts \ {a} : Owed(hook', {p}) = Owed(hook, {p}) - hook[a].fire
        /\ Owed(hook, {}) \in Nat /\ Owed(hook', {}) \in Nat
        /\ \A p \in Prompts : Owed(hook', {p}) \in Nat
    <3>1. /\ Owed(hook, {}) \in Nat /\ Owed(hook', {}) \in Nat
          /\ \A p \in Prompts : Owed(hook', {p}) \in Nat
      BY <2>m DEF OwedMove
    <3>2. Owed(hook', {}) = Owed(hook, {}) - hook[a].fire + 0
      BY <2>2, <2>m DEF OwedMove
    <3>3. Owed(hook', {}) = Owed(hook, {}) - hook[a].fire
      BY <2>u, <3>1, <3>2
    <3>4. SUFFICES ASSUME NEW p \in Prompts \ {a}
                   PROVE  Owed(hook', {p}) = Owed(hook, {p}) - hook[a].fire
      BY <3>1, <3>3
    <3>5. Owed(hook', {p}) = Owed(hook, {p}) - hook[a].fire + 0 /\ Owed(hook, {p}) \in Nat
      BY <2>2, <2>m DEF OwedMove
    <3>6. QED
      BY <2>u, <3>5
  <2>4. /\ injected' + Owed(hook', {}) = injected + Owed(hook, {})
        /\ \A p \in Prompts \ {a} : injected' + Owed(hook', {p}) = injected + Owed(hook, {p})
    BY <1>n, <2>u, <2>1, <2>3, <1>u
  <2>5. FileOwns => FileOwns'
    BY <1>g, <2>1, <2>4 DEF FileOwns
  <2>6. ASSUME NEW p \in Prompts, HookOwns(p) PROVE Goal
    <3>1. p # a /\ hook'[p] = hook[p]
      BY <2>1, <2>2, <2>6 DEF HookOwns
    <3>2. /\ \A q \in Prompts : Busy(hook'[q]) <=> Busy(hook[q])
          /\ injected' + Owed(hook', {p}) = injected + Owed(hook, {p})
      BY <2>1, <2>2, <2>4, <3>1
    <3>3. HookOwns(p)'
      BY <1>g, <2>1, <2>6, <3>1, <3>2 DEF HookOwns
    <3>4. QED
      BY <3>3
  <2>7. QED
    BY <1>o, <2>5, <2>6
<1>6. ASSUME NEW a \in Prompts, StaysSilent(a) PROVE Goal
  <2>1. /\ hook[a].at # "idle" /\ \A q \in Prompts \ {a} : hook'[q] = hook[q]
        /\ hook'[a] = Silent /\ tokens' = tokens /\ injected' = injected
        /\ hook[a].at = "emptied" => spoiled' = spoiled + 1
        /\ hook[a].at # "emptied" => spoiled' = spoiled
    BY <1>6, <1>n DEF StaysSilent, Running, Spoil
  <2>w. hook[a].fire \in Nat
    BY <1>u
  <2>2. /\ ~Busy(hook'[a]) /\ Cost(hook'[a]) = 0 /\ Cost(hook[a]) \in Nat
        /\ Busy(hook[a]) => Cost(hook[a]) = SessionCap
    BY <1>g, <2>w, <2>1 DEF Busy, Cost, Silent
  <2>m. OwedMove(a)
    BY <1>m, <2>1
  <2>u. hook[a].used \in Nat /\ hook[a].fire \in Nat
        /\ hook[a].used + hook[a].fire <= SessionCap
    BY <1>u
  <2>3. /\ Owed(hook', {}) = Owed(hook, {}) - Cost(hook[a])
        /\ Busy(hook[a]) => Owed(hook', {}) = Owed(hook, {a})
        /\ \A p \in Prompts \ {a} : Owed(hook', {p}) = Owed(hook, {p}) - Cost(hook[a])
        /\ Owed(hook, {}) \in Nat /\ Owed(hook', {}) \in Nat
        /\ \A p \in Prompts : Owed(hook', {p}) \in Nat
    BY <1>g, <2>2, <2>m, <2>u DEF OwedMove
  <2>4. Granted' \in Nat /\ Granted <= Granted'
    BY <1>g, <2>1
  <2>5. CASE FileOwns
    <3>1. FileOwns'
      BY <1>g, <1>n, <2>1, <2>2, <2>3, <2>4, <2>5 DEF FileOwns
    <3>2. QED
      BY <3>1
  <2>6. CASE HookOwns(a)
    <3>1. Busy(hook[a]) /\ injected + Owed(hook, {a}) <= Granted
      BY <1>p, <2>6 DEF HookOwns
    <3>2. CASE hook[a].at = "emptied"
      <4>1. FileOwns'
        BY <1>g, <1>n, <1>u, <2>1, <2>3, <3>1, <3>2 DEF FileOwns
      <4>2. QED
        BY <4>1
    <3>3. CASE hook[a].at # "emptied" /\ \A q \in Prompts \ {a} : ~Busy(hook[q])
      <4>1. injected + Owed(hook, {a}) + SessionCap <= Granted + tokens
        BY <2>6, <3>3 DEF HookOwns
      <4>2. FileOwns'
        BY <1>g, <2>1, <2>3, <3>1, <3>3, <4>1 DEF FileOwns
      <4>3. QED
        BY <4>2
    <3>4. ASSUME NEW q \in Prompts \ {a}, Busy(hook[q]) PROVE Goal
      <4>1. Busy(hook'[q]) /\ hook'[q] = hook[q]
        BY <2>1, <3>4
      <4>2. Owed(hook', {q}) = Owed(hook, {a}) - SessionCap
        BY <1>n, <2>3, <3>1, <4>1, OwnerSwitch
      <4>3. /\ injected' + Owed(hook', {q}) + SessionCap <= Granted' + hook'[q].used
            /\ injected' + Owed(hook', {q}) + SessionCap <= Granted' + tokens'
        BY <1>g, <1>n, <1>u, <2>1, <2>4, <3>1, <4>1, <4>2
      <4>4. HookOwns(q)'
        BY <4>1, <4>3 DEF HookOwns
      <4>5. QED
        BY <4>4
    <3>5. QED
      BY <3>2, <3>3, <3>4
  <2>7. ASSUME NEW p \in Prompts \ {a}, HookOwns(p) PROVE Goal
    <3>1. hook'[p] = hook[p] /\ injected + Owed(hook, {p}) <= Granted
      BY <1>p, <2>1, <2>7
    <3>2. Owed(hook', {p}) <= Owed(hook, {p})
      BY <1>u, <2>2, <2>3, <2>7
    <3>3. injected' + Owed(hook', {p}) + SessionCap <= Granted' + hook'[p].used
      BY <1>g, <1>n, <1>u, <2>1, <2>3, <2>4, <2>7, <3>1, <3>2 DEF HookOwns
    <3>4. CASE Busy(hook[a])
      <4>1. injected' + Owed(hook', {p}) + SessionCap <= Granted' + tokens'
        BY <1>g, <1>n, <1>u, <2>1, <2>2, <2>3, <2>4, <2>7, <3>1, <3>4
      <4>2. HookOwns(p)'
        BY <2>7, <3>1, <3>3, <4>1 DEF HookOwns
      <4>3. QED
        BY <4>2
    <3>5. CASE ~Busy(hook[a])
      <4>1. \A q \in Prompts : Busy(hook'[q]) <=> Busy(hook[q])
        BY <2>1, <2>2, <3>5
      <4>2. injected + Owed(hook, {p}) + SessionCap <= Granted + tokens
            => injected' + Owed(hook', {p}) + SessionCap <= Granted' + tokens'
        BY <1>g, <1>n, <1>u, <2>1, <2>3, <2>4, <2>7, <3>2
      <4>3. HookOwns(p)'
        BY <2>7, <3>1, <3>3, <4>1, <4>2 DEF HookOwns
      <4>4. QED
        BY <4>3
    <3>6. QED
      BY <3>4, <3>5
  <2>8. QED
    BY <1>o, <2>5, <2>6, <2>7
<1>7. CASE AgedOut
  <2>1. tokens' = 0 /\ spoiled' = spoiled + 1 /\ hook' = hook /\ injected' = injected
    BY <1>7 DEF AgedOut, Spoil
  <2>2. FileOwns => FileOwns'
    BY <1>f, <1>g, <1>n, <2>1, OwedType DEF FileOwns
  <2>3. ASSUME NEW p \in Prompts, HookOwns(p) PROVE HookOwns(p)'
    <3>1. injected + Owed(hook, {p}) <= Granted
      BY <1>p, <2>3
    <3>2. /\ injected + Owed(hook, {p}) + SessionCap <= Granted' + hook[p].used
          /\ injected + Owed(hook, {p}) + SessionCap <= Granted' + 0
      BY <1>g, <1>n, <1>u, <2>1, <3>1
    <3>3. QED
      BY <2>1, <2>3, <3>2 DEF HookOwns
  <2>4. QED
    BY <1>o, <2>2, <2>3
<1>8. QED
  BY <1>1, <1>2, <1>3, <1>4, <1>5, <1>6, <1>7 DEF RouterNext

LEMMA BudgetHolds == RouterSpec => []BudgetInv
<1>1. RouterInit => BudgetInv
  <2> SUFFICES ASSUME RouterInit PROVE BudgetInv
    OBVIOUS
  <2>1. SessionCap \in Nat /\ MaxPrompts \in Nat /\ MaxSpoiled \in Nat
    BY RouterAssumption
  <2>2. RouterTypes
    BY <2>1 DEF RouterInit, RouterTypes, Silent, Hook
  <2>3. Owed(hook, {}) = 0
    <3>1. [p \in Prompts |-> Charge(hook, {}, p)] = [p \in Prompts |-> 0]
      BY DEF RouterInit, Charge, Silent, Busy
    <3>2. Load([p \in Prompts |-> 0]) = {}
      BY <2>1 DEF Load
    <3>3. QED
      BY <3>1, <3>2, FS_EmptySet DEF Owed
  <2>4. Granted = SessionCap
    BY <2>1 DEF RouterInit, Granted
  <2>5. FileOwns
    BY <2>1, <2>3, <2>4 DEF RouterInit, FileOwns
  <2>6. QED
    BY <2>2, <2>5 DEF BudgetInv
<1>2. BudgetInv /\ [RouterNext]_routerVars => BudgetInv'
  <2> SUFFICES ASSUME BudgetInv, [RouterNext]_routerVars PROVE BudgetInv'
    OBVIOUS
  <2>1. CASE RouterNext
    BY <2>1, RouterTypesStep, OwedStep DEF BudgetInv
  <2>2. CASE UNCHANGED routerVars
    BY <2>2 DEF BudgetInv, RouterTypes, FileOwns, HookOwns, Granted, routerVars
  <2>3. QED
    BY <2>1, <2>2
<1>3. QED
  BY <1>1, <1>2, PTL DEF RouterSpec

(* However many hooks of a session overlap, lose their count or are killed, *)
(* and whatever becomes of the file, no more is injected than the cap once, *)
(* and once more for each overlap, lost count and aged file                 *)
(* (user-prompt-router.sh:28-38, 113-122).                                  *)
THEOREM BudgetIsKept == RouterSpec => []BudgetKept
<1>1. BudgetInv => BudgetKept
  <2> SUFFICES ASSUME BudgetInv PROVE BudgetKept
    OBVIOUS
  <2>1. /\ SessionCap \in Nat /\ Granted \in Nat /\ injected \in Nat
        /\ tokens \in 0..SessionCap /\ hook \in [Prompts -> Hook]
    BY GrantedFacts DEF BudgetInv, RouterTypes
  <2>2. \A O : Owed(hook, O) \in Nat
    BY <2>1, OwedType
  <2>3. CASE FileOwns
    BY <2>1, <2>2, <2>3 DEF FileOwns, BudgetKept, Granted
  <2>4. ASSUME NEW p \in Prompts, HookOwns(p) PROVE BudgetKept
    <3>1. hook[p].used \in 0..SessionCap
      BY <2>1 DEF Hook
    <3>2. injected <= Granted
      BY <2>1, <2>2, <2>4, <3>1 DEF HookOwns
    <3>3. QED
      BY <3>2 DEF BudgetKept, Granted
  <2>5. QED
    BY <2>3, <2>4 DEF BudgetInv
<1>2. QED
  BY <1>1, BudgetHolds, PTL

-------------------------------------------------------------------------------
(***************************************************************************)
(* That redaction cuts exactly what was found and loses no field, for      *)
(* every text, spans, keys and names.                                      *)
(*                                                                         *)
(* The argument: the merged spans lie apart, and cover what the spans gone *)
(* through so far do (MergeInv), because none that is to come begins       *)
(* before one of them; so the pieces written so far tell what becomes of   *)
(* the text up to the last span (WriteInv).  A field is put where none is, *)
(* because a name with one of c + 1 numbers is not among the c taken ones  *)
(* (FreeNameIsFree).                                                       *)
(***************************************************************************)

InSpan(sp, p) == sp.lo <= p /\ p < sp.hi
Covers(s, p) == \E i \in DOMAIN s : InSpan(s[i], p)
Apart(s) == \A i, j \in DOMAIN s : i < j => s[i].hi <= s[j].lo

CutsOf(s) == {i \in DOMAIN s : s[i].cut = TRUE}

\* The piece x tells what becomes of its part of the text.
True(x) == \A p \in x.lo..(x.hi - 1) : x.cut = TRUE <=> Covered(p)

\* The pieces s tell what becomes of the text up to e.
Tells(s, e) ==
  /\ \A i \in DOMAIN s : /\ i = 1 => s[i].lo = 0
                         /\ i # 1 => s[i].lo = s[i - 1].hi
                         /\ True(s[i])
  /\ s = <<>> => e = 0
  /\ s # <<>> => s[Len(s)].hi = e

MergeInv ==
  /\ next <= Len(found) + 1
  /\ pieces = <<>> /\ last = 0 /\ hits = 0
  /\ Apart(merged)
  /\ \A i \in DOMAIN merged : \A k \in next..Len(found) : merged[i].lo <= found[k].lo
  /\ \A p \in Int : Covers(merged, p) <=> \E k \in 1..(next - 1) : InSpan(found[k], p)

WriteInv ==
  /\ next <= Len(merged) + 1
  /\ Apart(merged)
  /\ \A p \in Int : Covers(merged, p) <=> Covered(p)
  /\ Tells(pieces, last)
  /\ next = 1 => last = 0
  /\ next # 1 => last = merged[next - 1].hi
  /\ hits = Cardinality(CutsOf(pieces)) /\ IsFiniteSet(CutsOf(pieces))

ObjectInv ==
  /\ clean \in [Fields -> Names]
  /\ IsFiniteSet(DOMAIN fields)
  /\ \A n, m \in DOMAIN fields : fields[n] = fields[m] => n = m
  /\ \A k \in walked : \E n \in DOMAIN fields : fields[n] = k
  /\ phase = "walked" => walked = Fields

RedactInv ==
  /\ RedactTypeOK
  /\ Sorted(found)
  /\ phase = "merging" => MergeInv
  /\ phase = "writing" => WriteInv
  /\ phase = "written" => PiecesExact
  /\ phase \in {"walking", "walked"} => ObjectInv

-------------------------------------------------------------------------------
(* Names. *)

LEMMA LeastNat ==
  ASSUME NEW T, T \subseteq Nat, T # {}
  PROVE  \E x \in T : \A y \in T : x <= y
<1>1. PICK x \in T : \A y \in T : ~(<<y, x>> \in OpToRel(<, Nat))
  BY NatLessThanWellFounded, WFMin
<1>2. \A y \in T : ~(y < x)
  BY <1>1 DEF OpToRel
<1>3. QED
  BY <1>2

\* Of c + 1 names at least one is not among c.
LEMMA SomeNumberFree ==
  ASSUME NEW D, IsFiniteSet(D), NEW b \in Seq(Nat)
  PROVE  /\ Cardinality(D) \in Nat
         /\ \E i \in 1..(Cardinality(D) + 1) : Append(b, i) \notin D
<1> DEFINE c == Cardinality(D)
           f == [i \in 1..(c + 1) |-> Append(b, i)]
<1>1. c \in Nat /\ c + 1 \in Int /\ 1 \in Int
  BY FS_CardinalityType
<1>2. IsFiniteSet(1..(c + 1)) /\ Cardinality(1..(c + 1)) = c + 1
  BY <1>1, FS_Interval
<1>3. SUFFICES ASSUME \A i \in 1..(c + 1) : Append(b, i) \in D PROVE FALSE
  BY <1>1
<1>4. f \in [1..(c + 1) -> D]
  BY <1>3
<1>5. c < Cardinality(1..(c + 1))
  BY <1>1, <1>2
<1>6. \E x, y \in 1..(c + 1) : x # y /\ f[x] = f[y]
  <2> DEFINE S == 1..(c + 1)
  <2>1. IsFiniteSet(S) /\ f \in [S -> D] /\ Cardinality(D) < Cardinality(S)
    BY <1>2, <1>4, <1>5
  <2> HIDE DEF S, f, c
  <2>2. \E x, y \in S : x # y /\ f[x] = f[y]
    BY <2>1, FS_PigeonHole
  <2>3. QED
    BY <2>2 DEF S
<1>7. PICK x, y \in 1..(c + 1) : x # y /\ Append(b, x) = Append(b, y)
  BY <1>6
<1>8. x \in Nat /\ y \in Nat
  BY <1>1
<1>9. QED
  BY <1>7, <1>8, AppendInjective

LEMMA FreeNameIsFree ==
  ASSUME NEW k \in Fields, clean \in [Fields -> Names], IsFiniteSet(DOMAIN fields)
  PROVE  FreeName(k) \in Seq(Nat) /\ FreeName(k) \notin DOMAIN fields
<1>1. clean[k] \in Seq(Nat)
  BY RedactionAssumption
<1>2. CASE clean[k] \notin DOMAIN fields
  BY <1>1, <1>2 DEF FreeName
<1>3. CASE clean[k] \in DOMAIN fields
  <2> DEFINE R == 1..(Cardinality(DOMAIN fields) + 1)
             Taken(i) == Append(clean[k], i) \in DOMAIN fields
             T == {i \in R : ~Taken(i)}
             Least(i) == ~Taken(i) /\ \A j \in 1..(i - 1) : Taken(j)
  <2>1. Cardinality(DOMAIN fields) \in Nat /\ T # {}
    BY <1>1, SomeNumberFree
  <2>2. T \subseteq Nat
    BY <2>1
  <2>3. PICK x \in T : \A y \in T : x <= y
    BY <2>1, <2>2, LeastNat
  <2>4. x \in R /\ Least(x)
    BY <2>1, <2>3
  <2>5. FreeName(k) = Append(clean[k], CHOOSE i \in R : Least(i))
    BY <1>3 DEF FreeName
  <2> HIDE DEF Least
  <2>6. (CHOOSE i \in R : Least(i)) \in R /\ Least(CHOOSE i \in R : Least(i))
    BY <2>4
  <2>7. PICK i \in R : FreeName(k) = Append(clean[k], i) /\ Least(i)
    BY <2>5, <2>6
  <2>8. i \in Nat
    BY <2>1
  <2>9. QED
    BY <1>1, <2>7, <2>8, AppendProperties DEF Least
<1>4. QED
  BY <1>2, <1>3

-------------------------------------------------------------------------------
(* Merging. *)

LEMMA SpanFacts ==
  ASSUME NEW s \in Seq(Span)
  PROVE  /\ Len(s) \in Nat /\ DOMAIN s = 1..Len(s)
         /\ \A i \in 1..Len(s) : /\ s[i] \in Span
                                 /\ s[i].lo \in Nat /\ s[i].hi \in Nat
                                 /\ s[i].lo < s[i].hi /\ s[i].hi <= Length
<1>1. Len(s) \in Nat /\ DOMAIN s = 1..Len(s) /\ \A i \in 1..Len(s) : s[i] \in Span
  BY LenProperties
<1>2. \A sp \in Span : sp.lo \in Nat /\ sp.hi \in Nat /\ sp.lo < sp.hi /\ sp.hi <= Length
  BY RedactionAssumption DEF Span
<1>3. QED
  BY <1>1, <1>2

\* What one turn makes of the merged spans m and the span sp.
LEMMA Absorbs ==
  ASSUME NEW m \in Seq(Span), m # <<>>, NEW sp \in Span, Apart(m),
         m[Len(m)].lo <= sp.lo, sp.lo < m[Len(m)].hi,
         NEW m2,
         sp.hi > m[Len(m)].hi => m2 = [m EXCEPT ![Len(m)].hi = sp.hi],
         ~(sp.hi > m[Len(m)].hi) => m2 = m
  PROVE  /\ m2 \in Seq(Span) /\ Len(m2) = Len(m) /\ Apart(m2)
         /\ \A i \in 1..Len(m) : m2[i].lo = m[i].lo
         /\ \A p \in Int : Covers(m2, p) <=> Covers(m, p) \/ InSpan(sp, p)
<1> DEFINE n == Len(m)
           new == [lo |-> m[n].lo, hi |-> sp.hi]
<1>1. /\ n \in Nat \ {0} /\ DOMAIN m = 1..n /\ n \in 1..n
      /\ \A i \in 1..n : /\ m[i] \in Span /\ m[i].lo \in Nat /\ m[i].hi \in Nat
                         /\ m[i].lo < m[i].hi
  BY SpanFacts, EmptySeq
<1>2. sp.lo \in Nat /\ sp.hi \in Nat /\ sp.lo < sp.hi /\ sp.hi \in 0..Length
  BY RedactionAssumption DEF Span
<1>3. CASE ~(sp.hi > m[n].hi)
  <2>1. m2 = m
    BY <1>3
  <2>2. \A p \in Int : InSpan(sp, p) => InSpan(m[n], p)
    BY <1>1, <1>2, <1>3 DEF InSpan
  <2>3. \A p \in Int : InSpan(sp, p) => Covers(m, p)
    BY <1>1, <2>2 DEF Covers
  <2>4. QED
    BY <2>1, <2>3
<1>4. CASE sp.hi > m[n].hi
  <2>1. new \in Span
    <3>1. m[n].lo \in 0..Length /\ m[n].lo < sp.hi
      BY <1>1, <1>2 DEF Span
    <3>2. QED
      BY <1>2, <3>1 DEF Span
  <2>2. m2 = [m EXCEPT ![n] = new]
    <3>1. m2 = [m EXCEPT ![n] = [m[n] EXCEPT !.hi = sp.hi]]
      BY <1>4
    <3>2. m[n] = [lo |-> m[n].lo, hi |-> m[n].hi]
      BY <1>1 DEF Span
    <3>3. [m[n] EXCEPT !.hi = sp.hi] = new
      BY <3>2
    <3>4. QED
      BY <3>1, <3>3
  <2>3. /\ new.lo = m[n].lo /\ new.hi = sp.hi
    OBVIOUS
  <2> HIDE DEF new
  <2>4. /\ m2 \in Seq(Span) /\ Len(m2) = n /\ DOMAIN m2 = 1..n
        /\ m2[n] = new /\ \A i \in 1..n : i # n => m2[i] = m[i]
    BY <1>1, <2>1, <2>2, ExceptSeq, SpanFacts
  <2>5. Apart(m2)
    BY <1>1, <2>3, <2>4 DEF Apart
  <2>6. \A i \in 1..n : m2[i].lo = m[i].lo
    BY <2>3, <2>4
  <2>7. ASSUME NEW p \in Int
        PROVE  Covers(m2, p) <=> Covers(m, p) \/ InSpan(sp, p)
    <3>1. InSpan(new, p) <=> InSpan(m[n], p) \/ InSpan(sp, p)
      BY <1>1, <1>2, <1>4, <2>3 DEF InSpan
    <3>2. Covers(m2, p) <=> InSpan(new, p) \/ \E i \in 1..n : i # n /\ InSpan(m[i], p)
      BY <1>1, <2>4 DEF Covers
    <3>3. Covers(m, p) <=> InSpan(m[n], p) \/ \E i \in 1..n : i # n /\ InSpan(m[i], p)
      BY <1>1 DEF Covers
    <3>4. QED
      BY <3>1, <3>2, <3>3
  <2>8. QED
    BY <2>4, <2>5, <2>6, <2>7
<1>5. QED
  BY <1>3, <1>4

LEMMA MergeStep ==
  ASSUME RedactInv, MergeSpan
  PROVE  MergeInv' /\ merged' \in Seq(Span)
<1> DEFINE sp == found[next]
           n == Len(merged)
<1>1. /\ found \in Seq(Span) /\ merged \in Seq(Span) /\ next \in 1..Len(found) /\ next \in Nat
      /\ sp \in Span /\ next' = next + 1 /\ found' = found
      /\ pieces' = pieces /\ last' = last /\ hits' = hits
      /\ MergeInv /\ Sorted(found)
  <2>1. found \in Seq(Span) /\ next \in Nat \ {0} /\ next <= Len(found) /\ Len(found) \in Nat
    BY SpanFacts DEF RedactInv, RedactTypeOK, MergeSpan
  <2>2. next \in 1..Len(found) /\ sp \in Span
    BY <2>1, SpanFacts
  <2>3. QED
    BY <2>1, <2>2 DEF RedactInv, RedactTypeOK, MergeSpan, object
<1>2. /\ n \in Nat /\ DOMAIN merged = 1..n
      /\ \A i \in 1..n : /\ merged[i] \in Span /\ merged[i].lo \in Nat /\ merged[i].hi \in Nat
                         /\ merged[i].lo < merged[i].hi
      /\ Len(found) \in Nat /\ DOMAIN found = 1..Len(found)
      /\ \A k \in 1..Len(found) : found[k].lo \in Nat
  BY <1>1, SpanFacts
<1>3. \A k \in (next + 1)..Len(found) : sp.lo <= found[k].lo
  <2>1. \A i, j \in DOMAIN found : i < j => found[i].lo <= found[j].lo
    BY <1>1 DEF Sorted
  <2>2. next \in DOMAIN found /\ DOMAIN found = 1..Len(found) /\ next \in Nat
    BY <1>1, <1>2
  <2>3. SUFFICES ASSUME NEW k \in (next + 1)..Len(found) PROVE found[next].lo <= found[k].lo
    OBVIOUS
  <2>4. k \in DOMAIN found /\ next < k
    BY <2>2
  <2>5. QED
    BY <2>1, <2>2, <2>4
<1>4. \A i \in 1..n : \A k \in next..Len(found) : merged[i].lo <= found[k].lo
  <2>1. \A i \in DOMAIN merged : \A k \in next..Len(found) : merged[i].lo <= found[k].lo
    BY <1>1 DEF MergeInv
  <2>2. DOMAIN merged = 1..n
    BY <1>2
  <2> HIDE DEF n
  <2>3. QED
    BY <2>1, <2>2
<1>a. Apart(merged) /\ \A i, j \in 1..n : i < j => merged[i].hi <= merged[j].lo
  BY <1>1, <1>2 DEF MergeInv, Apart
<1>5. \A p \in Int : (\E k \in 1..(next' - 1) : InSpan(found[k], p))
                       <=> (\E k \in 1..(next - 1) : InSpan(found[k], p)) \/ InSpan(sp, p)
  BY <1>1
<1>6. SUFFICES /\ merged' \in Seq(Span) /\ Apart(merged')
               /\ \A i \in 1..Len(merged') :
                    \A k \in (next + 1)..Len(found) : merged'[i].lo <= found[k].lo
               /\ \A p \in Int : Covers(merged', p) <=> Covers(merged, p) \/ InSpan(sp, p)
  <2>1. next' <= Len(found') + 1 /\ pieces' = <<>> /\ last' = 0 /\ hits' = 0
    BY <1>1, <1>2 DEF MergeInv
  <2>2. ASSUME merged' \in Seq(Span) PROVE DOMAIN merged' = 1..Len(merged')
    BY <2>2, SpanFacts
  <2>3. ASSUME \A p \in Int : Covers(merged', p) <=> Covers(merged, p) \/ InSpan(sp, p)
        PROVE  \A p \in Int : Covers(merged', p) <=> \E k \in 1..(next' - 1) : InSpan(found[k], p)
    BY <1>1, <1>5, <2>3 DEF MergeInv
  <2>4. QED
    BY <1>1, <2>1, <2>2, <2>3 DEF MergeInv, Apart, Covers
<1>7. CASE merged # <<>> /\ sp.lo < Prev.hi
  <2>1. /\ n \in 1..n /\ Prev = merged[n]
        /\ sp.hi > merged[n].hi => merged' = [merged EXCEPT ![n].hi = sp.hi]
        /\ ~(sp.hi > merged[n].hi) => merged' = merged
    BY <1>1, <1>2, <1>7, EmptySeq DEF MergeSpan, Absorbed, Prev
  <2>2. merged[n].lo <= sp.lo /\ sp.lo < merged[n].hi
    <3>1. next \in next..Len(found)
      BY <1>1, <1>2
    <3>2. QED
      BY <1>4, <1>7, <2>1, <3>1
  <2>3. /\ merged' \in Seq(Span) /\ Len(merged') = n /\ Apart(merged')
        /\ \A i \in 1..n : merged'[i].lo = merged[i].lo
        /\ \A p \in Int : Covers(merged', p) <=> Covers(merged, p) \/ InSpan(sp, p)
    <3>1. merged \in Seq(Span) /\ merged # <<>> /\ sp \in Span
      BY <1>1, <1>7
    <3> HIDE DEF sp, n
    <3>2. QED
      BY <1>a, <2>1, <2>2, <3>1, Absorbs DEF n
  <2>4. QED
    BY <1>1, <1>4, <2>3
<1>8. CASE ~(merged # <<>> /\ sp.lo < Prev.hi)
  <2>1. merged' = Append(merged, sp)
    BY <1>8 DEF MergeSpan
  <2>2. /\ merged' \in Seq(Span) /\ Len(merged') = n + 1 /\ DOMAIN merged' = 1..(n + 1)
        /\ merged'[n + 1] = sp /\ \A i \in 1..n : merged'[i] = merged[i]
    BY <1>1, <1>2, <2>1, AppendProperties, SpanFacts
  <2>3. sp.lo \in Nat /\ sp.hi \in Nat
    BY <1>1, SpanFacts
  <2>4. \A i \in 1..n : merged[i].hi <= sp.lo
    <3>1. SUFFICES ASSUME NEW i \in 1..n PROVE merged[i].hi <= sp.lo
      OBVIOUS
    <3>2. n \in 1..n /\ merged # <<>>
      BY <1>2
    <3>3. merged[n].hi <= sp.lo
      BY <1>2, <1>8, <2>3, <3>2 DEF Prev
    <3>4. i # n => merged[i].hi <= merged[n].lo
      <4>0. n \in Nat
        BY <1>2
      <4> HIDE DEF n
      <4>1. i # n => i < n
        BY <4>0
      <4>2. QED
        BY <1>a, <3>2, <4>1
    <3>5. CASE i = n
      BY <3>3, <3>5
    <3>6. CASE i # n
      <4>1. merged[i].hi \in Nat /\ merged[n].lo \in Nat /\ merged[n].hi \in Nat
            /\ merged[n].lo < merged[n].hi
        BY <1>2, <3>2
      <4>2. QED
        BY <2>3, <3>3, <3>4, <3>6, <4>1
    <3>7. QED
      BY <3>5, <3>6
  <2>5. Apart(merged')
    <3>1. SUFFICES ASSUME NEW i \in 1..(n + 1), NEW j \in 1..(n + 1), i < j
                   PROVE  merged'[i].hi <= merged'[j].lo
      BY <2>2 DEF Apart
    <3> i \in 1..n
      BY <1>2, <3>1
    <3> HIDE DEF n, sp
    <3>2. CASE j = n + 1
      BY <2>2, <2>4, <3>1, <3>2
    <3>3. CASE j # n + 1
      <4>1. j \in 1..n
        BY <1>2, <3>3
      <4>2. QED
        BY <1>a, <2>2, <3>1, <4>1
    <3>4. QED
      BY <3>2, <3>3
  <2>6. \A i \in 1..(n + 1) : \A k \in (next + 1)..Len(found) : merged'[i].lo <= found[k].lo
    BY <1>1, <1>2, <1>3, <1>4, <2>2
  <2>7. \A p \in Int : Covers(merged', p) <=> Covers(merged, p) \/ InSpan(sp, p)
    BY <1>2, <2>2 DEF Covers
  <2>8. QED
    BY <2>2, <2>5, <2>6, <2>7
<1>9. QED
  BY <1>7, <1>8

-------------------------------------------------------------------------------
(* Writing. *)

\* A piece that tells the truth of its part is put behind the others.
LEMMA TellsMore ==
  ASSUME NEW s \in Seq(Piece), NEW e, Tells(s, e), NEW x \in Piece, x.lo = e, True(x),
         IsFiniteSet(CutsOf(s))
  PROVE  /\ Append(s, x) \in Seq(Piece) /\ Append(s, x) # <<>> /\ Tells(Append(s, x), x.hi)
         /\ IsFiniteSet(CutsOf(Append(s, x))) /\ Cardinality(CutsOf(s)) \in Nat
         /\ x.cut = TRUE => Cardinality(CutsOf(Append(s, x))) = Cardinality(CutsOf(s)) + 1
         /\ x.cut # TRUE => CutsOf(Append(s, x)) = CutsOf(s)
<1> DEFINE n == Len(s)
           t == Append(s, x)
<1>1. n \in Nat /\ DOMAIN s = 1..n /\ (s = <<>> <=> n = 0)
  BY LenProperties, EmptySeq
<1>2. /\ t \in Seq(Piece) /\ t # <<>> /\ Len(t) = n + 1 /\ DOMAIN t = 1..(n + 1)
      /\ t[n + 1] = x /\ \A i \in 1..n : t[i] = s[i]
  BY AppendProperties, LenProperties
<1> HIDE DEF t
<1>3. Tells(t, x.hi)
  <2>1. SUFFICES ASSUME NEW i \in 1..(n + 1)
                 PROVE  /\ i = 1 => t[i].lo = 0
                        /\ i # 1 => t[i].lo = t[i - 1].hi
                        /\ True(t[i])
    BY <1>2 DEF Tells
  <2>2. CASE i = n + 1
    <3>1. i = 1 => t[i].lo = 0
      BY <1>1, <1>2, <2>2 DEF Tells
    <3>2. i # 1 => n \in 1..n /\ t[i - 1] = s[n] /\ s[n].hi = e
      BY <1>1, <1>2, <2>2 DEF Tells
    <3>3. QED
      BY <1>2, <2>2, <3>1, <3>2
  <2>3. CASE i # n + 1
    <3>1. i \in 1..n /\ (i # 1 => i - 1 \in 1..n)
      BY <1>1, <2>3
    <3>2. QED
      BY <1>1, <1>2, <3>1 DEF Tells
  <2>4. QED
    BY <2>2, <2>3
<1>4. n + 1 \notin CutsOf(s)
  BY <1>1 DEF CutsOf
<1>5. x.cut = TRUE => CutsOf(t) = CutsOf(s) \cup {n + 1}
  BY <1>1, <1>2 DEF CutsOf
<1>6. x.cut # TRUE => CutsOf(t) = CutsOf(s)
  <2>1. SUFFICES ASSUME x.cut # TRUE, NEW i PROVE i \in CutsOf(t) <=> i \in CutsOf(s)
    OBVIOUS
  <2>2. i \in CutsOf(t) <=> i \in 1..(n + 1) /\ i # n + 1 /\ t[i].cut = TRUE
    BY <1>2, <2>1 DEF CutsOf
  <2>3. i \in 1..(n + 1) /\ i # n + 1 <=> i \in 1..n
    BY <1>1
  <2>4. i \in CutsOf(s) <=> i \in 1..n /\ s[i].cut = TRUE
    BY <1>1 DEF CutsOf
  <2>5. QED
    BY <1>2, <2>2, <2>3, <2>4
<1>7. /\ IsFiniteSet(CutsOf(s) \cup {n + 1}) /\ Cardinality(CutsOf(s)) \in Nat
      /\ Cardinality(CutsOf(s) \cup {n + 1}) = Cardinality(CutsOf(s)) + 1
  BY <1>4, FS_AddElement, FS_CardinalityType
<1>8. QED
  BY <1>2, <1>3, <1>5, <1>6, <1>7 DEF t

\* Between the last span and the next one, or the end h of the text, nothing is covered.
LEMMA Between ==
  ASSUME RedactTypeOK, WriteInv, NEW h \in Nat,
         next <= Len(merged) => h = merged[next].lo,
         NEW p \in last..(h - 1)
  PROVE  ~Covered(p)
<1> DEFINE n == Len(merged)
<1>1. /\ n \in Nat /\ DOMAIN merged = 1..n /\ next \in Nat \ {0} /\ next <= n + 1
      /\ last \in Nat /\ p \in Int /\ last <= p /\ p < h
      /\ \A i \in 1..n : /\ merged[i].lo \in Nat /\ merged[i].hi \in Nat
                         /\ merged[i].lo < merged[i].hi
  BY SpanFacts, RedactionAssumption DEF RedactTypeOK, WriteInv
<1>2. \A i, j \in 1..n : i < j => merged[i].hi <= merged[j].lo
  BY <1>1 DEF WriteInv, Apart
<1>3. next # 1 => last = merged[next - 1].hi
  BY DEF WriteInv
<1>4. SUFFICES ASSUME NEW j \in 1..n, merged[j].lo <= p, p < merged[j].hi PROVE FALSE
  BY <1>1 DEF WriteInv, Covers, InSpan
<1> HIDE DEF n
<1>5. CASE j < next
  <2>1. next - 1 \in 1..n /\ next # 1 /\ (j = next - 1 \/ j < next - 1)
    BY <1>1, <1>5
  <2>2. merged[j].hi <= last
    <3>1. CASE j = next - 1
      BY <1>1, <1>3, <2>1, <3>1
    <3>2. CASE j < next - 1
      <4>1. /\ merged[j].hi <= merged[next - 1].lo /\ merged[next - 1].lo < last
            /\ merged[j].hi \in Nat /\ merged[next - 1].lo \in Nat
        BY <1>1, <1>2, <1>3, <2>1, <3>2
      <4>2. QED
        BY <1>1, <4>1
    <3>3. QED
      BY <2>1, <3>1, <3>2
  <2>3. QED
    BY <1>1, <1>4, <2>2
<1>6. CASE ~(j < next)
  <2>1. next \in 1..n /\ h = merged[next].lo /\ (j = next \/ next < j)
    BY <1>1, <1>6 DEF n
  <2>2. h <= merged[j].lo
    <3>1. CASE j = next
      BY <1>1, <2>1, <3>1
    <3>2. CASE next < j
      <4>1. /\ merged[next].hi <= merged[j].lo /\ merged[next].lo < merged[next].hi
            /\ merged[next].hi \in Nat /\ merged[next].lo \in Nat /\ merged[j].lo \in Nat
        BY <1>1, <1>2, <2>1, <3>2
      <4>2. QED
        BY <2>1, <4>1
    <3>3. QED
      BY <2>1, <3>1, <3>2
  <2>3. merged[j].lo \in Nat
    BY <1>1
  <2>4. QED
    BY <1>1, <1>4, <2>2, <2>3
<1>7. QED
  BY <1>5, <1>6

\* What lies before h is kept, if anything does.
LEMMA Keeps ==
  ASSUME RedactTypeOK, WriteInv, NEW h \in 0..Length, last <= h,
         next <= Len(merged) => h = merged[next].lo
  PROVE  /\ pieces \o Kept(last, h) \in Seq(Piece) /\ Tells(pieces \o Kept(last, h), h)
         /\ CutsOf(pieces \o Kept(last, h)) = CutsOf(pieces)
         /\ h > 0 => pieces \o Kept(last, h) # <<>>
<1> DEFINE x == [lo |-> last, hi |-> h, cut |-> FALSE]
<1>1. pieces \in Seq(Piece) /\ last \in 0..Length /\ Length \in Nat /\ h \in Nat
  BY RedactionAssumption DEF RedactTypeOK
<1>2. Tells(pieces, last) /\ IsFiniteSet(CutsOf(pieces))
  BY DEF WriteInv
<1>3. CASE last < h
  <2>1. x \in Piece /\ x.lo = last /\ x.hi = h /\ x.cut = FALSE
    BY <1>1 DEF Piece
  <2>2. True(x)
    BY <1>1, <2>1, Between DEF True
  <2>3. pieces \o Kept(last, h) = Append(pieces, x)
    BY <1>1, <1>3, <2>1, AppendIsConcat DEF Kept
  <2> HIDE DEF x
  <2>4. QED
    BY <1>1, <1>2, <2>1, <2>2, <2>3, TellsMore
<1>4. CASE ~(last < h)
  <2>1. last = h /\ pieces \o Kept(last, h) = pieces
    BY <1>1, <1>4, ConcatEmptySeq DEF Kept
  <2>2. h > 0 => pieces # <<>>
    BY <1>2, <2>1 DEF Tells
  <2>3. QED
    BY <1>1, <1>2, <2>1, <2>2
<1>5. QED
  BY <1>3, <1>4

LEMMA WriteStep ==
  ASSUME RedactInv, WriteSpan
  PROVE  /\ WriteInv' /\ pieces' \in Seq(Piece) /\ last' \in 0..Length /\ hits' \in Nat
<1> DEFINE sp == merged[next]
           q == pieces \o Kept(last, sp.lo)
<1>1. /\ RedactTypeOK /\ WriteInv /\ next <= Len(merged)
      /\ pieces' = Append(q, Cut(sp)) /\ last' = sp.hi /\ hits' = hits + 1
      /\ next' = next + 1 /\ found' = found /\ merged' = merged
  BY DEF RedactInv, WriteSpan
<1>2. /\ merged \in Seq(Span) /\ next \in Nat \ {0} /\ next \in 1..Len(merged) /\ Len(merged) \in Nat
      /\ DOMAIN merged = 1..Len(merged) /\ last \in Nat /\ Length \in Nat
      /\ \A i \in 1..Len(merged) : /\ merged[i] \in Span
                                   /\ merged[i].lo \in Nat /\ merged[i].hi \in Nat
                                   /\ merged[i].lo < merged[i].hi /\ merged[i].hi <= Length
  BY <1>1, SpanFacts, RedactionAssumption DEF RedactTypeOK
<1>3. /\ sp.lo \in 0..Length /\ sp.hi \in 0..Length /\ sp.lo < sp.hi
  BY <1>2
<1>4. last <= sp.lo
  <2>1. CASE next = 1
    BY <1>1, <1>3, <2>1 DEF WriteInv
  <2>2. CASE next # 1
    <3>1. next - 1 \in 1..Len(merged) /\ next - 1 < next
      BY <1>2, <2>2
    <3>2. merged[next - 1].hi <= merged[next].lo
      BY <1>1, <1>2, <3>1 DEF WriteInv, Apart
    <3>3. QED
      BY <1>1, <2>2, <3>2 DEF WriteInv
  <2>3. QED
    BY <2>1, <2>2
<1>5. q \in Seq(Piece) /\ Tells(q, sp.lo) /\ CutsOf(q) = CutsOf(pieces)
  BY <1>1, <1>3, <1>4, Keeps
<1>6. Cut(sp) \in Piece /\ Cut(sp).lo = sp.lo /\ Cut(sp).hi = sp.hi /\ Cut(sp).cut = TRUE
  BY <1>3 DEF Cut, Piece
<1>7. \A p \in sp.lo..(sp.hi - 1) : Covered(p)
  <2>1. SUFFICES ASSUME NEW p \in sp.lo..(sp.hi - 1) PROVE Covered(p)
    OBVIOUS
  <2>2. p \in Int /\ InSpan(sp, p)
    BY <1>3 DEF InSpan
  <2>3. Covers(merged, p)
    BY <1>2, <2>2 DEF Covers
  <2>4. QED
    BY <1>1, <2>2, <2>3 DEF WriteInv
<1>8. True(Cut(sp))
  BY <1>6, <1>7 DEF True
<1>9. hits = Cardinality(CutsOf(pieces)) /\ IsFiniteSet(CutsOf(pieces))
  BY <1>1 DEF WriteInv
<1> HIDE DEF q
<1>10. /\ pieces' \in Seq(Piece) /\ Tells(pieces', sp.hi) /\ IsFiniteSet(CutsOf(pieces'))
       /\ Cardinality(CutsOf(pieces)) \in Nat
       /\ Cardinality(CutsOf(pieces')) = Cardinality(CutsOf(pieces)) + 1
  BY <1>1, <1>5, <1>6, <1>8, <1>9, TellsMore
<1>11. Tells(pieces, last)' /\ CutsOf(pieces)' = CutsOf(pieces')
  BY <1>1, <1>10 DEF Tells, True, Covered, CutsOf
<1>12. /\ next' <= Len(merged') + 1 /\ next' # 1 /\ last' = merged'[next' - 1].hi
  BY <1>1, <1>2
<1>13. /\ Apart(merged)' /\ \A p \in Int : Covers(merged', p) <=> Covered(p)'
  BY <1>1 DEF WriteInv, Apart, Covers, Covered
<1>14. QED
  BY <1>1, <1>3, <1>9, <1>10, <1>11, <1>12, <1>13 DEF WriteInv, Apart, Covers

\* All of the text is written.
LEMMA WriteEnded ==
  ASSUME RedactInv, WriteEnds
  PROVE  PiecesExact' /\ pieces' \in Seq(Piece)
<1> DEFINE q == pieces \o Kept(last, Length)
           n == Len(q)
<1>1. /\ RedactTypeOK /\ WriteInv /\ ~(next <= Len(merged))
      /\ pieces' = q /\ hits' = hits /\ found' = found
  <2>1. RedactTypeOK /\ WriteInv /\ next > Len(merged)
        /\ pieces' = q /\ hits' = hits /\ found' = found
    BY DEF RedactInv, WriteEnds
  <2>2. next \in Nat /\ Len(merged) \in Nat
    BY <2>1, LenProperties DEF RedactTypeOK
  <2>3. QED
    BY <2>1, <2>2
<1>2. last <= Length /\ Length \in 0..Length /\ Length \in Nat
  BY <1>1, RedactionAssumption DEF RedactTypeOK
<1>3. /\ q \in Seq(Piece) /\ Tells(q, Length) /\ CutsOf(q) = CutsOf(pieces)
      /\ Length > 0 => q # <<>>
  BY <1>1, <1>2, Keeps
<1> HIDE DEF q
<1>4. n \in Nat /\ DOMAIN q = 1..n /\ q \in [1..n -> Piece]
  BY <1>3, LenProperties
<1>5. \A i \in 1..n : q[i].cut \in BOOLEAN
  BY <1>4 DEF Piece
<1>6. \A i \in 1..n : /\ q[i].lo = (IF i = 1 THEN 0 ELSE q[i - 1].hi)
                      /\ \A p \in q[i].lo..(q[i].hi - 1) : q[i].cut = TRUE <=> Covered(p)
  BY <1>3, <1>4 DEF Tells, True
<1>7. Length > 0 => q # <<>> /\ q[n].hi = Length
  BY <1>3 DEF Tells
<1>8. hits = Cardinality({i \in 1..n : q[i].cut = TRUE})
  BY <1>1, <1>3, <1>4 DEF WriteInv, CutsOf
<1>9. {i \in 1..n : q[i].cut = TRUE} = {i \in 1..n : q[i].cut}
  BY <1>5
<1>10. \A i \in 1..n : \A p \in q[i].lo..(q[i].hi - 1) : q[i].cut <=> Covered(p)
  BY <1>5, <1>6
<1>11. PiecesExact'
  <2>1. \A p : Covered(p)' <=> Covered(p)
    BY <1>1 DEF Covered
  <2>2. \A i \in 1..n : q[i].lo = (IF i = 1 THEN 0 ELSE q[i - 1].hi)
    BY <1>6
  <2> HIDE DEF n
  <2>3. \A i \in DOMAIN pieces' :
          /\ pieces'[i].lo = (IF i = 1 THEN 0 ELSE pieces'[i - 1].hi)
          /\ \A p \in pieces'[i].lo..(pieces'[i].hi - 1) : pieces'[i].cut <=> Covered(p)'
    BY <1>1, <1>4, <1>10, <2>1, <2>2
  <2>4. Length > 0 => pieces' # <<>> /\ pieces'[Len(pieces')].hi = Length
    BY <1>1, <1>7 DEF n
  <2>5. hits' = Cardinality({i \in DOMAIN pieces' : pieces'[i].cut})
    BY <1>1, <1>4, <1>8, <1>9
  <2>6. QED
    BY <2>3, <2>4, <2>5 DEF PiecesExact
<1>12. QED
  BY <1>1, <1>3, <1>11

-------------------------------------------------------------------------------
(* An object. *)

LEMMA WalkStep ==
  ASSUME RedactInv, NEW k \in Fields, WalkField(k)
  PROVE  /\ ObjectInv' /\ walked' \subseteq Fields
         /\ DOMAIN fields' \subseteq Seq(Nat) /\ \A n \in DOMAIN fields' : fields'[n] \in walked'
<1> DEFINE new == FreeName(k)
           D == DOMAIN fields
<1>1. /\ RedactTypeOK /\ ObjectInv /\ phase = "walking" /\ k \notin walked
      /\ walked' = walked \cup {k} /\ clean' = clean /\ phase' = phase
      /\ fields' = [n \in D \cup {new} |-> IF n = new THEN k ELSE fields[n]]
  BY DEF RedactInv, WalkField
<1>2. new \in Seq(Nat) /\ new \notin D
  BY <1>1, FreeNameIsFree DEF ObjectInv
<1> HIDE DEF new, D
<1>3. /\ DOMAIN fields' = D \cup {new} /\ fields'[new] = k
      /\ \A n \in D : fields'[n] = fields[n]
  BY <1>1, <1>2
<1>4. /\ IsFiniteSet(D) /\ D \subseteq Seq(Nat) /\ walked \subseteq Fields
      /\ \A n \in D : fields[n] \in walked
      /\ \A n, m \in D : fields[n] = fields[m] => n = m
      /\ \A j \in walked : \E n \in D : fields[n] = j
  BY <1>1 DEF ObjectInv, RedactTypeOK, D
<1>5. IsFiniteSet(DOMAIN fields')
  BY <1>3, <1>4, FS_AddElement
<1>6. \A n, m \in DOMAIN fields' : fields'[n] = fields'[m] => n = m
  BY <1>1, <1>3, <1>4
<1>7. \A j \in walked' : \E n \in DOMAIN fields' : fields'[n] = j
  BY <1>1, <1>3, <1>4
<1>8. \A n \in DOMAIN fields' : fields'[n] \in walked'
  BY <1>1, <1>3, <1>4
<1>9. clean' \in [Fields -> Names] /\ phase' # "walked"
  BY <1>1 DEF ObjectInv
<1>10. QED
  BY <1>1, <1>2, <1>3, <1>4, <1>5, <1>6, <1>7, <1>8, <1>9 DEF ObjectInv

-------------------------------------------------------------------------------
(* The invariant. *)

LEMMA RedactStarts == RedactInit => RedactInv
<1> SUFFICES ASSUME RedactInit PROVE RedactInv
  OBVIOUS
<1>1. /\ next = 1 /\ merged = <<>> /\ pieces = <<>> /\ last = 0 /\ hits = 0
      /\ walked = {} /\ fields = <<>>
  BY DEF RedactInit
<1>2. merged \in Seq(Span) /\ pieces \in Seq(Piece) /\ DOMAIN fields = {} /\ Len(merged) = 0
      /\ DOMAIN merged = {}
  BY <1>1, EmptySeq
<1>3. 0 \in 0..Length
  BY RedactionAssumption
<1>4. CASE phase = "merging"
  <2>1. PICK n \in 0..MaxSpans : found \in [1..n -> Span] /\ Sorted(found)
    BY <1>4 DEF RedactInit
  <2>2. n \in Nat
    BY RedactionAssumption
  <2>3. found \in Seq(Span)
    BY <2>1, <2>2
  <2>4. Len(found) \in Nat /\ next <= Len(found) + 1
    BY <1>1, <2>3, LenProperties
  <2>5. \A k \in 1..(next - 1) : FALSE
    BY <1>1
  <2>6. MergeInv
    BY <1>1, <1>2, <2>4, <2>5 DEF MergeInv, Apart, Covers
  <2>7. QED
    BY <1>1, <1>2, <1>3, <1>4, <2>1, <2>3, <2>6 DEF RedactInv, RedactTypeOK
<1>5. CASE phase = "walking"
  <2>1. found = <<>> /\ clean \in [Fields -> Names]
    BY <1>5 DEF RedactInit
  <2>2. found \in Seq(Span) /\ DOMAIN found = {}
    BY <2>1, EmptySeq
  <2>3. ObjectInv
    BY <1>1, <1>2, <1>5, <2>1, FS_EmptySet DEF ObjectInv
  <2>4. Sorted(found)
    BY <2>2 DEF Sorted
  <2>5. QED
    BY <1>1, <1>2, <1>3, <1>5, <2>2, <2>3, <2>4 DEF RedactInv, RedactTypeOK
<1>6. QED
  BY <1>4, <1>5 DEF RedactInit

LEMMA RedactKeeps == RedactInv /\ [RedactNext]_redactVars => RedactInv'
<1> SUFFICES ASSUME RedactInv, [RedactNext]_redactVars PROVE RedactInv'
  OBVIOUS
<1>t. RedactTypeOK /\ Sorted(found)
  BY DEF RedactInv
<1>1. CASE MergeSpan
  <2>1. /\ phase' = "merging" /\ found' = found /\ next' = next + 1
        /\ UNCHANGED <<pieces, last, hits, clean, walked, fields>>
    BY <1>1 DEF MergeSpan, object
  <2>2. MergeInv' /\ merged' \in Seq(Span)
    BY <1>1, MergeStep
  <2>3. next' \in Nat \ {0}
    BY <1>t, <2>1 DEF RedactTypeOK
  <2>4. RedactTypeOK'
    BY <1>t, <2>1, <2>2, <2>3 DEF RedactTypeOK
  <2>5. Sorted(found)'
    BY <1>t, <2>1 DEF Sorted
  <2>6. QED
    BY <2>1, <2>2, <2>4, <2>5 DEF RedactInv
<1>2. CASE MergeEnds
  <2>1. /\ phase' = "writing" /\ next' = 1 /\ next > Len(found) /\ MergeInv
        /\ UNCHANGED <<found, merged, pieces, last, hits, clean, walked, fields>>
    BY <1>2 DEF MergeEnds, object, RedactInv
  <2>2. next - 1 = Len(found) /\ Len(merged) \in Nat /\ DOMAIN found = 1..Len(found)
    BY <1>t, <2>1, LenProperties DEF RedactTypeOK, MergeInv
  <2>3. \A p \in Int : Covers(merged, p) <=> Covered(p)
    <3>1. SUFFICES ASSUME NEW p \in Int PROVE Covers(merged, p) <=> Covered(p)
      OBVIOUS
    <3>2. Covers(merged, p) <=> \E k \in 1..(next - 1) : InSpan(found[k], p)
      BY <2>1 DEF MergeInv
    <3>3. QED
      BY <2>2, <3>2 DEF Covered, InSpan
  <2>4. CutsOf(pieces) = {} /\ Tells(pieces, last) /\ Apart(merged) /\ pieces = <<>>
        /\ last = 0 /\ hits = 0
    BY <2>1 DEF MergeInv, CutsOf, Tells
  <2>5. Cardinality({}) = 0 /\ IsFiniteSet({})
    BY FS_EmptySet
  <2>6. WriteInv'
    <3>1. Apart(merged)' /\ \A p \in Int : Covers(merged, p)' <=> Covered(p)'
      BY <2>1, <2>3, <2>4 DEF Apart, Covers, Covered
    <3>2. Tells(pieces, last)' /\ CutsOf(pieces)' = {}
      BY <2>1, <2>4 DEF Tells, True, Covered, CutsOf
    <3>3. hits' = Cardinality(CutsOf(pieces)') /\ IsFiniteSet(CutsOf(pieces)')
      BY <2>1, <2>4, <2>5, <3>2
    <3>4. next' <= Len(merged') + 1 /\ next' = 1 /\ last' = 0
      BY <2>1, <2>2, <2>4
    <3>5. QED
      BY <3>1, <3>2, <3>3, <3>4 DEF WriteInv
  <2>7. RedactTypeOK'
    BY <1>t, <2>1 DEF RedactTypeOK
  <2>8. Sorted(found)'
    BY <1>t, <2>1 DEF Sorted
  <2>9. QED
    BY <2>1, <2>6, <2>7, <2>8 DEF RedactInv
<1>3. CASE WriteSpan
  <2>1. /\ phase' = "writing" /\ next' = next + 1
        /\ UNCHANGED <<found, merged, clean, walked, fields>>
    BY <1>3 DEF WriteSpan, object
  <2>2. /\ WriteInv' /\ pieces' \in Seq(Piece) /\ last' \in 0..Length /\ hits' \in Nat
    BY <1>3, WriteStep
  <2>3. next' \in Nat \ {0}
    BY <1>t, <2>1 DEF RedactTypeOK
  <2>4. RedactTypeOK'
    BY <1>t, <2>1, <2>2, <2>3 DEF RedactTypeOK
  <2>5. Sorted(found)'
    BY <1>t, <2>1 DEF Sorted
  <2>6. QED
    BY <2>1, <2>2, <2>4, <2>5 DEF RedactInv
<1>4. CASE WriteEnds
  <2>1. /\ phase' = "written"
        /\ UNCHANGED <<found, next, merged, last, hits, clean, walked, fields>>
    BY <1>4 DEF WriteEnds, object
  <2>2. PiecesExact' /\ pieces' \in Seq(Piece)
    BY <1>4, WriteEnded
  <2>3. RedactTypeOK'
    BY <1>t, <2>1, <2>2 DEF RedactTypeOK
  <2>4. Sorted(found)'
    BY <1>t, <2>1 DEF Sorted
  <2>5. QED
    BY <2>1, <2>2, <2>3, <2>4 DEF RedactInv
<1>5. ASSUME NEW k \in Fields, WalkField(k) PROVE RedactInv'
  <2>1. /\ phase' = "walking"
        /\ UNCHANGED <<found, next, merged, pieces, last, hits, clean>>
    BY <1>5 DEF WalkField, text
  <2>2. /\ ObjectInv' /\ walked' \subseteq Fields
        /\ DOMAIN fields' \subseteq Seq(Nat) /\ \A n \in DOMAIN fields' : fields'[n] \in walked'
    BY <1>5, WalkStep
  <2>3. RedactTypeOK'
    BY <1>t, <2>1, <2>2 DEF RedactTypeOK
  <2>4. Sorted(found)'
    BY <1>t, <2>1 DEF Sorted
  <2>5. QED
    BY <2>1, <2>2, <2>3, <2>4 DEF RedactInv
<1>6. CASE WalkEnds
  <2>1. /\ phase' = "walked" /\ walked = Fields /\ ObjectInv
        /\ UNCHANGED <<found, next, merged, pieces, last, hits, clean, walked, fields>>
    BY <1>6 DEF WalkEnds, text, object, RedactInv
  <2>2. ObjectInv'
    BY <2>1 DEF ObjectInv
  <2>3. RedactTypeOK'
    BY <1>t, <2>1 DEF RedactTypeOK
  <2>4. Sorted(found)'
    BY <1>t, <2>1 DEF Sorted
  <2>5. QED
    BY <2>1, <2>2, <2>3, <2>4 DEF RedactInv
<1>7. CASE UNCHANGED redactVars
  <2>1. UNCHANGED <<found, next, merged, pieces, last, hits, clean, walked, fields, phase>>
    BY <1>7 DEF redactVars, text, object
  <2>2. RedactTypeOK' /\ Sorted(found)'
    BY <1>t, <2>1 DEF RedactTypeOK, Sorted
  <2>3. (phase = "merging" => MergeInv)'
    BY <2>1 DEF RedactInv, MergeInv, Apart, Covers
  <2>4. (phase = "writing" => WriteInv)'
    BY <2>1 DEF RedactInv, WriteInv, Apart, Covers, Covered, Tells, True, CutsOf
  <2>5. (phase = "written" => PiecesExact)'
    BY <2>1 DEF RedactInv, PiecesExact, Covered
  <2>6. (phase \in {"walking", "walked"} => ObjectInv)'
    BY <2>1 DEF RedactInv, ObjectInv
  <2>7. QED
    BY <2>2, <2>3, <2>4, <2>5, <2>6 DEF RedactInv
<1>8. QED
  BY <1>1, <1>2, <1>3, <1>4, <1>5, <1>6, <1>7 DEF RedactNext

(* Whatever spans are found in a string, in whichever way they overlap, its *)
(* pieces are the whole of it and exactly what some span covers is cut, a   *)
(* hit for each; and whatever the keys of an object are redacted to, and in *)
(* whichever order it is walked, every field is there once (redact.go,      *)
(* mergeOverlapping, replaceSpans and walk).                                *)
THEOREM RedactionIsExact == RedactSpec => []RedactsExactly
<1>1. RedactInv => RedactsExactly
  <2> SUFFICES ASSUME RedactInv PROVE RedactsExactly
    OBVIOUS
  <2>1. ASSUME phase = "walked" PROVE FieldsExact
    <3>1. ObjectInv /\ walked = Fields
      BY <2>1 DEF RedactInv, ObjectInv
    <3>2. SUFFICES ASSUME NEW k \in Fields
                   PROVE  Cardinality({n \in DOMAIN fields : fields[n] = k}) = 1
      BY DEF FieldsExact
    <3>3. PICK m \in DOMAIN fields : fields[m] = k
      BY <3>1 DEF ObjectInv
    <3>4. {n \in DOMAIN fields : fields[n] = k} = {m}
      BY <3>1, <3>3 DEF ObjectInv
    <3>5. QED
      BY <3>4, FS_Singleton
  <2>2. QED
    BY <2>1 DEF RedactInv, RedactsExactly
<1>2. RedactSpec => []RedactInv
  BY RedactStarts, RedactKeeps, PTL DEF RedactSpec
<1>3. QED
  BY <1>1, <1>2, PTL

===============================================================================
