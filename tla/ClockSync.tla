------------------------------- MODULE ClockSync -------------------------------
(***************************************************************************)
(* clock-sync measures how far the host's clock is off and caches the      *)
(* result, which emit stamps on its events (clock_offset_ms).              *)
(* One SNTP exchange per server is tried, in order, until one is accepted  *)
(* (cmd/activity-log/main.go clockSyncCmd, sntp.go; pkg/event/             *)
(* clockoffset.go).  Messages take their time, servers are silent or       *)
(* unsynchronised, the local clock is stepped in the middle, the host is   *)
(* suspended, and the 32 bits of NTP's seconds wrap (in 2036).             *)
(*                                                                         *)
(* Abstractions.  Time is counted in ticks from NTP's epoch; fractions of  *)
(* a second below a tick, and the rounding to a millisecond, are left out. *)
(* A server that calls itself synchronised has true time.  A clock does    *)
(* not drift during an exchange.  clock-sync runs once at a time: two runs *)
(* share only the renamed file.                                            *)
(***************************************************************************)
EXTENDS Integers

CONSTANTS
  Servers,      \* how many servers are tried
  Era,          \* ticks until NTP's seconds wrap
  Second,       \* ticks in a second
  Start,        \* true time at the beginning
  MaxNow,       \* bound: true time at the end
  Errors,       \* how far the local clock may be off: local - true
  MaxRTT,       \* maxSaneRTT
  MaxOffset,    \* maxSaneOffset
  MaxSteps,     \* bound: steps of the local clock
  MaxSleep      \* bound: ticks for which the host is suspended

(* No clock is a whole era off: time.Now() starts in 1970 at the earliest.  *)
(* Nor does a host sleep for one.                                           *)
ASSUME ClockAssumption ==
  /\ Servers \in Nat \ {0} /\ Second \in Nat \ {0} /\ MaxSteps \in Nat
  /\ MaxSleep \in Nat /\ MaxRTT \in Nat /\ MaxOffset \in Nat
  /\ Era \in Nat /\ MaxRTT < Era
  /\ Start \in Nat /\ MaxNow \in Nat /\ Start <= MaxNow /\ MaxNow < 2 * Era
  /\ Errors \subseteq Int
  /\ \A e, f \in Errors : 2 * MaxOffset + MaxRTT + MaxSleep + 1 < 2 * Era + e + f

VARIABLES
  now,          \* true time
  error,        \* how far the local clock is off
  steps,        \* steps of the local clock so far
  asleep,       \* ticks for which the host was suspended so far
  sync,         \* the clock-sync that runs
  cache,        \* the file clock-offset-ms
  stamp         \* clock_offset_ms of the last event

clockVars == <<now, error, steps, asleep, sync, cache, stamp>>

(* An offset; and what was measured: how far the clock was off when the     *)
(* exchange began and when it ended, the time the packets took by the       *)
(* monotonic clock, and the time the host slept meanwhile.                  *)
NoOffset == [set |-> FALSE, off |-> 0, begun |-> 0, ended |-> 0, rtt |-> 0, slept |-> 0]

(* t1 is by the local clock and m1 by the monotonic one, t2 and t3 are as   *)
(* they were on the wire; `begun' is how far the clock was off at t1, and   *)
(* `woken' how long the host had slept by then.                             *)
NoSync == [at |-> "idle", server |-> 0, t1 |-> 0, m1 |-> 0, t2 |-> 0, t3 |-> 0,
           healthy |-> FALSE, begun |-> 0, woken |-> 0, found |-> NoOffset]

ClockInit ==
  /\ now = Start /\ error \in Errors /\ steps = 0 /\ asleep = 0
  /\ sync = NoSync /\ cache = NoOffset /\ stamp = NoOffset

\* The local clock, and the one Go's Sub uses between two readings of it: it
\* stands still while the host is suspended.
Local == now + error
Monotonic == now - asleep

\* toNTP, then fromNTP: the seconds keep 32 bits and are read as era 0.
Wire(t) == IF t < Era THEN t ELSE t - Era

\* Go's division truncates.
Half(n) == IF n >= 0 THEN n \div 2 ELSE -((-n) \div 2)

-------------------------------------------------------------------------------
(* parseSNTPOffset. *)

(* The flags of a reply (mode, leap indicator, stratum), its length and its *)
(* originate timestamp are in order: `healthy'.  A transmit timestamp       *)
(* whose seconds are zero counts as unset.                                  *)
Trusted(s) == s.healthy /\ s.t3 \div Second # 0

RoundTrip(s, m4) == (m4 - s.m1) - (s.t3 - s.t2)

\* The two directions are mixed up: the path's delay is taken for an offset.
SwappedBug(s, t4) == Half((s.t1 - s.t2) - (t4 - s.t3))
Offset(s, t4) == Half((s.t1 - s.t2) + (t4 - s.t3))

Plausible(s, t4, m4) ==
  /\ RoundTrip(s, m4) \in 0..MaxRTT
  /\ Offset(s, t4) \in (-MaxOffset)..MaxOffset

-------------------------------------------------------------------------------
(* clockSyncCmd and measureClockOffset. *)

SyncStart ==
  /\ sync.at = "idle"
  /\ sync' = [NoSync EXCEPT !.at = "dialled", !.server = 1]
  /\ UNCHANGED <<now, error, steps, asleep, cache, stamp>>

\* time.Now() and the request that carries it.
Request ==
  /\ sync.at = "dialled"
  /\ sync' = [sync EXCEPT !.at = "sent", !.t1 = Local, !.m1 = Monotonic, !.begun = error,
                          !.woken = asleep]
  /\ UNCHANGED <<now, error, steps, asleep, cache, stamp>>

\* External: the server gets the request ...
ServerReceives ==
  /\ sync.at = "sent"
  /\ sync' = [sync EXCEPT !.at = "served", !.t2 = Wire(now)]
  /\ UNCHANGED <<now, error, steps, asleep, cache, stamp>>

\* ... and answers it.
ServerAnswers ==
  /\ sync.at = "served"
  /\ \E h \in BOOLEAN :
       sync' = [sync EXCEPT !.at = "answered", !.t3 = Wire(now), !.healthy = h]
  /\ UNCHANGED <<now, error, steps, asleep, cache, stamp>>

\* measureClockOffsetMulti: the next server, or the file is left as it is.
NextServer ==
  sync' = IF sync.server < Servers
            THEN [NoSync EXCEPT !.at = "dialled", !.server = sync.server + 1]
            ELSE NoSync

Accept ==
  /\ sync.at = "answered"
  /\ Trusted(sync) /\ Plausible(sync, Local, Monotonic)
  /\ sync' = [sync EXCEPT
       !.at = "measured",
       !.found = [set |-> TRUE, off |-> Offset(sync, Local), begun |-> sync.begun,
                  ended |-> error, rtt |-> RoundTrip(sync, Monotonic),
                  slept |-> asleep - sync.woken]]
  /\ UNCHANGED <<now, error, steps, asleep, cache, stamp>>

\* The answer is refused, or there is none in time; the socket is closed.
TryNext ==
  /\ sync.at \in {"dialled", "sent", "served", "answered"}
  /\ NextServer
  /\ UNCHANGED <<now, error, steps, asleep, cache, stamp>>

\* atomicWriteFile: the old value or the new one.
Store ==
  /\ sync.at = "measured"
  /\ cache' = sync.found
  /\ sync' = NoSync
  /\ UNCHANGED <<now, error, steps, asleep, stamp>>

\* The process is killed, or the file cannot be written.
SyncFails ==
  /\ sync # NoSync
  /\ sync' = NoSync
  /\ UNCHANGED <<now, error, steps, asleep, cache, stamp>>

-------------------------------------------------------------------------------
(* The rest of the host. *)

\* NewLocked: an event takes the cached offset, or carries none.
Stamp ==
  /\ stamp # cache
  /\ stamp' = cache
  /\ UNCHANGED <<now, error, steps, asleep, sync, cache>>

Tick ==
  /\ now < MaxNow
  /\ now' = now + 1
  /\ UNCHANGED <<error, steps, asleep, sync, cache, stamp>>

\* Time passes while the host is suspended; servers and packets go on.
Suspended ==
  /\ now < MaxNow /\ asleep < MaxSleep
  /\ now' = now + 1 /\ asleep' = asleep + 1
  /\ UNCHANGED <<error, steps, sync, cache, stamp>>

\* The local clock is set.
StepClock ==
  /\ steps < MaxSteps /\ steps' = steps + 1
  /\ error' \in Errors
  /\ UNCHANGED <<now, asleep, sync, cache, stamp>>

ClockNext ==
  \/ SyncStart \/ Request \/ ServerReceives \/ ServerAnswers
  \/ Accept \/ TryNext \/ Store \/ SyncFails
  \/ Stamp \/ Tick \/ Suspended \/ StepClock

ClockSpec == ClockInit /\ [][ClockNext]_clockVars

-------------------------------------------------------------------------------
(* Properties. *)

Found == [set : BOOLEAN, off : Int, begun : Int, ended : Int, rtt : Int,
          slept : Int]
Sync == [at : {"idle", "dialled", "sent", "served", "answered", "measured"},
         server : 0..Servers, t1 : Int, m1 : Int, t2 : Int, t3 : Int,
         healthy : BOOLEAN, begun : Int, woken : Int, found : Found]

ClockTypeOK ==
  /\ now \in Start..MaxNow /\ error \in Errors /\ steps \in Nat
  /\ asleep \in 0..MaxSleep
  /\ sync \in Sync
  /\ cache \in Found /\ stamp \in Found

\* Half the round trip and the sleep it does not show, and the tick the
\* division drops.
Within(c) ==
  LET miss == 2 * c.off - (c.begun + c.ended)
  IN  -(c.rtt + c.slept + 1) <= miss /\ miss <= c.rtt + c.slept + 1

(* An offset in the cache or on an event is what the clock was off, to half *)
(* the round trip -- the mean of before and after, when the clock was       *)
(* stepped in between -- whichever way the packets lingered, and also when  *)
(* NTP's era ends before, during or after the exchange.  A suspend during   *)
(* the exchange is not in the round trip that maxSaneRTT bounds: the offset *)
(* may be wrong by half of that, too.                                       *)
OffsetBound == \A c \in {cache, stamp} : c.set => Within(c)
===============================================================================
