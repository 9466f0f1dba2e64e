----------------------------- MODULE ShardWriters -----------------------------
(***************************************************************************)
(* The write path of one host: every process that changes the host's shard *)
(* (sync/events-<host>.jsonl), its sequence file (store/seq-<host>), its   *)
(* monthly gzip archives and its redaction audit.                          *)
(*                                                                         *)
(*   emit     `activity-log emit`           cmd/activity-log/main.go       *)
(*   push     the locked part of POST /push server/main.go                 *)
(*   compact  `activity-log compact`        cmd/activity-log/compact.go    *)
(*   redact   `activity-log redact-shard`   cmd/activity-log/redact.go     *)
(*                                                                         *)
(* All four take the flock on seq-<host> (pkg/event/lock.go); the kernel   *)
(* frees it when its holder dies.  Each file operation between two points  *)
(* where another process could look, or where the process could die, is    *)
(* an action of its own.                                                   *)
(*                                                                         *)
(* Abstractions.  A file is the set of its well-formed event lines, each   *)
(* with its place `pos' in the file: only the order of the places matters. *)
(* Malformed lines carry no event and both rewrites keep them verbatim, so *)
(* they are left out; the state of the file's END is kept (`torn', `tail') *)
(* because the next append depends on it.  A gzip member is the set of its *)
(* lines and whether it is complete.  Every write is fsynced before the    *)
(* next step, so a host crash is a crash of each of its processes.  A dry  *)
(* run writes nothing and is not modelled.                                 *)
(***************************************************************************)
EXTENDS Integers, Sequences, FiniteSets

CONSTANTS
  Procs,        \* processes (and push handlers) of this host
  NoProc,       \* "nobody": not a process
  Stamps,       \* the instants events can be stamped with
  MonthOf,      \* MonthOf[t]: the calendar month of instant t
  Ops,          \* the operations started in this instance
  Faults,       \* which faults can happen, see FaultKinds
  MaxEvents,    \* bound: events created
  MaxFaults     \* bound: faults

OpKinds == {"emit", "push", "compact", "redact"}

(* "io"       a write fails (disk full, I/O error)                          *)
(* "crash"    a process is killed at any point                              *)
(* "tailread" lastByte cannot read the shard's last byte                    *)
(* "stat"     statArchive cannot stat an archive that exists                *)
(* "undo"     a compaction fails, and so does a Remove or Truncate of its   *)
(*            rollback; both errors are ignored                             *)
(* "seqfile"  seq-<host> is emptied or overwritten in place by other hands. *)
(*            It stays the same file: removing it would put the lock on a   *)
(*            new one beside a holder of the old, and is not modelled.      *)
FaultKinds == {"io", "crash", "tailread", "stat", "undo", "seqfile"}

ASSUME WritersAssumption ==
  /\ NoProc \notin Procs
  /\ Stamps \subseteq Nat
  /\ MonthOf \in [Stamps -> Nat]
  /\ Ops \subseteq OpKinds
  /\ Faults \subseteq FaultKinds
  /\ MaxEvents \in Nat
  /\ MaxFaults \in Nat

Months == {MonthOf[t] : t \in Stamps}

(* What redaction says of a line: "hit" -- a value was replaced when it was *)
(* written (an audit row is due); "leak" -- it holds a value the rules of   *)
(* its time missed and today's rules would replace; "none" -- neither.      *)
Marks == {"none", "hit", "leak"}

\* An event line on disk, and an event a process is still putting together.
Event == [id : Nat, seq : Nat, ts : Stamps, mark : Marks, pos : Nat]
Draft == [id : Nat, seq : Nat, ts : Nat, mark : Marks, pos : Nat]
Member == [lines : SUBSET Event, whole : BOOLEAN]
File == [lines : SUBSET Event, tail : SUBSET Event, torn : BOOLEAN]
Job == [op : OpKinds \cup {"none"}, ev : Draft, cut : Nat, snap : File,
        todo : SUBSET Months, base : [Months -> Nat]]

PCs == {"idle", "waiting", "locked", "numbered", "appended", "released",
        "audited", "archiving", "rewriting"}

VARIABLES
  lock,         \* the holder of the flock on seq-<host>, or NoProc
  seqFile,      \* the number seq-<host> holds; 0 when absent or unreadable
  shard,        \* the event lines of the live shard that end in a newline
  tail,         \* at most one whole event whose newline was never written
  torn,         \* the shard is not empty and its last byte is not a newline
  end,          \* the last place given to a line of the shard
  archive,      \* archive[m]: the gzip members of the month's archive file
  audit,        \* the ids with a row in audit/redactions-*.jsonl
  acked,        \* the ids whose writer was told the write succeeded
  pc,           \* pc[p]: where process p is in its operation
  job,          \* job[p]: the local variables of that operation
  born,         \* events created so far: the last id given
  faults        \* faults so far

file == <<shard, tail, torn, end>>
bounds == <<born, faults>>
vars == <<lock, seqFile, shard, tail, torn, end, archive, audit, acked, pc,
          job, born, faults>>

NoDraft == [id |-> 0, seq |-> 0, ts |-> 0, mark |-> "none", pos |-> 0]
NoFile == [lines |-> {}, tail |-> {}, torn |-> FALSE]
NoJob == [op |-> "none", ev |-> NoDraft, cut |-> 0, snap |-> NoFile,
          todo |-> {}, base |-> [m \in Months |-> 0]]

Init ==
  /\ lock = NoProc
  /\ seqFile = 0
  /\ shard = {} /\ tail = {} /\ torn = FALSE /\ end = 0
  /\ archive = [m \in Months |-> <<>>]
  /\ audit = {} /\ acked = {}
  /\ pc = [p \in Procs |-> "idle"]
  /\ job = [p \in Procs |-> NoJob]
  /\ born = 0 /\ faults = 0

-------------------------------------------------------------------------------
(* Starting, waiting for the lock, giving it back. *)

Fault(kind) == kind \in Faults /\ faults < MaxFaults /\ faults' = faults + 1

At(p, state, kind) == pc[p] = state /\ job[p].op = kind

Goto(p, state) == pc' = [pc EXCEPT ![p] = state]
Done(p) == Goto(p, "idle") /\ job' = [job EXCEPT ![p] = NoJob]

Unlocked == NoProc

(* An emit or a push: the id is fixed before the lock is taken (a push      *)
(* carries its id, an emit draws a random one: distinct either way).        *)
StartWrite(p, kind) ==
  /\ kind \in {"emit", "push"} \cap Ops
  /\ pc[p] = "idle" /\ born < MaxEvents
  /\ born' = born + 1
  /\ Goto(p, "waiting")
  /\ job' = [job EXCEPT ![p] = [NoJob EXCEPT !.op = kind, !.ev.id = born + 1]]
  /\ UNCHANGED <<lock, seqFile, file, archive, audit, acked, faults>>

\* compact fixes its cutoff (now - keep) before it waits for the lock.
StartCompact(p, cut) ==
  /\ "compact" \in Ops
  /\ pc[p] = "idle"
  /\ Goto(p, "waiting")
  /\ job' = [job EXCEPT ![p] = [NoJob EXCEPT !.op = "compact", !.cut = cut]]
  /\ UNCHANGED <<lock, seqFile, file, archive, audit, acked, bounds>>

StartRedact(p) ==
  /\ "redact" \in Ops
  /\ pc[p] = "idle"
  /\ Goto(p, "waiting")
  /\ job' = [job EXCEPT ![p] = [NoJob EXCEPT !.op = "redact"]]
  /\ UNCHANGED <<lock, seqFile, file, archive, audit, acked, bounds>>

(* Seeded bugs: definitions named ..Bug are variants of the definition that *)
(* follows them, each with one plausible mistake.  Nothing here uses them;  *)
(* substituted one at a time they show that the properties notice.          *)

\* Nobody waits for anybody / redact-shard has a lock of its own.
LockIgnoredBug(p) == TRUE
RedactApartBug(p) ==
  \A q \in Procs \ {p} : \/ pc[q] \in {"idle", "waiting", "released"}
                         \/ (job[p].op = "redact") # (job[q].op = "redact")

\* What flock(LOCK_EX) waits for.
LockIsFree(p) == lock = NoProc

\* AcquireHostLock: flock(LOCK_EX) returns to one of the waiting processes.
Acquire(p) ==
  /\ pc[p] = "waiting" /\ LockIsFree(p)
  /\ lock' = p
  /\ Goto(p, "locked")
  /\ UNCHANGED <<seqFile, file, archive, audit, acked, job, bounds>>

\* seq-<host> cannot be opened or locked: the operation ends with an error.
AcquireFails(p) ==
  /\ Fault("io")
  /\ pc[p] = "waiting"
  /\ Done(p)
  /\ UNCHANGED <<lock, seqFile, file, archive, audit, acked, born>>

-------------------------------------------------------------------------------
(* emit and push. *)

(* NewLocked: the number after the one on file is stored and taken, and the *)
(* event is stamped.  The clock may have been set back, a push brings its   *)
(* own timestamp, and the redaction rules are those of p's binary, so the   *)
(* stamp and the mark are arbitrary.                                        *)
NextSeq(p) ==
  /\ pc[p] = "locked" /\ job[p].op \in {"emit", "push"}
  /\ seqFile' = seqFile + 1
  /\ \E t \in Stamps, k \in Marks :
       job' = [job EXCEPT ![p].ev.seq = seqFile + 1, ![p].ev.ts = t,
                          ![p].ev.mark = k]
  /\ Goto(p, "numbered")
  /\ UNCHANGED <<lock, file, archive, audit, acked, bounds>>

\* A failed store takes the number back although it was never stored.
NumberUnderflowBug(p) ==
  /\ Fault("io")
  /\ pc[p] = "locked" /\ job[p].op \in {"emit", "push"}
  /\ seqFile' = seqFile - 1
  /\ lock' = Unlocked
  /\ Done(p)
  /\ UNCHANGED <<file, archive, audit, acked, born>>

\* handlePush, which has no deferred release, returns without releasing.
KeepsLockBug(p) ==
  /\ Fault("io")
  /\ pc[p] = "locked" /\ job[p].op \in {"emit", "push"}
  /\ seqFile' \in {seqFile, seqFile + 1}
  /\ lock' = IF job[p].op = "emit" THEN Unlocked ELSE lock
  /\ Done(p)
  /\ UNCHANGED <<file, archive, audit, acked, born>>

\* The number could not be stored, or was stored but not synced, or the event
\* could not be marshalled.
NextSeqFails(p) ==
  /\ Fault("io")
  /\ pc[p] = "locked" /\ job[p].op \in {"emit", "push"}
  /\ seqFile' \in {seqFile, seqFile + 1}
  /\ lock' = Unlocked
  /\ Done(p)
  /\ UNCHANGED <<file, archive, audit, acked, born>>

\* p's event as a line of the shard, at the next place.
Line(p) == [job[p].ev EXCEPT !.pos = end + 1]

(* AppendLocked.  A torn tail is first closed with a newline, so an event   *)
(* that lacked only that becomes a line; then the new line is written.      *)
Healed == shard \cup tail

WholeLine(p) ==
  /\ shard' = Healed \cup {Line(p)}
  /\ tail' = {} /\ torn' = FALSE
  /\ end' = end + 1

AppendLine(p) ==
  /\ pc[p] = "numbered"
  /\ WholeLine(p)
  /\ Goto(p, "appended")
  /\ UNCHANGED <<lock, seqFile, archive, audit, acked, job, bounds>>

(* lastByte failed on a torn shard: its error is ignored, no separator is   *)
(* written and the new line is glued to the fragment -- one malformed line. *)
AppendGlued(p) ==
  /\ Fault("tailread")
  /\ pc[p] = "numbered" /\ torn
  /\ tail' = {} /\ torn' = FALSE
  /\ Goto(p, "appended")
  /\ UNCHANGED <<shard, end, lock, seqFile, archive, audit, acked, job, born>>

(* What a write of separator and line can leave when it does not succeed:   *)
(* the separator alone, a fragment of the line, the line without its        *)
(* newline, or all of it (only the fsync failed).                           *)
PartialLine(p) ==
  \/ /\ torn
     /\ shard' = Healed /\ tail' = {} /\ torn' = FALSE /\ UNCHANGED end
  \/ shard' = Healed /\ tail' = {} /\ torn' = TRUE /\ UNCHANGED end
  \/ shard' = Healed /\ tail' = {Line(p)} /\ torn' = TRUE /\ end' = end + 1
  \/ WholeLine(p)

\* The number of an event that could not be appended is given to the next.
NumberReusedBug(p) ==
  /\ Fault("io")
  /\ pc[p] = "numbered"
  /\ UNCHANGED file \/ PartialLine(p)
  /\ seqFile' = seqFile - 1
  /\ lock' = Unlocked
  /\ Done(p)
  /\ UNCHANGED <<archive, audit, acked, born>>

AppendFails(p) ==
  /\ Fault("io")
  /\ pc[p] = "numbered"
  /\ UNCHANGED file \/ PartialLine(p)
  /\ lock' = Unlocked
  /\ Done(p)
  /\ UNCHANGED <<seqFile, archive, audit, acked, born>>

\* handlePush releases the lock as soon as the line is in the shard.
PushRelease(p) ==
  /\ At(p, "appended", "push")
  /\ lock' = Unlocked
  /\ Goto(p, "released")
  /\ UNCHANGED <<seqFile, file, archive, audit, acked, job, bounds>>

\* The CLI drops the hits Marshal returns.
NoCliAuditBug(p) ==
  IF job[p].ev.mark = "hit" /\ job[p].op = "push" THEN {job[p].ev.id} ELSE {}

AuditRow(p) == IF job[p].ev.mark = "hit" THEN {job[p].ev.id} ELSE {}

(* AppendAudit: a row when something was redacted.  Failing to write it is  *)
(* only a warning.                                                          *)
Audit(p) ==
  /\ At(p, "appended", "emit") \/ At(p, "released", "push")
  /\ \/ audit' = audit \cup AuditRow(p) /\ UNCHANGED faults
     \/ Fault("io") /\ UNCHANGED audit
  /\ Goto(p, "audited")
  /\ UNCHANGED <<lock, seqFile, file, archive, acked, job, born>>

\* The id is printed and the deferred release runs / 200 is answered.
Reply(p) ==
  /\ pc[p] = "audited"
  /\ acked' = acked \cup {job[p].ev.id}
  /\ lock' = IF job[p].op = "emit" THEN Unlocked ELSE lock
  /\ Done(p)
  /\ UNCHANGED <<seqFile, file, archive, audit, bounds>>

-------------------------------------------------------------------------------
(* compact. *)

CurrentFile == [lines |-> shard, tail |-> tail, torn |-> torn]

\* The lines of file f that a compaction with this cutoff archives; an
\* unterminated last line is never among them.
Old(f, cut) == {e \in f.lines : e.ts < cut}

\* compactShard's partition: the old lines of one month.
OldOf(p, m) == {e \in Old(job[p].snap, job[p].cut) : MonthOf[e.ts] = m}

MonthsOf(lines) == {MonthOf[e.ts] : e \in lines}

\* compact or redact-shard cannot read the shard.
ReadFails(p) ==
  /\ Fault("io")
  /\ At(p, "locked", "compact") \/ At(p, "locked", "redact")
  /\ lock' = Unlocked
  /\ Done(p)
  /\ UNCHANGED <<seqFile, file, archive, audit, acked, born>>

\* The shard is read; nothing is old enough: compact is done.
CompactNothing(p) ==
  /\ At(p, "locked", "compact")
  /\ Old(CurrentFile, job[p].cut) = {}
  /\ lock' = Unlocked
  /\ Done(p)
  /\ UNCHANGED <<seqFile, file, archive, audit, acked, bounds>>

CompactRead(p) ==
  /\ At(p, "locked", "compact")
  /\ LET old == Old(CurrentFile, job[p].cut) IN
       /\ old # {}
       /\ job' = [job EXCEPT ![p].snap = CurrentFile,
                             ![p].todo = MonthsOf(old)]
  /\ Goto(p, "archiving")
  /\ UNCHANGED <<lock, seqFile, file, archive, audit, acked, bounds>>

\* m is the next month to archive: sort.Strings orders the months.
NextMonth(p, m) == m \in job[p].todo /\ \A n \in job[p].todo : m <= n

WholeMember(lines) == [lines |-> lines, whole |-> TRUE]
TornMember == [lines |-> {}, whole |-> FALSE]

\* statArchive: the archive's size, or "there is none", size 0, on any error.
Statted(m, size) ==
  \/ size = Len(archive[m]) /\ UNCHANGED faults
  \/ size = 0 /\ Fault("stat")

\* statArchive, then appendGzipMember: one more member in the month's file.
ArchiveMonth(p) ==
  /\ pc[p] = "archiving"
  /\ \E m \in Months :
       /\ NextMonth(p, m)
       /\ archive' = [archive EXCEPT ![m] = Append(@, WholeMember(OldOf(p, m)))]
       /\ \E size \in {0, Len(archive[m])} :
            /\ Statted(m, size)
            /\ job' = [job EXCEPT ![p].todo = @ \ {m}, ![p].base[m] = size]
  /\ UNCHANGED <<lock, seqFile, file, audit, acked, pc, born>>

(* The rollback closure: every archive this run has appended to is cut back *)
(* to the size recorded; one recorded as absent is removed.                 *)
Touched(p) == MonthsOf(Old(job[p].snap, job[p].cut)) \ job[p].todo

\* Only the months before the one that failed are cut back.
RollbackShortBug(p) ==
  [m \in Months |-> IF m \in Touched(p) /\ (\E n \in Touched(p) : n > m)
                      THEN SubSeq(archive[m], 1, job[p].base[m])
                      ELSE archive[m]]

\* Every archive is cut back, to size 0 where none was recorded.
RollbackAllBug(p) == [m \in Months |-> SubSeq(archive[m], 1, job[p].base[m])]

RolledBack(p) ==
  [m \in Months |-> IF m \in Touched(p)
                      THEN SubSeq(archive[m], 1, job[p].base[m])
                      ELSE archive[m]]

\* A rollback that could not undo the archives in kept: its errors are ignored.
Undone(p, kept) ==
  [m \in Months |-> IF m \in kept THEN archive[m] ELSE RolledBack(p)[m]]

\* The archive of m after a failed append that is not undone.
Remains(p, m) ==
  {archive[m]} \cup {Append(archive[m], mem) :
                       mem \in {TornMember, WholeMember(OldOf(p, m))}}

(* A member could not be written, or not synced.  The rollback includes its *)
(* month m, which then is as it was -- or is gone, if m could not be        *)
(* statted either, or keeps what was written, if the rollback fails.  (A    *)
(* kill during the rollback leaves what a failing rollback leaves.)         *)
ArchiveFails(p) ==
  /\ pc[p] = "archiving"
  /\ \E m \in Months :
       /\ NextMonth(p, m)
       /\ \/ Fault("io") /\ archive' = RolledBack(p)
          \/ Fault("stat") /\ archive' = [RolledBack(p) EXCEPT ![m] = <<>>]
          \/ /\ Fault("undo")
             /\ \E kept \in SUBSET Touched(p), rest \in Remains(p, m) :
                  archive' = [Undone(p, kept) EXCEPT ![m] = rest]
  /\ lock' = Unlocked
  /\ Done(p)
  /\ UNCHANGED <<seqFile, file, audit, acked, born>>

\* The shard is rewritten before all the months are archived.
EarlyRewriteBug(p) ==
  /\ pc[p] = "archiving"
  /\ shard' = job[p].snap.lines \ Old(job[p].snap, job[p].cut)
  /\ tail' = job[p].snap.tail /\ torn' = job[p].snap.torn
  /\ lock' = Unlocked
  /\ Done(p)
  /\ UNCHANGED <<end, seqFile, archive, audit, acked, bounds>>

\* rewriteShard: what was kept replaces the shard (temp file, fsync, rename).
CompactRewrite(p) ==
  /\ pc[p] = "archiving" /\ job[p].todo = {}
  /\ shard' = job[p].snap.lines \ Old(job[p].snap, job[p].cut)
  /\ tail' = job[p].snap.tail /\ torn' = job[p].snap.torn
  /\ lock' = Unlocked
  /\ Done(p)
  /\ UNCHANGED <<end, seqFile, archive, audit, acked, bounds>>

CompactRewriteFails(p) ==
  /\ pc[p] = "archiving" /\ job[p].todo = {}
  /\ \/ Fault("io") /\ archive' = RolledBack(p)
     \/ Fault("undo") /\ \E kept \in SUBSET Touched(p) : archive' = Undone(p, kept)
  /\ lock' = Unlocked
  /\ Done(p)
  /\ UNCHANGED <<seqFile, file, audit, acked, born>>

-------------------------------------------------------------------------------
(* redact-shard. *)

\* redactEventLine: today's rules replace what earlier ones let through.
Scrub(e) == IF e.mark = "leak" THEN [e EXCEPT !.mark = "none"] ELSE e
Scrubbed(lines) == {Scrub(e) : e \in lines}

Changes(f) == \E e \in f.lines \cup f.tail : Scrub(e) # e

RedactNothing(p) ==
  /\ At(p, "locked", "redact")
  /\ ~Changes(CurrentFile)
  /\ lock' = Unlocked
  /\ Done(p)
  /\ UNCHANGED <<seqFile, file, archive, audit, acked, bounds>>

RedactRead(p) ==
  /\ At(p, "locked", "redact")
  /\ Changes(CurrentFile)
  /\ job' = [job EXCEPT ![p].snap = CurrentFile]
  /\ Goto(p, "rewriting")
  /\ UNCHANGED <<lock, seqFile, file, archive, audit, acked, bounds>>

\* The unterminated last line is scrubbed too and stays unterminated.
RedactRewrite(p) ==
  /\ pc[p] = "rewriting"
  /\ shard' = Scrubbed(job[p].snap.lines)
  /\ tail' = Scrubbed(job[p].snap.tail) /\ torn' = job[p].snap.torn
  /\ lock' = Unlocked
  /\ Done(p)
  /\ UNCHANGED <<end, seqFile, archive, audit, acked, bounds>>

RedactRewriteFails(p) ==
  /\ Fault("io")
  /\ pc[p] = "rewriting"
  /\ lock' = Unlocked
  /\ Done(p)
  /\ UNCHANGED <<seqFile, file, archive, audit, acked, born>>

-------------------------------------------------------------------------------
(* Crashes and other hands. *)

(* p is killed.  The kernel drops its lock; a write in progress may be cut  *)
(* short: the append of the line, or of the current gzip member.            *)
Crash(p) ==
  /\ Fault("crash")
  /\ pc[p] # "idle"
  /\ lock' = IF lock = p THEN Unlocked ELSE lock
  /\ Done(p)
  /\ \/ UNCHANGED <<file, archive>>
     \/ pc[p] = "numbered" /\ PartialLine(p) /\ UNCHANGED archive
     \/ /\ pc[p] = "archiving"
        /\ \E m \in Months :
             /\ NextMonth(p, m)
             /\ archive' = [archive EXCEPT ![m] = Append(@, TornMember)]
        /\ UNCHANGED file
  /\ UNCHANGED <<seqFile, audit, acked, born>>

\* NextSeq reads an empty or unparsable seq file as 0.
SeqFileDamaged ==
  /\ Fault("seqfile")
  /\ seqFile' = 0
  /\ UNCHANGED <<lock, file, archive, audit, acked, pc, job, born>>

-------------------------------------------------------------------------------
\* What p does without the lock: begin an operation, or give it up.
Start(p) ==
  \/ \E kind \in OpKinds : StartWrite(p, kind)
  \/ \E t \in Stamps : StartCompact(p, t + 1)
  \/ StartRedact(p)
  \/ AcquireFails(p)

WriteStep(p) ==
  \/ NextSeq(p) \/ NextSeqFails(p)
  \/ AppendLine(p) \/ AppendGlued(p) \/ AppendFails(p)
  \/ PushRelease(p) \/ Audit(p) \/ Reply(p)

CompactStep(p) ==
  \/ ReadFails(p) \/ CompactNothing(p) \/ CompactRead(p)
  \/ ArchiveMonth(p) \/ ArchiveFails(p)
  \/ CompactRewrite(p) \/ CompactRewriteFails(p)

RedactStep(p) ==
  \/ RedactNothing(p) \/ RedactRead(p)
  \/ RedactRewrite(p) \/ RedactRewriteFails(p)

\* What p does once it has the lock; nothing in it waits for another process.
LockedStep(p) == WriteStep(p) \/ CompactStep(p) \/ RedactStep(p)

Next ==
  \/ \E p \in Procs : Start(p) \/ Acquire(p) \/ LockedStep(p) \/ Crash(p)
  \/ SeqFileDamaged

Spec == Init /\ [][Next]_vars

(* A process that holds the lock never blocks: it is only assumed to be     *)
(* scheduled.  Nothing is assumed of who gets the lock, or of the faults.   *)
FairSpec == Spec /\ \A p \in Procs : WF_vars(LockedStep(p))

-------------------------------------------------------------------------------
(* What the files hold. *)

MembersOf(m) == {archive[m][i] : i \in DOMAIN archive[m]}
ArchivedIn(m) == UNION {mem.lines : mem \in MembersOf(m)}
Archived == UNION {ArchivedIn(m) : m \in Months}

\* zcat reads a month's members in order and stops at the first broken one.
ReadableIn(m) ==
  UNION {archive[m][i].lines : i \in {k \in DOMAIN archive[m] :
                                        \A j \in 1..k : archive[m][j].whole}}

Live == shard \cup tail
Readable == Live \cup UNION {ReadableIn(m) : m \in Months}
IdsOf(lines) == {e.id : e \in lines}

\* p holds the lock by its own account.
Holding(p) ==
  \/ pc[p] \in {"locked", "numbered", "appended", "archiving", "rewriting"}
  \/ At(p, "audited", "emit")

Compacting == \E p \in Procs : pc[p] = "archiving"

-------------------------------------------------------------------------------
(* Properties. *)

\* The types of the variables.
TypeOK ==
  /\ lock \in Procs \cup {NoProc}
  /\ seqFile \in Nat
  /\ shard \subseteq Event /\ tail \subseteq Event
  /\ torn \in BOOLEAN /\ end \in Nat
  /\ archive \in [Months -> Seq(Member)]
  /\ audit \subseteq Nat /\ acked \subseteq Nat
  /\ pc \in [Procs -> PCs]
  /\ job \in [Procs -> Job]
  /\ \A p \in Procs : pc[p] = "numbered" => job[p].ev \in Event
  /\ born \in Nat /\ faults \in Nat

(* Along the shard the sequence numbers strictly increase and none is ahead *)
(* of the sequence file, so the next number is new whoever takes it: holds  *)
(* through appends of several processes, compactions and redactions of the  *)
(* file in between, failed appends and crashes (not when seq-<host> itself  *)
(* is damaged).  pkg/event/lock.go:48, pkg/shard/shard.go:56.               *)
SeqOrder ==
  /\ \A e1, e2 \in Live : e1.pos < e2.pos => e1.seq < e2.seq
  /\ \A e \in Live : e.seq <= seqFile

(* Two different events never carry the same sequence number, wherever they *)
(* are by now, the archives included.                                       *)
SeqUnique ==
  \A e1, e2 \in Live \cup Archived : e1.seq = e2.seq => e1.id = e2.id

(* An event whose writer was told it succeeded can be read: in the live     *)
(* shard, or in an archive no broken member hides.  "keeps the live file    *)
(* lean without losing history" (README.md).                                *)
AckedReadable == acked \subseteq IdsOf(Readable)

(* Unless a compaction is under way no event is in two places: not in the   *)
(* shard and an archive, not in two members of the archives, whichever step *)
(* of a compaction failed.  (A compaction that is killed, or cannot undo    *)
(* what it archived, does leave events in both.)  compact.go:138-151.       *)
OnePlace ==
  ~Compacting =>
    /\ IdsOf(Live) \cap IdsOf(Archived) = {}
    /\ \A m, n \in Months : \A i \in DOMAIN archive[m], j \in DOMAIN archive[n] :
         <<m, i>> # <<n, j>> =>
           IdsOf(archive[m][i].lines) \cap IdsOf(archive[n][j].lines) = {}

(* The audit names only events that are on disk, since a row never precedes *)
(* its event (event.AppendAudit runs after shard.AppendLocked) and a        *)
(* compaction that fails takes back no more than it had added; and while    *)
(* nothing has failed, an acknowledged event in which a value was replaced  *)
(* has its row.  (Not where the last byte of the shard or the size of an    *)
(* archive could not be read: then events can be lost that have a row.)     *)
AuditTrue ==
  /\ audit \subseteq IdsOf(Live \cup Archived)
  /\ faults = 0 =>
       \A e \in Live \cup Archived :
         e.mark = "hit" /\ e.id \in acked => e.id \in audit

(* A line leaves the live shard only for a complete archive member holding  *)
(* it, whichever of FaultKinds happen: no rewrite drops an event that was   *)
(* appended after the rewriter read the file.                               *)
LeavesForArchive ==
  [][IdsOf(shard) \subseteq IdsOf(shard' \cup Archived')]_vars

(* A value redact-shard scrubbed from a line never comes back into it: no   *)
(* other rewrite works from a copy read before the scrubbing.               *)
NoLeakReturns ==
  [][\A e \in Live' : e.mark = "leak" =>
       \/ e.id \notin IdsOf(Live)
       \/ \E d \in Live : d.id = e.id /\ d.mark = "leak"]_vars

(* The lock is given back again and again: every path of a writer that has  *)
(* taken it, the failing ones included, ends in a release.                  *)
LockComesBack == []<>(lock = NoProc)

(* The host's files as the log their readers see.                           *)
Store == INSTANCE EventStore WITH
           Ids <- 1..MaxEvents, log <- IdsOf(Readable), acked <- acked

(* Reading shard and archives together gives a log that never forgets, and  *)
(* only events in it are acknowledged, through failed writes, compactions   *)
(* and redactions.  (Not after a kill or a failed rollback inside an        *)
(* archive, a rollback of an archive that could not be statted, or a        *)
(* separator left out because the last byte could not be read.)             *)
ImplementsStore == Store!SSpec
===============================================================================
