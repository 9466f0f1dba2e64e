-------------------------- MODULE ShardWritersProofs --------------------------
(***************************************************************************)
(* Theorems about ShardWriters, for every set of processes, every calendar *)
(* and every bound: its types, the exclusion its lock gives, and the order *)
(* of the sequence numbers along the shard.                                *)
(***************************************************************************)
EXTENDS ShardWriters, SequenceTheorems, TLAPS

-------------------------------------------------------------------------------
(* Types. *)

\* The files' types are kept by everything a write can leave in the shard.
LEMMA PartialLineType ==
  ASSUME TypeOK, NEW p \in Procs, pc[p] = "numbered", PartialLine(p)
  PROVE  shard' \subseteq Event /\ tail' \subseteq Event
         /\ torn' \in BOOLEAN /\ end' \in Nat
<1>1. job[p].ev \in Event /\ end \in Nat
  BY DEF TypeOK
<1>2. Line(p) \in Event
  BY <1>1 DEF Line, Event
<1>3. shard \cup tail \subseteq Event /\ end + 1 \in Nat
  BY DEF TypeOK
<1>4. QED
  BY <1>2, <1>3 DEF TypeOK, PartialLine, WholeLine, Healed

LEMMA NoJobType == NoJob \in Job /\ NoJob.op = "none"
BY DEF NoJob, Job, NoDraft, Draft, NoFile, File, Marks, Months, Event, OpKinds

LEMMA InitType == Init => TypeOK
<1> SUFFICES ASSUME Init PROVE TypeOK
  OBVIOUS
<1>1. archive \in [Months -> Seq(Member)]
  BY DEF Init
<1>2. pc \in [Procs -> PCs] /\ job \in [Procs -> Job]
  BY NoJobType DEF Init, PCs
<1>3. \A p \in Procs : pc[p] = "idle"
  BY DEF Init
<1>4. QED
  BY <1>1, <1>2, <1>3 DEF Init, TypeOK

LEMMA DoneType ==
  ASSUME TypeOK, NEW p \in Procs, Done(p)
  PROVE  /\ pc' \in [Procs -> PCs] /\ job' \in [Procs -> Job]
         /\ \A q \in Procs : pc'[q] = "numbered" => job'[q].ev \in Event
BY NoJobType DEF TypeOK, Done, Goto, PCs


\* A process that only moves on keeps the types of pc and job.
LEMMA GotoType ==
  ASSUME TypeOK, NEW p \in Procs, NEW st \in PCs, Goto(p, st),
         job' = job, st = "numbered" => pc[p] = "numbered"
  PROVE  /\ pc' \in [Procs -> PCs] /\ job' \in [Procs -> Job]
         /\ \A q \in Procs : pc'[q] = "numbered" => job'[q].ev \in Event
BY DEF TypeOK, Goto

\* So does one that also assigns its local variables.
LEMMA AssignType ==
  ASSUME TypeOK, NEW p \in Procs, NEW st \in PCs, Goto(p, st),
         NEW j \in Job, job' = [job EXCEPT ![p] = j],
         st = "numbered" => j.ev \in Event
  PROVE  /\ pc' \in [Procs -> PCs] /\ job' \in [Procs -> Job]
         /\ \A q \in Procs : pc'[q] = "numbered" => job'[q].ev \in Event
BY DEF TypeOK, Goto

LEMMA StartType ==
  ASSUME TypeOK, NEW p \in Procs, Start(p)
  PROVE  TypeOK'
<1> USE DEF PCs
<1>1. CASE \E kind \in OpKinds : StartWrite(p, kind)
  <2>1. PICK kind \in OpKinds : StartWrite(p, kind)
    BY <1>1
  <2> DEFINE j == [NoJob EXCEPT !.op = kind, !.ev.id = born + 1]
  <2>2. j \in Job
    <3>1. born + 1 \in Nat
      BY DEF TypeOK
    <3>2. QED
      BY <3>1, NoJobType DEF Job, Draft
  <2>3. Goto(p, "waiting") /\ job' = [job EXCEPT ![p] = j]
    BY <2>1 DEF StartWrite
  <2> HIDE DEF j
  <2>4. /\ pc' \in [Procs -> PCs] /\ job' \in [Procs -> Job]
        /\ \A q \in Procs : pc'[q] = "numbered" => job'[q].ev \in Event
    BY <2>2, <2>3, AssignType
  <2>5. QED
    BY <2>1, <2>4 DEF TypeOK, StartWrite, file
<1>2. CASE \E t \in Stamps : StartCompact(p, t + 1)
  <2>1. PICK t \in Stamps : StartCompact(p, t + 1)
    BY <1>2
  <2> DEFINE j == [NoJob EXCEPT !.op = "compact", !.cut = t + 1]
  <2>2. j \in Job
    <3>1. t + 1 \in Nat /\ "compact" \in OpKinds
      BY WritersAssumption DEF OpKinds
    <3>2. QED
      BY <3>1, NoJobType DEF Job
  <2>3. Goto(p, "waiting") /\ job' = [job EXCEPT ![p] = j]
    BY <2>1 DEF StartCompact
  <2> HIDE DEF j
  <2>4. /\ pc' \in [Procs -> PCs] /\ job' \in [Procs -> Job]
        /\ \A q \in Procs : pc'[q] = "numbered" => job'[q].ev \in Event
    BY <2>2, <2>3, AssignType
  <2>5. QED
    BY <2>1, <2>4 DEF TypeOK, StartCompact, file, bounds
<1>3. CASE StartRedact(p)
  <2> DEFINE j == [NoJob EXCEPT !.op = "redact"]
  <2>2. j \in Job
    BY NoJobType DEF Job, OpKinds
  <2>3. Goto(p, "waiting") /\ job' = [job EXCEPT ![p] = j]
    BY <1>3 DEF StartRedact
  <2> HIDE DEF j
  <2>4. /\ pc' \in [Procs -> PCs] /\ job' \in [Procs -> Job]
        /\ \A q \in Procs : pc'[q] = "numbered" => job'[q].ev \in Event
    BY <2>2, <2>3, AssignType
  <2>5. QED
    BY <1>3, <2>4 DEF TypeOK, StartRedact, file, bounds
<1>4. CASE AcquireFails(p)
  BY <1>4, DoneType DEF Fault, TypeOK, AcquireFails, file, bounds
<1>5. QED
  BY <1>1, <1>2, <1>3, <1>4 DEF Start

LEMMA NextSeqType ==
  ASSUME TypeOK, NEW p \in Procs, NextSeq(p)
  PROVE  TypeOK'
<1>1. PICK t \in Stamps, k \in Marks :
        job' = [job EXCEPT ![p].ev.seq = seqFile + 1, ![p].ev.ts = t,
                           ![p].ev.mark = k]
  BY DEF NextSeq
<1> DEFINE ev == [job[p].ev EXCEPT !.seq = seqFile + 1, !.ts = t, !.mark = k]
           j == [job[p] EXCEPT !.ev = ev]
<1>2. job[p] \in Job /\ job[p].ev \in Draft /\ seqFile + 1 \in Nat
  BY DEF TypeOK, Job
<1>3. ev \in Event /\ ev \in Draft
  BY <1>2, WritersAssumption DEF Draft, Event
<1>4. job' = [job EXCEPT ![p] = j]
  BY <1>1, <1>2 DEF TypeOK, Job, Draft
<1>5. j \in Job /\ j.ev = ev
  BY <1>2, <1>3 DEF Job
<1> HIDE DEF ev, j
<1>6. /\ pc' \in [Procs -> PCs] /\ job' \in [Procs -> Job]
      /\ \A q \in Procs : pc'[q] = "numbered" => job'[q].ev \in Event
  BY <1>3, <1>4, <1>5, AssignType DEF NextSeq, PCs
<1>7. QED
  BY <1>2, <1>6 DEF TypeOK, NextSeq, file, bounds

LEMMA WriteType ==
  ASSUME TypeOK, NEW p \in Procs, WriteStep(p)
  PROVE  TypeOK'
<1> USE DEF Unlocked
<1>1. CASE NextSeq(p)
  BY <1>1, NextSeqType
<1>2. CASE NextSeqFails(p)
  BY <1>2, DoneType DEF Fault, TypeOK, NextSeqFails, file, bounds
<1>3. CASE AppendLine(p)
  <2>1. PartialLine(p)
    BY <1>3 DEF AppendLine, PartialLine
  <2>2. /\ pc' \in [Procs -> PCs] /\ job' \in [Procs -> Job]
        /\ \A q \in Procs : pc'[q] = "numbered" => job'[q].ev \in Event
    BY <1>3, GotoType DEF AppendLine, PCs
  <2>3. QED
    BY <1>3, <2>1, <2>2, PartialLineType DEF TypeOK, AppendLine, bounds
<1>4. CASE AppendGlued(p)
  <2>1. /\ pc' \in [Procs -> PCs] /\ job' \in [Procs -> Job]
        /\ \A q \in Procs : pc'[q] = "numbered" => job'[q].ev \in Event
    BY <1>4, GotoType DEF AppendGlued, PCs
  <2>2. born' \in Nat /\ faults' \in Nat
    BY <1>4 DEF Fault, TypeOK, AppendGlued
  <2>3. QED
    BY <1>4, <2>1, <2>2 DEF TypeOK, AppendGlued
<1>5. CASE AppendFails(p)
  <2>1. /\ pc' \in [Procs -> PCs] /\ job' \in [Procs -> Job]
        /\ \A q \in Procs : pc'[q] = "numbered" => job'[q].ev \in Event
    BY <1>5, DoneType DEF AppendFails
  <2>2. /\ shard' \subseteq Event /\ tail' \subseteq Event
        /\ torn' \in BOOLEAN /\ end' \in Nat
    BY <1>5, PartialLineType DEF AppendFails, TypeOK, file
  <2>3. QED
    BY <1>5, <2>1, <2>2 DEF Fault, TypeOK, AppendFails, bounds
<1>6. CASE PushRelease(p)
  <2>1. /\ pc' \in [Procs -> PCs] /\ job' \in [Procs -> Job]
        /\ \A q \in Procs : pc'[q] = "numbered" => job'[q].ev \in Event
    BY <1>6, GotoType DEF PushRelease, PCs
  <2>2. QED
    BY <1>6, <2>1 DEF TypeOK, PushRelease, file, bounds
<1>7. CASE Audit(p)
  <2>1. /\ pc' \in [Procs -> PCs] /\ job' \in [Procs -> Job]
        /\ \A q \in Procs : pc'[q] = "numbered" => job'[q].ev \in Event
    BY <1>7, GotoType DEF Audit, PCs
  <2>2. audit' \subseteq Nat
    <3>1. AuditRow(p) \subseteq Nat
      BY DEF AuditRow, TypeOK, Job, Draft
    <3>2. QED
      BY <1>7, <3>1 DEF Audit, TypeOK
  <2>3. QED
    BY <1>7, <2>1, <2>2 DEF Fault, TypeOK, Audit, file, bounds
<1>8. CASE Reply(p)
  <2>1. /\ pc' \in [Procs -> PCs] /\ job' \in [Procs -> Job]
        /\ \A q \in Procs : pc'[q] = "numbered" => job'[q].ev \in Event
    BY <1>8, DoneType DEF Reply
  <2>2. job[p].ev.id \in Nat
    BY DEF TypeOK, Job, Draft
  <2>3. QED
    BY <1>8, <2>1, <2>2 DEF TypeOK, Reply, file, bounds
<1>9. QED
  BY <1>1, <1>2, <1>3, <1>4, <1>5, <1>6, <1>7, <1>8 DEF WriteStep

(* The size compact recorded for a month is a size its archive really had,  *)
(* so the rollback cuts the file and never reads past its end.              *)
BaseInv ==
  \A p \in Procs, m \in Months :
    job[p].base[m] <= (IF pc[p] = "archiving" THEN Len(archive[m]) ELSE 0)

LEMMA RolledBackType ==
  ASSUME TypeOK, BaseInv, NEW p \in Procs, pc[p] = "archiving"
  PROVE  /\ RolledBack(p) \in [Months -> Seq(Member)]
         /\ \A m \in Months : Len(RolledBack(p)[m]) <= Len(archive[m])
<1>1. ASSUME NEW m \in Months
      PROVE  /\ SubSeq(archive[m], 1, job[p].base[m]) \in Seq(Member)
             /\ Len(SubSeq(archive[m], 1, job[p].base[m])) <= Len(archive[m])
  <2>1. archive[m] \in Seq(Member) /\ job[p].base[m] \in Nat
    BY DEF TypeOK, Job
  <2>2. job[p].base[m] <= Len(archive[m])
    BY DEF BaseInv
  <2>3. QED
    BY <2>1, <2>2, SubSeqProperties
<1>2. QED
  BY <1>1 DEF TypeOK, RolledBack

LEMMA CurrentFileType ==
  ASSUME TypeOK
  PROVE  CurrentFile \in File
BY DEF TypeOK, CurrentFile, File

\* What archiving a month does: the size recorded is the archive's, or 0.
LEMMA MonthSteps ==
  ASSUME TypeOK, NEW p \in Procs, ArchiveMonth(p)
  PROVE  /\ pc[p] = "archiving" /\ pc' = pc /\ born' = born
         /\ UNCHANGED faults \/ Fault("stat")
         /\ \E m \in Months, size \in Nat :
              /\ NextMonth(p, m)
              /\ archive' = [archive EXCEPT ![m] = Append(@, WholeMember(OldOf(p, m)))]
              /\ job' = [job EXCEPT ![p].todo = @ \ {m}, ![p].base[m] = size]
              /\ size <= Len(archive[m])
              /\ "stat" \notin Faults => size = Len(archive[m])
<1>1. PICK m \in Months :
        /\ NextMonth(p, m)
        /\ archive' = [archive EXCEPT ![m] = Append(@, WholeMember(OldOf(p, m)))]
        /\ \E size \in {0, Len(archive[m])} :
             /\ Statted(m, size)
             /\ job' = [job EXCEPT ![p].todo = @ \ {m}, ![p].base[m] = size]
  BY DEF ArchiveMonth
<1>2. PICK size \in {0, Len(archive[m])} :
        /\ Statted(m, size)
        /\ job' = [job EXCEPT ![p].todo = @ \ {m}, ![p].base[m] = size]
  BY <1>1
<1>3. archive[m] \in Seq(Member) /\ Len(archive[m]) \in Nat
  BY DEF TypeOK
<1>4. size \in Nat /\ size <= Len(archive[m])
  BY <1>3
<1>5. /\ UNCHANGED faults \/ Fault("stat")
      /\ "stat" \notin Faults => size = Len(archive[m])
  BY <1>2 DEF Statted, Fault
<1>6. pc[p] = "archiving" /\ pc' = pc /\ born' = born
  BY DEF ArchiveMonth
<1>7. QED
  BY <1>1, <1>2, <1>4, <1>5, <1>6

LEMMA ArchiveMonthType ==
  ASSUME TypeOK, NEW p \in Procs, ArchiveMonth(p)
  PROVE  TypeOK'
<1>1. PICK m \in Months, size \in Nat :
        /\ NextMonth(p, m)
        /\ archive' = [archive EXCEPT ![m] = Append(@, WholeMember(OldOf(p, m)))]
        /\ job' = [job EXCEPT ![p].todo = @ \ {m}, ![p].base[m] = size]
        /\ size <= Len(archive[m])
        /\ "stat" \notin Faults => size = Len(archive[m])
  BY MonthSteps
<1>2. WholeMember(OldOf(p, m)) \in Member
  <2>1. job[p].snap \in File
    BY DEF TypeOK, Job
  <2>2. QED
    BY <2>1 DEF WholeMember, OldOf, Old, Member, File
<1>3. archive[m] \in Seq(Member)
  BY DEF TypeOK
<1>4. archive' \in [Months -> Seq(Member)]
  BY <1>1, <1>2, <1>3 DEF TypeOK
<1> DEFINE j == [job[p] EXCEPT !.todo = @ \ {m}, !.base[m] = size]
<1>5. job[p] \in Job
  BY DEF TypeOK
<1>6. j \in Job
  BY <1>5 DEF Job
<1>7. job' = [job EXCEPT ![p] = j]
  BY <1>1, <1>5 DEF TypeOK, Job
<1> HIDE DEF j
<1>8. job' \in [Procs -> Job] /\ pc' = pc /\ pc[p] = "archiving"
  BY <1>6, <1>7 DEF TypeOK, ArchiveMonth
<1>9. \A q \in Procs : pc'[q] = "numbered" => job'[q].ev \in Event
  BY <1>7, <1>8 DEF TypeOK
<1>10. born' \in Nat /\ faults' \in Nat
  BY MonthSteps DEF TypeOK, Fault
<1>11. QED
  BY <1>4, <1>8, <1>9, <1>10 DEF TypeOK, ArchiveMonth, file

(* What a failed compaction leaves of a month's archive: what it was, what  *)
(* the rollback makes of it, nothing if it was taken for an absent one, or  *)
(* one more member.                                                         *)
LEMMA FailedMonth ==
  ASSUME NEW p \in Procs, ArchiveFails(p) \/ CompactRewriteFails(p), NEW n \in Months
  PROVE  \/ archive'[n] \in {archive[n], RolledBack(p)[n]}
         \/ "stat" \in Faults /\ archive'[n] = <<>>
         \/ \E mem \in {TornMember, WholeMember(OldOf(p, n))} :
              archive'[n] = Append(archive[n], mem)
<1>1. CASE archive' = RolledBack(p)
  BY <1>1
<1>2. CASE Fault("stat") /\ \E m \in Months : archive' = [RolledBack(p) EXCEPT ![m] = <<>>]
  BY <1>2 DEF RolledBack, Fault
<1>3. CASE \E m \in Months : \E kept \in SUBSET Touched(p), rest \in Remains(p, m) :
             archive' = [Undone(p, kept) EXCEPT ![m] = rest]
  <2>1. PICK m \in Months, kept \in SUBSET Touched(p) : \E rest \in Remains(p, m) :
          archive' = [Undone(p, kept) EXCEPT ![m] = rest]
    BY <1>3
  <2>2. PICK rest \in Remains(p, m) : archive' = [Undone(p, kept) EXCEPT ![m] = rest]
    BY <2>1
  <2>3. n # m => archive'[n] \in {archive[n], RolledBack(p)[n]}
    BY <2>2 DEF Undone
  <2>4. n = m => archive'[n] = rest
    BY <2>2 DEF Undone
  <2>5. QED
    BY <2>3, <2>4 DEF Remains
<1>4. CASE \E kept \in SUBSET Touched(p) : archive' = Undone(p, kept)
  BY <1>4 DEF Undone
<1>5. QED
  BY <1>1, <1>2, <1>3, <1>4 DEF ArchiveFails, CompactRewriteFails

LEMMA FailedDomain ==
  ASSUME NEW p \in Procs, ArchiveFails(p) \/ CompactRewriteFails(p)
  PROVE  /\ pc[p] = "archiving" /\ archive' = [n \in Months |-> archive'[n]]
         /\ shard' = shard /\ tail' = tail /\ torn' = torn /\ end' = end
         /\ lock' = Unlocked /\ Done(p) /\ born' = born /\ \E kind : Fault(kind)
         /\ seqFile' = seqFile /\ audit' = audit /\ acked' = acked
<1>1. archive' = [n \in Months |-> archive'[n]]
  BY DEF ArchiveFails, CompactRewriteFails, RolledBack, Undone
<1>2. QED
  BY <1>1 DEF ArchiveFails, CompactRewriteFails, file

LEMMA FailedType ==
  ASSUME TypeOK, BaseInv, NEW p \in Procs, ArchiveFails(p) \/ CompactRewriteFails(p)
  PROVE  TypeOK'
<1>1. pc[p] = "archiving"
  BY FailedDomain
<1>2. ASSUME NEW n \in Months PROVE archive'[n] \in Seq(Member)
  <2>1. archive[n] \in Seq(Member) /\ RolledBack(p)[n] \in Seq(Member)
    BY <1>1, RolledBackType DEF TypeOK
  <2>2. TornMember \in Member /\ WholeMember(OldOf(p, n)) \in Member
    BY DEF TornMember, WholeMember, OldOf, Old, Member, File, TypeOK, Job
  <2>3. ASSUME NEW mem \in Member PROVE Append(archive[n], mem) \in Seq(Member)
    BY <2>1
  <2>4. <<>> \in Seq(Member)
    OBVIOUS
  <2>5. ASSUME NEW mem \in {TornMember, WholeMember(OldOf(p, n))},
               archive'[n] = Append(archive[n], mem)
        PROVE  archive'[n] \in Seq(Member)
    <3>1. mem \in Member
      BY <2>2
    <3>2. QED
      BY <2>3, <2>5, <3>1
  <2>6. QED
    BY <2>1, <2>4, <2>5, FailedMonth
<1>3. archive' \in [Months -> Seq(Member)]
  BY <1>2, FailedDomain
<1>4. faults' \in Nat
  BY FailedDomain DEF Fault, TypeOK
<1>5. QED
  BY <1>3, <1>4, FailedDomain, DoneType DEF TypeOK, Unlocked

LEMMA CompactType ==
  ASSUME TypeOK, BaseInv, NEW p \in Procs, CompactStep(p)
  PROVE  TypeOK'
<1> USE DEF Unlocked
<1>1. CASE CompactNothing(p) \/ ReadFails(p)
  <2>1. CASE CompactNothing(p)
    BY <2>1, DoneType DEF TypeOK, CompactNothing, file, bounds
  <2>2. CASE ReadFails(p)
    BY <2>2, DoneType DEF Fault, TypeOK, ReadFails, file
  <2>3. QED
    BY <1>1, <2>1, <2>2
<1>2. CASE CompactRead(p)
  <2> DEFINE old == Old(CurrentFile, job[p].cut)
             j == [job[p] EXCEPT !.snap = CurrentFile, !.todo = MonthsOf(old)]
  <2>1. job' = [job EXCEPT ![p] = j]
    BY <1>2 DEF CompactRead, TypeOK
  <2>2. j \in Job
    <3>1. MonthsOf(old) \subseteq Months
      BY DEF MonthsOf, Old, CurrentFile, TypeOK, Event, Months
    <3>2. job[p] \in Job
      BY DEF TypeOK
    <3> HIDE DEF old
    <3>3. QED
      BY <3>1, <3>2, CurrentFileType DEF Job
  <2> HIDE DEF j
  <2>3. /\ pc' \in [Procs -> PCs] /\ job' \in [Procs -> Job]
        /\ \A q \in Procs : pc'[q] = "numbered" => job'[q].ev \in Event
    BY <1>2, <2>1, <2>2, AssignType DEF CompactRead, PCs
  <2>4. QED
    BY <1>2, <2>3 DEF TypeOK, CompactRead, file, bounds
<1>3. CASE ArchiveMonth(p)
  BY <1>3, ArchiveMonthType
<1>4. CASE ArchiveFails(p)
  BY <1>4, FailedType
<1>5. CASE CompactRewrite(p)
  <2>1. /\ pc' \in [Procs -> PCs] /\ job' \in [Procs -> Job]
        /\ \A q \in Procs : pc'[q] = "numbered" => job'[q].ev \in Event
    BY <1>5, DoneType DEF CompactRewrite
  <2>2. job[p].snap \in File
    BY DEF TypeOK, Job
  <2>3. /\ shard' \subseteq Event /\ tail' \subseteq Event /\ torn' \in BOOLEAN
    BY <1>5, <2>2 DEF CompactRewrite, File
  <2>4. QED
    BY <1>5, <2>1, <2>3 DEF TypeOK, CompactRewrite, bounds
<1>6. CASE CompactRewriteFails(p)
  BY <1>6, FailedType
<1>7. QED
  BY <1>1, <1>2, <1>3, <1>4, <1>5, <1>6 DEF CompactStep

LEMMA ScrubbedType ==
  ASSUME NEW lines, lines \subseteq Event
  PROVE  Scrubbed(lines) \subseteq Event
<1>1. ASSUME NEW e \in Event PROVE Scrub(e) \in Event
  BY DEF Scrub, Event, Marks
<1>2. QED
  BY <1>1 DEF Scrubbed

LEMMA RedactType ==
  ASSUME TypeOK, NEW p \in Procs, RedactStep(p)
  PROVE  TypeOK'
<1> USE DEF Unlocked
<1>1. CASE RedactNothing(p)
  BY <1>1, DoneType DEF TypeOK, RedactNothing, file, bounds
<1>2. CASE RedactRead(p)
  <2> DEFINE j == [job[p] EXCEPT !.snap = CurrentFile]
  <2>1. job' = [job EXCEPT ![p] = j]
    BY <1>2 DEF RedactRead, TypeOK
  <2>2. j \in Job
    BY CurrentFileType DEF Job, TypeOK
  <2> HIDE DEF j
  <2>3. /\ pc' \in [Procs -> PCs] /\ job' \in [Procs -> Job]
        /\ \A q \in Procs : pc'[q] = "numbered" => job'[q].ev \in Event
    BY <1>2, <2>1, <2>2, AssignType DEF RedactRead, PCs
  <2>4. QED
    BY <1>2, <2>3 DEF TypeOK, RedactRead, file, bounds
<1>3. CASE RedactRewrite(p)
  <2>1. /\ pc' \in [Procs -> PCs] /\ job' \in [Procs -> Job]
        /\ \A q \in Procs : pc'[q] = "numbered" => job'[q].ev \in Event
    BY <1>3, DoneType DEF RedactRewrite
  <2>2. job[p].snap \in File
    BY DEF TypeOK, Job
  <2>3. /\ shard' \subseteq Event /\ tail' \subseteq Event /\ torn' \in BOOLEAN
    BY <1>3, <2>2, ScrubbedType DEF RedactRewrite, File
  <2>4. QED
    BY <1>3, <2>1, <2>3 DEF TypeOK, RedactRewrite, bounds
<1>4. CASE RedactRewriteFails(p)
  BY <1>4, DoneType DEF Fault, TypeOK, RedactRewriteFails, file, bounds
<1>5. QED
  BY <1>1, <1>2, <1>3, <1>4 DEF RedactStep

LEMMA CrashType ==
  ASSUME TypeOK, NEW p \in Procs, Crash(p)
  PROVE  TypeOK'
<1>1. /\ pc' \in [Procs -> PCs] /\ job' \in [Procs -> Job]
      /\ \A q \in Procs : pc'[q] = "numbered" => job'[q].ev \in Event
  BY DoneType DEF Crash
<1>2. /\ lock' \in Procs \cup {NoProc} /\ seqFile' \in Nat
      /\ audit' \subseteq Nat /\ acked' \subseteq Nat
      /\ born' \in Nat /\ faults' \in Nat
  BY DEF Fault, TypeOK, Crash, Unlocked
<1>3. /\ shard' \subseteq Event /\ tail' \subseteq Event
      /\ torn' \in BOOLEAN /\ end' \in Nat
  BY PartialLineType DEF TypeOK, Crash, file
<1>4. archive' \in [Months -> Seq(Member)]
  <2>1. TornMember \in Member
    BY DEF TornMember, Member
  <2>2. ASSUME NEW m \in Months
        PROVE  [archive EXCEPT ![m] = Append(@, TornMember)]
                 \in [Months -> Seq(Member)]
    BY <2>1 DEF TypeOK
  <2>3. QED
    BY <2>2 DEF TypeOK, Crash
<1>5. QED
  BY <1>1, <1>2, <1>3, <1>4 DEF TypeOK

-------------------------------------------------------------------------------
(* Exclusion. *)

\* Whoever holds the lock by its own account is the holder.
LockInv == \A p \in Procs : Holding(p) => lock = p

StepOf(p) == Start(p) \/ Acquire(p) \/ LockedStep(p) \/ Crash(p)

\* A step of p leaves the other processes where they are.
LEMMA OthersStill ==
  ASSUME TypeOK, NEW p \in Procs, StepOf(p), NEW q \in Procs, q # p
  PROVE  pc'[q] = pc[q] /\ job'[q] = job[q]
<1> USE DEF TypeOK, Done, Goto
<1>1. CASE Start(p)
  BY <1>1 DEF Start, StartWrite, StartCompact, StartRedact, AcquireFails
<1>2. CASE Acquire(p)
  BY <1>2 DEF Acquire
<1>3. CASE WriteStep(p)
  BY <1>3 DEF WriteStep, NextSeq, NextSeqFails, AppendLine, AppendGlued,
              AppendFails, PushRelease, Audit, Reply
<1>4. CASE CompactStep(p)
  BY <1>4 DEF CompactStep, CompactNothing, ReadFails, CompactRead, ArchiveMonth,
              ArchiveFails, CompactRewrite, CompactRewriteFails
<1>5. CASE RedactStep(p)
  BY <1>5 DEF RedactStep, RedactNothing, RedactRead, RedactRewrite,
              RedactRewriteFails
<1>6. CASE Crash(p)
  BY <1>6 DEF Crash
<1>7. QED
  BY <1>1, <1>2, <1>3, <1>4, <1>5, <1>6 DEF StepOf, LockedStep

\* Where a process that has just finished is.
LEMMA DoneIsIdle ==
  ASSUME TypeOK, NEW p \in Procs, Done(p)
  PROVE  pc'[p] = "idle" /\ ~Holding(p)'
BY DEF TypeOK, Done, Goto, Holding, At

\* Only the holder frees the lock, and a process that still holds it after a
\* step of its own held it before.
LEMMA HolderStep ==
  ASSUME TypeOK, NEW p \in Procs, LockedStep(p)
  PROVE  /\ lock' = lock \/ (Holding(p) /\ lock' = NoProc)
         /\ Holding(p)' => Holding(p) /\ lock' = lock
<1> USE DEF Unlocked
<1>1. CASE WriteStep(p)
  <2> USE DEF Holding, At
  <2>1. CASE NextSeq(p)
    BY <2>1 DEF NextSeq
  <2>2. CASE NextSeqFails(p)
    BY <2>2, DoneIsIdle DEF NextSeqFails
  <2>3. CASE AppendLine(p)
    BY <2>3 DEF AppendLine
  <2>4. CASE AppendGlued(p)
    BY <2>4 DEF AppendGlued
  <2>5. CASE AppendFails(p)
    BY <2>5, DoneIsIdle DEF AppendFails
  <2>6. CASE PushRelease(p)
    BY <2>6 DEF PushRelease, Goto, TypeOK
  <2>7. CASE Audit(p)
    BY <2>7 DEF Audit, Goto, TypeOK
  <2>8. CASE Reply(p)
    BY <2>8, DoneIsIdle DEF Reply
  <2>9. QED
    BY <1>1, <2>1, <2>2, <2>3, <2>4, <2>5, <2>6, <2>7, <2>8 DEF WriteStep
<1>2. CASE CompactStep(p)
  <2>1. pc[p] \in {"locked", "archiving"} /\ Holding(p)
    BY <1>2 DEF CompactStep, CompactNothing, ReadFails, CompactRead, ArchiveMonth,
       ArchiveFails, CompactRewrite, CompactRewriteFails, Holding, At
  <2>2. CASE CompactRead(p) \/ ArchiveMonth(p)
    BY <2>1, <2>2 DEF CompactRead, ArchiveMonth
  <2>3. CASE lock' = NoProc /\ Done(p)
    BY <2>1, <2>3, DoneIsIdle
  <2>4. QED
    BY <1>2, <2>2, <2>3 DEF CompactStep, CompactNothing, ReadFails, ArchiveFails,
       CompactRewrite, CompactRewriteFails
<1>3. CASE RedactStep(p)
  <2>1. pc[p] \in {"locked", "rewriting"} /\ Holding(p)
    BY <1>3 DEF RedactStep, RedactNothing, RedactRead, RedactRewrite,
       RedactRewriteFails, Holding, At
  <2>2. CASE RedactRead(p)
    BY <2>1, <2>2 DEF RedactRead
  <2>3. CASE lock' = NoProc /\ Done(p)
    BY <2>1, <2>3, DoneIsIdle
  <2>4. QED
    BY <1>3, <2>2, <2>3 DEF RedactStep, RedactNothing, RedactRewrite,
       RedactRewriteFails
<1>4. QED
  BY <1>1, <1>2, <1>3 DEF LockedStep

LEMMA LockInductive ==
  ASSUME TypeOK, LockInv, NEW p \in Procs, StepOf(p)
  PROVE  LockInv'
<1>1. ASSUME NEW q \in Procs, q # p, Holding(q)'
      PROVE  lock' = q
  <2>1. Holding(q) /\ lock = q
    BY <1>1, OthersStill DEF Holding, At, LockInv
  <2>2. CASE Start(p)
    BY <2>1, <2>2 DEF Start, StartWrite, StartCompact, StartRedact, AcquireFails
  <2>3. CASE Acquire(p)
    BY <2>1, <2>3, WritersAssumption DEF Acquire, LockIsFree
  <2>4. CASE LockedStep(p)
    BY <1>1, <2>1, <2>4, HolderStep DEF LockInv
  <2>5. CASE Crash(p)
    BY <1>1, <2>1, <2>5 DEF Crash
  <2>6. QED
    BY <2>2, <2>3, <2>4, <2>5 DEF StepOf
<1>2. ASSUME Holding(p)'
      PROVE  lock' = p
  <2>1. CASE Start(p)
    BY <1>2, <2>1, DoneIsIdle DEF Start, StartWrite, StartCompact, StartRedact, AcquireFails, Goto,
       TypeOK, Holding, At
  <2>2. CASE Acquire(p)
    BY <2>2 DEF Acquire
  <2>3. CASE LockedStep(p)
    BY <1>2, <2>3, HolderStep DEF LockInv
  <2>4. CASE Crash(p)
    BY <1>2, <2>4, DoneIsIdle DEF Crash
  <2>5. QED
    BY <2>1, <2>2, <2>3, <2>4 DEF StepOf
<1>3. QED
  BY <1>1, <1>2 DEF LockInv

-------------------------------------------------------------------------------
(* The recorded archive sizes. *)

LEMMA NoJobBase == \A m \in Months : NoJob.base[m] = 0
BY DEF NoJob

\* The archives change only under the hands of a compaction that holds the lock.
LEMMA ArchiveSteps ==
  ASSUME TypeOK, NEW p \in Procs, StepOf(p), pc[p] # "archiving"
  PROVE  archive' = archive
<1>1. CASE Start(p)
  BY <1>1 DEF Start, StartWrite, StartCompact, StartRedact, AcquireFails
<1>2. CASE Acquire(p)
  BY <1>2 DEF Acquire
<1>3. CASE WriteStep(p)
  BY <1>3 DEF WriteStep, NextSeq, NextSeqFails, AppendLine, AppendGlued,
              AppendFails, PushRelease, Audit, Reply
<1>4. CASE CompactStep(p)
  BY <1>4 DEF CompactStep, CompactNothing, ReadFails, CompactRead, ArchiveMonth,
              ArchiveFails, CompactRewrite, CompactRewriteFails
<1>5. CASE RedactStep(p)
  BY <1>5 DEF RedactStep, RedactNothing, RedactRead, RedactRewrite,
              RedactRewriteFails
<1>6. CASE Crash(p)
  BY <1>6 DEF Crash
<1>7. QED
  BY <1>1, <1>2, <1>3, <1>4, <1>5, <1>6 DEF StepOf, LockedStep

LEMMA BaseInductive ==
  ASSUME TypeOK, LockInv, BaseInv, NEW p \in Procs, StepOf(p)
  PROVE  BaseInv'
<1>1. ASSUME NEW q \in Procs, q # p, NEW m \in Months
      PROVE  job'[q].base[m] <= (IF pc'[q] = "archiving" THEN Len(archive'[m]) ELSE 0)
  <2>1. pc'[q] = pc[q] /\ job'[q] = job[q]
    BY <1>1, OthersStill
  <2>2. CASE pc[q] = "archiving"
    <3>1. pc[p] # "archiving"
      BY <1>1, <2>2 DEF LockInv, Holding
    <3>2. QED
      BY <2>1, <2>2, <3>1, ArchiveSteps DEF BaseInv
  <2>3. CASE pc[q] # "archiving"
    BY <2>1, <2>3 DEF BaseInv
  <2>4. QED
    BY <2>2, <2>3
<1>2. ASSUME NEW m \in Months
      PROVE  job'[p].base[m] <= (IF pc'[p] = "archiving" THEN Len(archive'[m]) ELSE 0)
  <2>1. job[p].base[m] \in Nat /\ Len(archive[m]) \in Nat
    BY DEF TypeOK, Job
  <2>2. job[p].base[m] <= (IF pc[p] = "archiving" THEN Len(archive[m]) ELSE 0)
    BY DEF BaseInv
  <2>3. CASE Done(p)
    BY <2>3, DoneIsIdle, NoJobBase DEF TypeOK, Done
  <2>4. CASE pc[p] # "archiving" /\ pc'[p] # "archiving" /\ job'[p].base = job[p].base
    BY <2>2, <2>4
  <2>5. CASE Start(p) /\ ~Done(p)
    <3>1. pc'[p] = "waiting"
      BY <2>5 DEF Start, StartWrite, StartCompact, StartRedact, AcquireFails, Goto, TypeOK
    <3>2. job'[p].base = NoJob.base
      BY <2>5 DEF Start, StartWrite, StartCompact, StartRedact, AcquireFails, NoJob, TypeOK
    <3>3. QED
      BY <3>1, <3>2, NoJobBase
  <2>6. CASE Acquire(p)
    BY <2>4, <2>6 DEF Acquire, Goto, TypeOK
  <2>7. CASE WriteStep(p)
    <3>1. CASE NextSeq(p)
      <4>1. job'[p].base = job[p].base
        BY <3>1 DEF NextSeq, TypeOK, Job
      <4>2. QED
        BY <2>4, <3>1, <4>1 DEF NextSeq, Goto, TypeOK
    <3>2. CASE NextSeqFails(p) \/ AppendFails(p) \/ Reply(p)
      BY <2>3, <3>2 DEF NextSeqFails, AppendFails, Reply
    <3>3. CASE AppendLine(p) \/ AppendGlued(p) \/ PushRelease(p) \/ Audit(p)
      BY <2>4, <3>3 DEF AppendLine, AppendGlued, PushRelease, Audit, At, Goto, TypeOK
    <3>4. QED
      BY <2>7, <3>1, <3>2, <3>3 DEF WriteStep
  <2>8. CASE CompactStep(p)
    <3>1. CASE CompactRead(p)
      <4>1. job'[p].base = job[p].base /\ archive' = archive /\ pc[p] = "locked"
        BY <3>1 DEF CompactRead, At, TypeOK, Job
      <4>2. QED
        BY <2>1, <2>2, <4>1
    <3>2. CASE ArchiveMonth(p)
      <4>1. PICK n \in Months, size \in Nat :
              /\ archive' = [archive EXCEPT ![n] = Append(@, WholeMember(OldOf(p, n)))]
              /\ job' = [job EXCEPT ![p].todo = @ \ {n}, ![p].base[n] = size]
              /\ size <= Len(archive[n])
        BY <3>2, MonthSteps
      <4>2. job'[p].base = [job[p].base EXCEPT ![n] = size]
        BY <4>1 DEF TypeOK, Job
      <4>3. job'[p].base[m] = IF m = n THEN size ELSE job[p].base[m]
        BY <4>2 DEF TypeOK, Job
      <4>4. Len(archive[m]) <= Len(archive'[m])
        <5>1. archive \in [Months -> Seq(Member)] /\ archive[m] \in Seq(Member)
          BY DEF TypeOK
        <5>2. CASE m = n
          <6>1. archive'[m] = Append(archive[m], WholeMember(OldOf(p, n)))
            BY <4>1, <5>1, <5>2
          <6>2. WholeMember(OldOf(p, n)) \in Member
            BY DEF WholeMember, OldOf, Old, Member, File, TypeOK, Job
          <6>3. QED
            BY <5>1, <6>1, <6>2
        <5>3. CASE m # n
          BY <4>1, <5>1, <5>3
        <5>4. QED
          BY <5>2, <5>3
      <4>5. pc[p] = "archiving" /\ pc'[p] = "archiving"
        BY <3>2 DEF ArchiveMonth
      <4>6. Len(archive'[m]) \in Nat
        BY ArchiveMonthType, <3>2 DEF TypeOK
      <4>7. QED
        BY <2>1, <2>2, <4>1, <4>3, <4>4, <4>5, <4>6
    <3>3. CASE CompactNothing(p) \/ ReadFails(p) \/ ArchiveFails(p) \/ CompactRewrite(p)
                 \/ CompactRewriteFails(p)
      BY <2>3, <3>3 DEF CompactNothing, ReadFails, ArchiveFails, CompactRewrite,
                        CompactRewriteFails
    <3>4. QED
      BY <2>8, <3>1, <3>2, <3>3 DEF CompactStep
  <2>9. CASE RedactStep(p)
    <3>1. CASE RedactRead(p)
      <4>1. job'[p].base = job[p].base
        BY <3>1 DEF RedactRead, TypeOK, Job
      <4>2. QED
        BY <2>4, <3>1, <4>1 DEF RedactRead, At, Goto, TypeOK
    <3>2. CASE RedactNothing(p) \/ RedactRewrite(p) \/ RedactRewriteFails(p)
      BY <2>3, <3>2 DEF RedactNothing, RedactRewrite, RedactRewriteFails
    <3>3. QED
      BY <2>9, <3>1, <3>2 DEF RedactStep
  <2>10. CASE Crash(p)
    BY <2>3, <2>10 DEF Crash
  <2>11. QED
    BY <2>3, <2>5, <2>6, <2>7, <2>8, <2>9, <2>10 DEF StepOf, LockedStep
<1>3. QED
  BY <1>1, <1>2 DEF BaseInv

-------------------------------------------------------------------------------
(* The first theorem. *)

Inv == TypeOK /\ LockInv /\ BaseInv

LEMMA InvInit == Init => Inv
<1>1. Init => LockInv
  BY DEF Init, LockInv, Holding, At
<1>2. Init => BaseInv
  BY NoJobBase DEF Init, BaseInv
<1>3. QED
  BY <1>1, <1>2, InitType DEF Inv

LEMMA InvStep == Inv /\ [Next]_vars => Inv'
<1> SUFFICES ASSUME Inv, [Next]_vars PROVE Inv'
  OBVIOUS
<1> USE DEF Inv
<1>1. ASSUME NEW p \in Procs, StepOf(p)
      PROVE  Inv'
  <2>1. TypeOK'
    <3>1. CASE Start(p)
      BY <3>1, StartType
    <3>2. CASE Acquire(p)
      <4>1. /\ pc' \in [Procs -> PCs] /\ job' \in [Procs -> Job]
            /\ \A q \in Procs : pc'[q] = "numbered" => job'[q].ev \in Event
        BY <3>2, GotoType DEF Acquire, PCs
      <4>2. QED
        BY <3>2, <4>1 DEF TypeOK, Acquire, file, bounds
    <3>3. CASE LockedStep(p)
      BY <3>3, WriteType, CompactType, RedactType DEF LockedStep
    <3>4. CASE Crash(p)
      BY <3>4, CrashType
    <3>5. QED
      BY <1>1, <3>1, <3>2, <3>3, <3>4 DEF StepOf
  <2>2. LockInv'
    BY <1>1, LockInductive
  <2>3. BaseInv'
    BY <1>1, BaseInductive
  <2>4. QED
    BY <2>1, <2>2, <2>3
<1>2. CASE SeqFileDamaged
  BY <1>2 DEF Fault, SeqFileDamaged, TypeOK, LockInv, BaseInv, Holding, At, file, bounds
<1>3. CASE UNCHANGED vars
  BY <1>3 DEF vars, TypeOK, LockInv, BaseInv, Holding, At
<1>4. QED
  BY <1>1, <1>2, <1>3 DEF Next, StepOf

\* Every reachable state is well typed.
THEOREM TypeCorrect == Spec => []TypeOK
<1>1. Inv => TypeOK
  BY DEF Inv
<1>2. QED
  BY <1>1, InvInit, InvStep, PTL DEF Spec

-------------------------------------------------------------------------------
(* The order of the sequence numbers.                                       *)
(*                                                                          *)
(* SeqOrder alone is not inductive: a number that was taken but not yet     *)
(* written must also be above every number in the file, and a rewriter's    *)
(* copy must still be the file.  Both hold because the lock is held.        *)

\* What compact and redact-shard read is still what the shard holds.
SnapInv ==
  \A p \in Procs : pc[p] \in {"archiving", "rewriting"} =>
    job[p].snap.lines = shard /\ job[p].snap.tail = tail

Ordered(lines) == \A d, e \in lines : d.pos < e.pos => d.seq < e.seq
Within(lines, n, last) == \A e \in lines : e.seq <= n /\ e.pos <= last

OrderInv ==
  /\ Ordered(Live)
  /\ Within(Live, seqFile, end)
  /\ \A p \in Procs : pc[p] = "numbered" =>
       job[p].ev.seq <= seqFile /\ \A e \in Live : e.seq < job[p].ev.seq

\* The shard changes only in the steps of an appender or a rewriter.
LEMMA FileSteps ==
  ASSUME TypeOK, NEW p \in Procs, StepOf(p),
         pc[p] \notin {"numbered", "archiving", "rewriting"}
  PROVE  shard' = shard /\ tail' = tail /\ end' = end
<1> USE DEF file
<1>1. CASE Start(p)
  BY <1>1 DEF Start, StartWrite, StartCompact, StartRedact, AcquireFails
<1>2. CASE Acquire(p)
  BY <1>2 DEF Acquire
<1>3. CASE WriteStep(p)
  BY <1>3 DEF WriteStep, NextSeq, NextSeqFails, AppendLine, AppendGlued,
              AppendFails, PushRelease, Audit, Reply
<1>4. CASE CompactStep(p)
  BY <1>4 DEF CompactStep, CompactNothing, ReadFails, CompactRead, ArchiveMonth,
              ArchiveFails, CompactRewrite, CompactRewriteFails
<1>5. CASE RedactStep(p)
  BY <1>5 DEF RedactStep, RedactNothing, RedactRead, RedactRewrite,
              RedactRewriteFails
<1>6. CASE Crash(p)
  BY <1>6 DEF Crash
<1>7. QED
  BY <1>1, <1>2, <1>3, <1>4, <1>5, <1>6 DEF StepOf, LockedStep

\* The sequence file changes only when a writer takes a number, and then grows.
LEMMA SeqFileSteps ==
  ASSUME TypeOK, NEW p \in Procs, StepOf(p)
  PROVE  /\ seqFile' \in Nat /\ seqFile <= seqFile'
         /\ pc[p] # "locked" => seqFile' = seqFile
<1>0. seqFile \in Nat
  BY DEF TypeOK
<1>1. CASE Start(p)
  <2>1. seqFile' = seqFile
    BY <1>1 DEF Start, StartWrite, StartCompact, StartRedact, AcquireFails
  <2>2. QED
    BY <1>0, <2>1
<1>2. CASE Acquire(p)
  BY <1>0, <1>2 DEF Acquire
<1>3. CASE WriteStep(p)
  <2>1. CASE NextSeq(p)
    BY <1>0, <2>1 DEF NextSeq
  <2>2. CASE NextSeqFails(p)
    BY <1>0, <2>2 DEF NextSeqFails
  <2>3. CASE AppendLine(p) \/ AppendGlued(p) \/ AppendFails(p)
             \/ PushRelease(p) \/ Audit(p) \/ Reply(p)
    BY <1>0, <2>3 DEF AppendLine, AppendGlued, AppendFails, PushRelease, Audit,
                      Reply
  <2>4. QED
    BY <1>3, <2>1, <2>2, <2>3 DEF WriteStep
<1>4. CASE CompactStep(p)
  BY <1>0, <1>4 DEF CompactStep, CompactNothing, ReadFails, CompactRead, ArchiveMonth,
              ArchiveFails, CompactRewrite, CompactRewriteFails
<1>5. CASE RedactStep(p)
  BY <1>0, <1>5 DEF RedactStep, RedactNothing, RedactRead, RedactRewrite,
              RedactRewriteFails
<1>6. CASE Crash(p)
  BY <1>0, <1>6 DEF Crash
<1>7. QED
  BY <1>1, <1>2, <1>3, <1>4, <1>5, <1>6 DEF StepOf, LockedStep

\* How a process gets into the states that depend on the file.
LEMMA NumberedBy ==
  ASSUME TypeOK, NEW p \in Procs, StepOf(p), pc'[p] = "numbered"
  PROVE  pc[p] = "locked" /\ job'[p].ev.seq = seqFile + 1 /\ seqFile' = seqFile + 1
<1> USE DEF TypeOK, Goto
<1>1. CASE Start(p)
  BY <1>1 DEF Start, StartWrite, StartCompact, StartRedact, AcquireFails, Done
<1>2. CASE Acquire(p)
  BY <1>2 DEF Acquire
<1>3. CASE NextSeq(p)
  BY <1>3 DEF NextSeq, Job, Draft
<1>4. CASE AppendLine(p) \/ AppendGlued(p) \/ PushRelease(p) \/ Audit(p)
  BY <1>4 DEF AppendLine, AppendGlued, PushRelease, Audit, At
<1>5. CASE CompactRead(p) \/ ArchiveMonth(p) \/ RedactRead(p)
  BY <1>5 DEF CompactRead, ArchiveMonth, RedactRead
<1>6. CASE Done(p)
  BY <1>6 DEF Done
<1>7. QED
  BY <1>1, <1>2, <1>3, <1>4, <1>5, <1>6
     DEF StepOf, LockedStep, WriteStep, CompactStep, RedactStep, NextSeqFails,
         AppendFails, Reply, CompactNothing, ReadFails, ArchiveFails, CompactRewrite,
         CompactRewriteFails, RedactNothing, RedactRewrite, RedactRewriteFails,
         Crash

LEMMA SnappedBy ==
  ASSUME TypeOK, NEW p \in Procs, StepOf(p), pc'[p] \in {"archiving", "rewriting"}
  PROVE  /\ shard' = shard /\ tail' = tail
         /\ \/ pc[p] = "archiving" /\ job'[p].snap = job[p].snap
            \/ job'[p].snap = CurrentFile
<1> USE DEF TypeOK, Goto
<1>1. CASE Start(p)
  BY <1>1 DEF Start, StartWrite, StartCompact, StartRedact, AcquireFails, Done
<1>2. CASE Acquire(p)
  BY <1>2 DEF Acquire
<1>3. CASE NextSeq(p)
  BY <1>3 DEF NextSeq
<1>4. CASE AppendLine(p) \/ AppendGlued(p) \/ PushRelease(p) \/ Audit(p)
  BY <1>4 DEF AppendLine, AppendGlued, PushRelease, Audit, At
<1>5. CASE CompactRead(p) \/ RedactRead(p)
  <2>1. job'[p].snap = CurrentFile
    <3>1. job[p] \in Job
      OBVIOUS
    <3>2. CASE CompactRead(p)
      BY <3>1, <3>2 DEF CompactRead, Job
    <3>3. CASE RedactRead(p)
      BY <3>1, <3>3 DEF RedactRead, Job
    <3>4. QED
      BY <1>5, <3>2, <3>3
  <2>2. QED
    BY <1>5, <2>1 DEF CompactRead, RedactRead, file
<1>6. CASE ArchiveMonth(p)
  <2>1. job'[p].snap = job[p].snap
    <3>1. job[p] \in Job
      OBVIOUS
    <3>2. QED
      BY <1>6, <3>1 DEF ArchiveMonth, Job
  <2>2. QED
    BY <1>6, <2>1 DEF ArchiveMonth, file
<1>7. CASE Done(p)
  BY <1>7 DEF Done
<1>8. QED
  BY <1>1, <1>2, <1>3, <1>4, <1>5, <1>6, <1>7
     DEF StepOf, LockedStep, WriteStep, CompactStep, RedactStep, NextSeqFails,
         AppendFails, Reply, CompactNothing, ReadFails, ArchiveFails, CompactRewrite,
         CompactRewriteFails, RedactNothing, RedactRewrite, RedactRewriteFails,
         Crash

LEMMA SnapInductive ==
  ASSUME TypeOK, LockInv, SnapInv, NEW p \in Procs, StepOf(p)
  PROVE  SnapInv'
<1>1. ASSUME NEW q \in Procs, q # p, pc'[q] \in {"archiving", "rewriting"}
      PROVE  job'[q].snap.lines = shard' /\ job'[q].snap.tail = tail'
  <2>1. pc[q] \in {"archiving", "rewriting"} /\ job'[q] = job[q]
    BY <1>1, OthersStill
  <2>2. pc[p] \notin {"numbered", "archiving", "rewriting"}
    BY <1>1, <2>1 DEF LockInv, Holding
  <2>3. QED
    BY <2>1, <2>2, FileSteps DEF SnapInv
<1>2. ASSUME pc'[p] \in {"archiving", "rewriting"}
      PROVE  job'[p].snap.lines = shard' /\ job'[p].snap.tail = tail'
  BY <1>2, SnappedBy DEF SnapInv, CurrentFile
<1>3. QED
  BY <1>1, <1>2 DEF SnapInv

\* A new line at the next place, with a number above those in the file.
LEMMA OrderedAppend ==
  ASSUME NEW lines, lines \subseteq Event, NEW n \in Nat, NEW last \in Nat,
         Ordered(lines), Within(lines, n, last),
         NEW e \in Event, e.pos = last + 1, e.seq <= n,
         \A d \in lines : d.seq < e.seq
  PROVE  Ordered(lines \cup {e}) /\ Within(lines \cup {e}, n, last + 1)
<1>1. \A d \in lines : d.pos \in Nat /\ d.seq \in Nat /\ d.pos <= last /\ d.seq <= n
  BY DEF Within, Event
<1>2. e.seq \in Nat
  BY DEF Event
<1>3. QED
  BY <1>1, <1>2 DEF Ordered, Within

\* Nothing is lost by dropping lines.
LEMMA OrderedSubset ==
  ASSUME NEW lines, NEW n, NEW last, Ordered(lines), Within(lines, n, last),
         NEW kept, kept \subseteq lines
  PROVE  Ordered(kept) /\ Within(kept, n, last)
BY DEF Ordered, Within

\* Scrubbing a line changes neither its place nor its number.
LEMMA OrderedScrubbed ==
  ASSUME NEW lines, lines \subseteq Event, NEW n, NEW last,
         Ordered(lines), Within(lines, n, last)
  PROVE  Ordered(Scrubbed(lines)) /\ Within(Scrubbed(lines), n, last)
<1>1. ASSUME NEW d \in lines
      PROVE  Scrub(d).pos = d.pos /\ Scrub(d).seq = d.seq
  BY DEF Scrub, Event
<1>2. QED
  BY <1>1 DEF Ordered, Within, Scrubbed

\* What an append, complete or not, leaves in the shard.
LEMMA AppendedFile ==
  ASSUME TypeOK, NEW p \in Procs, PartialLine(p)
  PROVE  \/ Live' \subseteq Live /\ end' = end
         \/ Live' = Live \cup {Line(p)} /\ end' = end + 1
BY DEF PartialLine, WholeLine, Healed, Live

LEMMA OrderNumbered ==
  ASSUME TypeOK, OrderInv, NEW p \in Procs, StepOf(p), pc[p] = "numbered"
  PROVE  Ordered(Live') /\ Within(Live', seqFile', end')
<1>1. \/ Live' \subseteq Live /\ end' = end
      \/ Live' = Live \cup {Line(p)} /\ end' = end + 1
  <2>1. CASE PartialLine(p)
    BY <2>1, AppendedFile
  <2>2. CASE UNCHANGED file
    BY <2>2 DEF file, Live
  <2>3. CASE AppendGlued(p)
    BY <2>3 DEF AppendGlued, Live
  <2>4. QED
    BY <2>1, <2>2, <2>3 DEF StepOf, Start, StartWrite, StartCompact, StartRedact, AcquireFails,
       Acquire, LockedStep, WriteStep, NextSeq, NextSeqFails, AppendLine,
       AppendFails, PartialLine, PushRelease, Audit, Reply, CompactStep,
       CompactNothing, ReadFails, CompactRead, ArchiveMonth, ArchiveFails, CompactRewrite,
       CompactRewriteFails, RedactStep, RedactNothing, RedactRead,
       RedactRewrite, RedactRewriteFails, Crash, At
<1>2. seqFile' = seqFile
  BY SeqFileSteps
<1>3. CASE Live' \subseteq Live /\ end' = end
  BY <1>2, <1>3, OrderedSubset DEF OrderInv
<1>4. CASE Live' = Live \cup {Line(p)} /\ end' = end + 1
  <2>1. job[p].ev \in Event /\ end \in Nat /\ seqFile \in Nat /\ Live \subseteq Event
    BY DEF TypeOK, Live
  <2>2. /\ Line(p) \in Event /\ Line(p).pos = end + 1
        /\ Line(p).seq = job[p].ev.seq
    BY <2>1 DEF Line, Event
  <2>3. QED
    BY <1>2, <1>4, <2>1, <2>2, OrderedAppend DEF OrderInv
<1>5. QED
  BY <1>1, <1>3, <1>4

LEMMA OrderRewriting ==
  ASSUME TypeOK, SnapInv, OrderInv, NEW p \in Procs, StepOf(p),
         pc[p] \in {"archiving", "rewriting"}
  PROVE  Ordered(Live') /\ Within(Live', seqFile', end')
<1>1. end' = end /\ (Live' \subseteq Live \/ Live' = Scrubbed(Live))
  <2>1. CASE UNCHANGED file
    BY <2>1 DEF file, Live
  <2>2. CASE CompactRewrite(p)
    BY <2>2 DEF CompactRewrite, SnapInv, Live
  <2>3. CASE RedactRewrite(p)
    <3>1. Live' = Scrubbed(shard) \cup Scrubbed(tail) /\ end' = end
      BY <2>3 DEF RedactRewrite, SnapInv, Live
    <3>2. QED
      BY <3>1 DEF Scrubbed, Live
  <2>4. QED
    BY <2>1, <2>2, <2>3 DEF StepOf, Start, StartWrite, StartCompact, StartRedact, AcquireFails,
       Acquire, LockedStep, WriteStep, NextSeq, NextSeqFails, AppendLine,
       AppendGlued, AppendFails, PushRelease, Audit, Reply, CompactStep,
       CompactNothing, ReadFails, CompactRead, ArchiveMonth, ArchiveFails,
       CompactRewriteFails, RedactStep, RedactNothing, RedactRead,
       RedactRewriteFails, Crash, At
<1>2. seqFile' = seqFile
  BY SeqFileSteps
<1>3. Live \subseteq Event
  BY DEF TypeOK, Live
<1>4. QED
  BY <1>1, <1>2, <1>3, OrderedSubset, OrderedScrubbed DEF OrderInv

LEMMA OrderInductive ==
  ASSUME TypeOK, LockInv, SnapInv, OrderInv, NEW p \in Procs, StepOf(p)
  PROVE  OrderInv'
<1>1. CASE pc[p] \notin {"numbered", "archiving", "rewriting"}
  <2>1. Live' = Live /\ end' = end
    BY <1>1, FileSteps DEF Live
  <2>2. seqFile \in Nat /\ seqFile' \in Nat /\ seqFile <= seqFile'
    BY SeqFileSteps DEF TypeOK
  <2>3. \A e \in Live : e.seq \in Nat
    BY DEF TypeOK, Live, Event
  <2>4. Ordered(Live') /\ Within(Live', seqFile', end')
    BY <2>1, <2>2, <2>3 DEF OrderInv, Within
  <2>5. ASSUME NEW q \in Procs, pc'[q] = "numbered"
        PROVE  job'[q].ev.seq <= seqFile' /\ \A e \in Live' : e.seq < job'[q].ev.seq
    <3>1. CASE q = p
      BY <2>1, <2>2, <2>3, <2>5, <3>1, NumberedBy DEF OrderInv, Within
    <3>2. CASE q # p
      <4>1. pc[q] = "numbered" /\ job'[q] = job[q]
        BY <2>5, <3>2, OthersStill
      <4>2. job[q].ev.seq \in Nat
        BY DEF TypeOK, Job, Draft
      <4>3. job[q].ev.seq <= seqFile /\ \A e \in Live : e.seq < job[q].ev.seq
        BY <4>1 DEF OrderInv
      <4>4. QED
        BY <2>1, <2>2, <4>1, <4>2, <4>3
    <3>3. QED
      BY <3>1, <3>2
  <2>6. QED
    BY <2>4, <2>5 DEF OrderInv
<1>2. CASE pc[p] \in {"numbered", "archiving", "rewriting"}
  <2>1. Ordered(Live') /\ Within(Live', seqFile', end')
    BY <1>2, OrderNumbered, OrderRewriting
  <2>2. \A q \in Procs : pc'[q] # "numbered"
    <3>1. pc'[p] # "numbered"
      BY <1>2, NumberedBy
    <3>2. ASSUME NEW q \in Procs, q # p
          PROVE  pc'[q] # "numbered"
      BY <1>2, <3>2, OthersStill DEF LockInv, Holding
    <3>3. QED
      BY <3>1, <3>2
  <2>3. QED
    BY <2>1, <2>2 DEF OrderInv
<1>3. QED
  BY <1>1, <1>2

IInv == Inv /\ SnapInv /\ OrderInv

LEMMA IInvInit == Init => IInv
<1>1. Init => SnapInv
  BY DEF Init, SnapInv
<1>2. Init => OrderInv
  BY DEF Init, OrderInv, Ordered, Within, Live
<1>3. QED
  BY <1>1, <1>2, InvInit DEF IInv

LEMMA IInvStep ==
  ASSUME "seqfile" \notin Faults
  PROVE  IInv /\ [Next]_vars => IInv'
<1> SUFFICES ASSUME IInv, [Next]_vars PROVE IInv'
  OBVIOUS
<1>1. Inv'
  BY InvStep DEF IInv
<1>2. ASSUME NEW p \in Procs, StepOf(p)
      PROVE  SnapInv' /\ OrderInv'
  BY <1>2, SnapInductive, OrderInductive DEF IInv, Inv
<1>3. CASE UNCHANGED vars
  <2>1. SnapInv'
    BY <1>3 DEF vars, IInv, SnapInv
  <2>2. Live' = Live /\ end' = end /\ seqFile' = seqFile /\ pc' = pc /\ job' = job
    BY <1>3 DEF vars, Live
  <2>3. OrderInv'
    BY <2>2 DEF IInv, OrderInv, Ordered, Within
  <2>4. QED
    BY <1>1, <2>1, <2>3 DEF IInv
<1>4. QED
  BY <1>1, <1>2, <1>3 DEF Fault, IInv, Next, StepOf, SeqFileDamaged

\* The numbers along the shard strictly increase and none is ahead of the
\* sequence file, as long as nobody else writes seq-<host>.
THEOREM SeqOrderCorrect ==
  ASSUME "seqfile" \notin Faults
  PROVE  Spec => []SeqOrder
<1>1. IInv => SeqOrder
  BY DEF IInv, OrderInv, SeqOrder, Ordered, Within
<1>2. IInv /\ [Next]_vars => IInv'
  BY IInvStep
<1>3. QED
  BY <1>1, <1>2, IInvInit, PTL DEF Spec

-------------------------------------------------------------------------------
(***************************************************************************)
(* What becomes of the events of a shard, for every set of processes,      *)
(* every calendar and every bound: no two share a number, none leaves the  *)
(* shard but for an archive, no scrubbed value comes back, the audit is    *)
(* true, every event is in one place, and the files implement the store.   *)
(*                                                                         *)
(* The argument: a step puts nothing on disk but copies of what is there   *)
(* and the event its process has in hand (FromWhere), whose number and id  *)
(* nothing on disk has (UniqueInv, IdInv); a compaction that comes to its  *)
(* rewrite has archived every line it drops (ArchInv), and the last member *)
(* of each month it has done is its own, so that a rollback takes nothing  *)
(* else back (RollInv).  So nothing is lost (DiskGrows), and three         *)
(* invariants follow the event in hand to its audit row and its answer     *)
(* (FlightInv, AuditInv) and the members apart (PlaceInv).                 *)
(*                                                                         *)
(* Hypotheses.  A process killed between archiving and rewriting leaves    *)
(* events in two places, and one killed while it appends a member hides    *)
(* what comes after it; a shard whose last byte cannot be read loses an    *)
(* event.  The theorems say where they exclude which.                      *)
(***************************************************************************)
OnDisk == Live \cup Archived

-------------------------------------------------------------------------------
(* What a step does to the archives and to the shard. *)

LEMMA InArchive ==
  /\ \A e : e \in Archived <=>
       \E m \in Months : \E i \in DOMAIN archive[m] : e \in archive[m][i].lines
  /\ \A e : e \in Archived' <=>
       \E m \in Months : \E i \in DOMAIN archive'[m] : e \in archive'[m][i].lines
BY DEF Archived, ArchivedIn, MembersOf

LEMMA OnDiskType ==
  ASSUME TypeOK
  PROVE  OnDisk \subseteq Event
<1>1. \A m \in Months : \A i \in DOMAIN archive[m] : archive[m][i] \in Member
  BY DEF TypeOK
<1>2. Archived \subseteq Event
  BY <1>1, InArchive DEF Member
<1>3. QED
  BY <1>2 DEF TypeOK, OnDisk, Live

\* One more member, whole or torn.
LEMMA MemberAppended ==
  ASSUME TypeOK, NEW m \in Months, NEW x \in Member,
         archive' = [archive EXCEPT ![m] = Append(@, x)]
  PROVE  Archived' = Archived \cup x.lines
<1>1. archive \in [Months -> Seq(Member)] /\ archive[m] \in Seq(Member)
  BY DEF TypeOK
<1>2. archive'[m] = Append(archive[m], x) /\ Len(archive[m]) \in Nat
  BY <1>1
<1>3. /\ Len(archive'[m]) = Len(archive[m]) + 1
      /\ DOMAIN archive[m] = 1..Len(archive[m])
      /\ DOMAIN archive'[m] = 1..(Len(archive[m]) + 1)
      /\ \A i \in 1..Len(archive[m]) : archive'[m][i] = archive[m][i]
      /\ archive'[m][Len(archive[m]) + 1] = x
  BY <1>1, <1>2
<1>4. \A n \in Months : n # m => archive'[n] = archive[n]
  BY <1>1
<1>5. ASSUME NEW e \in Archived'
      PROVE  e \in Archived \cup x.lines
  <2>1. PICK n \in Months : \E i \in DOMAIN archive'[n] : e \in archive'[n][i].lines
    BY <1>5, InArchive
  <2>2. CASE n # m
    BY <1>4, <2>1, <2>2, InArchive
  <2>3. CASE n = m
    <3>1. PICK i \in 1..(Len(archive[m]) + 1) : e \in archive'[m][i].lines
      BY <1>3, <2>1, <2>3
    <3>2. CASE i = Len(archive[m]) + 1
      BY <1>3, <3>1, <3>2
    <3>3. CASE i # Len(archive[m]) + 1
      <4>1. i \in 1..Len(archive[m])
        BY <1>2, <3>3
      <4>2. QED
        BY <1>3, <3>1, <4>1, InArchive
    <3>4. QED
      BY <3>2, <3>3
  <2>4. QED
    BY <2>2, <2>3
<1>6. ASSUME NEW e \in x.lines
      PROVE  e \in Archived'
  <2>1. Len(archive[m]) + 1 \in DOMAIN archive'[m]
    BY <1>2, <1>3
  <2>2. QED
    BY <1>3, <1>6, <2>1, InArchive
<1>7. ASSUME NEW e \in Archived
      PROVE  e \in Archived'
  <2>0. PICK n \in Months : \E i \in DOMAIN archive[n] : e \in archive[n][i].lines
    BY <1>7, InArchive
  <2>1. PICK i \in DOMAIN archive[n] : e \in archive[n][i].lines
    BY <2>0
  <2>2. i \in DOMAIN archive'[n] /\ archive'[n][i] = archive[n][i]
    <3>1. CASE n # m
      BY <1>4, <2>1, <3>1
    <3>2. CASE n = m
      BY <1>2, <1>3, <2>1, <3>2
    <3>3. QED
      BY <3>1, <3>2
  <2>3. QED
    BY <2>1, <2>2, InArchive
<1>8. QED
  BY <1>5, <1>6, <1>7

\* A rollback that removes a member leaves those before it.
LEMMA CutBack ==
  ASSUME TypeOK, BaseInv, NEW p \in Procs, pc[p] = "archiving", NEW m \in Months
  PROVE  \A i \in DOMAIN RolledBack(p)[m] :
           i \in DOMAIN archive[m] /\ RolledBack(p)[m][i] = archive[m][i]
<1>1. /\ archive[m] \in Seq(Member) /\ job[p].base[m] \in Nat
      /\ job[p].base[m] <= Len(archive[m])
  BY DEF TypeOK, Job, BaseInv
<1>2. CASE RolledBack(p)[m] = archive[m]
  BY <1>2
<1>3. CASE RolledBack(p)[m] = SubSeq(archive[m], 1, job[p].base[m])
  <2>1. SUFFICES ASSUME NEW i \in DOMAIN RolledBack(p)[m]
                 PROVE  i \in DOMAIN archive[m] /\ RolledBack(p)[m][i] = archive[m][i]
    OBVIOUS
  <2>2. i \in 1..job[p].base[m] /\ RolledBack(p)[m][i] = archive[m][i]
    BY <1>1, <1>3, <2>1, SubSeqProperties
  <2>3. QED
    BY <1>1, <2>2
<1>4. QED
  BY <1>2, <1>3 DEF RolledBack

\* A failed compaction leaves in the archives what was there, and lines of the
\* shard.
LEMMA FailedArchived ==
  ASSUME TypeOK, BaseInv, SnapInv, NEW p \in Procs, ArchiveFails(p) \/ CompactRewriteFails(p)
  PROVE  Archived' \subseteq Archived \cup shard
<1>0. pc[p] = "archiving"
  BY FailedDomain
<1>1. SUFFICES ASSUME NEW m \in Months, NEW i \in DOMAIN archive'[m],
                      NEW e \in archive'[m][i].lines
               PROVE  e \in Archived \cup shard
  BY InArchive
<1>2. CASE archive'[m] \in {archive[m], RolledBack(p)[m]}
  BY <1>0, <1>1, <1>2, CutBack, InArchive
<1>3. CASE archive'[m] = <<>>
  BY <1>1, <1>3
<1>4. ASSUME NEW mem \in {TornMember, WholeMember(OldOf(p, m))},
             archive'[m] = Append(archive[m], mem)
      PROVE  e \in Archived \cup shard
  <2>1. archive[m] \in Seq(Member) /\ Len(archive[m]) \in Nat
    BY DEF TypeOK
  <2>2. OldOf(p, m) \subseteq shard
    BY <1>0 DEF SnapInv, OldOf, Old
  <2>3. mem \in Member /\ mem.lines \subseteq shard
    <3>1. TornMember \in Member /\ TornMember.lines = {}
      BY DEF TornMember, Member
    <3>2. WholeMember(OldOf(p, m)) \in Member /\ WholeMember(OldOf(p, m)).lines = OldOf(p, m)
      BY <2>2 DEF WholeMember, Member, TypeOK
    <3>3. QED
      BY <2>2, <3>1, <3>2
  <2>4. /\ DOMAIN archive'[m] = 1..(Len(archive[m]) + 1)
        /\ \A k \in 1..Len(archive[m]) : archive'[m][k] = archive[m][k]
        /\ archive'[m][Len(archive[m]) + 1] = mem
    BY <1>4, <2>1, <2>3, AppendProperties
  <2>5. CASE i = Len(archive[m]) + 1
    BY <1>1, <2>3, <2>4, <2>5
  <2>6. CASE i # Len(archive[m]) + 1
    <3>1. i \in 1..Len(archive[m]) /\ i \in DOMAIN archive[m]
      BY <1>1, <2>1, <2>4, <2>6
    <3>2. QED
      BY <1>1, <2>4, <3>1, InArchive
  <2>7. QED
    BY <2>5, <2>6
<1>5. QED
  BY <1>2, <1>3, <1>4, FailedMonth

\* The month a compaction archives next.
LEMMA MonthArchived ==
  ASSUME TypeOK, SnapInv, NEW p \in Procs, ArchiveMonth(p)
  PROVE  \E m \in Months, size \in Nat :
           /\ Archived' = Archived \cup OldOf(p, m)
           /\ job' = [job EXCEPT ![p].todo = @ \ {m}, ![p].base[m] = size]
           /\ OldOf(p, m) \subseteq shard
<1>1. PICK m \in Months, size \in Nat :
        /\ archive' = [archive EXCEPT ![m] = Append(@, WholeMember(OldOf(p, m)))]
        /\ job' = [job EXCEPT ![p].todo = @ \ {m}, ![p].base[m] = size]
  BY MonthSteps
<1>2. OldOf(p, m) \subseteq shard
  BY DEF ArchiveMonth, SnapInv, OldOf, Old
<1>3. WholeMember(OldOf(p, m)) \in Member
  BY <1>2 DEF WholeMember, Member, TypeOK
<1>4. Archived' = Archived \cup OldOf(p, m)
  BY <1>1, <1>3, MemberAppended DEF WholeMember
<1>5. QED
  BY <1>1, <1>2, <1>4

\* Nothing comes into an archive but lines of the shard.
LEMMA ArchivedSteps ==
  ASSUME TypeOK, BaseInv, SnapInv, NEW p \in Procs, StepOf(p)
  PROVE  Archived' \subseteq Archived \cup shard
<1>1. CASE archive' = archive
  BY <1>1, InArchive
<1>2. CASE ArchiveMonth(p)
  BY <1>2, MonthArchived
<1>3. CASE ArchiveFails(p) \/ CompactRewriteFails(p)
  BY <1>3, FailedArchived
<1>4. CASE \E m \in Months : archive' = [archive EXCEPT ![m] = Append(@, TornMember)]
  <2>1. TornMember \in Member /\ TornMember.lines = {}
    BY DEF TornMember, Member
  <2>2. QED
    BY <1>4, <2>1, MemberAppended
<1>5. CASE pc[p] # "archiving"
  BY <1>1, <1>5, ArchiveSteps
<1>6. CASE pc[p] = "archiving"
  BY <1>1, <1>2, <1>3, <1>4, <1>6 DEF StepOf, Start, StartWrite, StartCompact, StartRedact,
     AcquireFails, Acquire, LockedStep, WriteStep, NextSeq, NextSeqFails, AppendLine,
     AppendGlued, AppendFails, PushRelease, Audit, Reply, CompactStep, CompactNothing,
     ReadFails, CompactRead, CompactRewrite, RedactStep, RedactNothing, RedactRead,
     RedactRewrite, RedactRewriteFails, Crash, At
<1>7. QED
  BY <1>5, <1>6

\* The shard loses lines, gets the event in hand, or is scrubbed.
LEMMA LiveSteps ==
  ASSUME TypeOK, SnapInv, NEW p \in Procs, StepOf(p)
  PROVE  \/ Live' \subseteq Live
         \/ pc[p] = "numbered" /\ Live' \subseteq Live \cup {Line(p)}
         \/ Live' = Scrubbed(Live)
<1>1. CASE pc[p] \notin {"numbered", "archiving", "rewriting"}
  BY <1>1, FileSteps DEF Live
<1>2. CASE UNCHANGED file
  BY <1>2 DEF file, Live
<1>3. CASE pc[p] = "numbered" /\ PartialLine(p)
  BY <1>3, AppendedFile
<1>4. CASE AppendGlued(p)
  BY <1>4 DEF AppendGlued, Live
<1>5. CASE CompactRewrite(p)
  BY <1>5 DEF CompactRewrite, SnapInv, Live
<1>6. CASE RedactRewrite(p)
  <2>1. Live' = Scrubbed(shard) \cup Scrubbed(tail)
    BY <1>6 DEF RedactRewrite, SnapInv, Live
  <2>2. QED
    BY <2>1 DEF Scrubbed, Live
<1>7. CASE pc[p] \in {"numbered", "archiving", "rewriting"}
  BY <1>2, <1>3, <1>4, <1>5, <1>6, <1>7 DEF StepOf, Start, StartWrite, StartCompact,
     StartRedact, AcquireFails, Acquire, LockedStep, WriteStep, NextSeq, NextSeqFails,
     AppendLine, AppendFails, PartialLine, PushRelease, Audit, Reply, CompactStep,
     CompactNothing, ReadFails, CompactRead, ArchiveMonth, ArchiveFails,
     CompactRewriteFails, RedactStep, RedactNothing, RedactRead, RedactRewriteFails,
     Crash, At
<1>8. QED
  BY <1>1, <1>7

LEMMA ScrubKeeps ==
  ASSUME NEW lines, lines \subseteq Event, NEW e \in Scrubbed(lines)
  PROVE  /\ e.mark # "leak"
         /\ \E d \in lines : d.id = e.id /\ d.seq = e.seq
<1>1. PICK d \in lines : e = Scrub(d)
  BY DEF Scrubbed
<1>2. QED
  BY <1>1 DEF Scrub, Event

\* Where a line on disk comes from: a line on disk, or the event in hand.
LEMMA FromWhere ==
  ASSUME TypeOK, BaseInv, SnapInv, NEW p \in Procs, StepOf(p), NEW e \in OnDisk'
  PROVE  \/ \E d \in OnDisk : d.id = e.id /\ d.seq = e.seq
         \/ pc[p] = "numbered" /\ e = Line(p)
<1>1. CASE e \in Archived'
  BY <1>1, ArchivedSteps DEF OnDisk, Live
<1>2. CASE e \in Live' /\ Live' = Scrubbed(Live)
  <2>1. Live \subseteq Event
    BY DEF TypeOK, Live
  <2>2. QED
    BY <1>2, <2>1, ScrubKeeps DEF OnDisk
<1>3. CASE e \in Live' /\ Live' # Scrubbed(Live)
  BY <1>3, LiveSteps DEF OnDisk
<1>4. QED
  BY <1>1, <1>2, <1>3 DEF OnDisk

\* Both are kept by every step: the lock, and a rewriter's copy.
HInv == Inv /\ SnapInv

LEMMA HInvInit == Init => HInv
BY InvInit DEF Init, HInv, SnapInv

LEMMA HInvStep == HInv /\ [Next]_vars => HInv'
<1> SUFFICES ASSUME HInv, [Next]_vars PROVE HInv'
  OBVIOUS
<1>1. Inv'
  BY InvStep DEF HInv
<1>2. CASE \E p \in Procs : StepOf(p)
  BY <1>1, <1>2, SnapInductive DEF HInv, Inv
<1>3. CASE SeqFileDamaged
  BY <1>1, <1>3 DEF SeqFileDamaged, file, HInv, SnapInv
<1>4. CASE UNCHANGED vars
  BY <1>1, <1>4 DEF vars, HInv, SnapInv
<1>5. QED
  BY <1>2, <1>3, <1>4 DEF Next, StepOf

\* Steps that leave the files alone leave what is on disk alone.
LEMMA SameDisk ==
  ASSUME shard' = shard, tail' = tail, archive' = archive
  PROVE  Live' = Live /\ Archived' = Archived /\ OnDisk' = OnDisk
BY DEF Live, Archived, ArchivedIn, MembersOf, OnDisk

-------------------------------------------------------------------------------
(* No two events share a number. *)

UniqueInv ==
  /\ \A d, e \in OnDisk : d.seq = e.seq => d.id = e.id
  /\ \A e \in OnDisk : e.seq <= seqFile
  /\ \A p \in Procs : pc[p] = "numbered" =>
       job[p].ev.seq <= seqFile /\ \A e \in OnDisk : e.seq < job[p].ev.seq

LEMMA UniqueSteps ==
  ASSUME HInv, UniqueInv, NEW p \in Procs, StepOf(p)
  PROVE  UniqueInv'
<1> USE DEF HInv, Inv
<1>0. /\ seqFile \in Nat /\ seqFile' \in Nat /\ seqFile <= seqFile'
      /\ OnDisk \subseteq Event
  BY SeqFileSteps, OnDiskType DEF TypeOK
<1>1. CASE pc[p] # "numbered"
  <2>1. \A e \in OnDisk' : \E d \in OnDisk : d.id = e.id /\ d.seq = e.seq
    BY <1>1, FromWhere
  <2>2. \A e \in OnDisk' : e.seq \in Nat /\ e.seq <= seqFile
    BY <1>0, <2>1 DEF UniqueInv, Event
  <2>3. \A d, e \in OnDisk' : d.seq = e.seq => d.id = e.id
    BY <2>1 DEF UniqueInv
  <2>4. ASSUME NEW q \in Procs, pc'[q] = "numbered"
        PROVE  job'[q].ev.seq <= seqFile' /\ \A e \in OnDisk' : e.seq < job'[q].ev.seq
    <3>1. CASE q = p
      <4>1. job'[q].ev.seq = seqFile + 1 /\ seqFile' = seqFile + 1
        BY <2>4, <3>1, NumberedBy
      <4>2. QED
        BY <1>0, <2>2, <4>1
    <3>2. CASE q # p
      <4>1. pc[q] = "numbered" /\ job'[q] = job[q]
        BY <2>4, <3>2, OthersStill
      <4>2. job[q].ev.seq \in Nat /\ job[q].ev.seq <= seqFile
        BY <4>1 DEF UniqueInv, TypeOK, Job, Draft
      <4>3. \A e \in OnDisk' : e.seq < job[q].ev.seq
        BY <2>1, <4>1 DEF UniqueInv
      <4>4. QED
        BY <1>0, <4>1, <4>2, <4>3
    <3>3. QED
      BY <3>1, <3>2
  <2>5. \A e \in OnDisk' : e.seq <= seqFile'
    BY <1>0, <2>2
  <2>6. QED
    BY <2>3, <2>4, <2>5 DEF UniqueInv
<1>2. CASE pc[p] = "numbered"
  <2>1. seqFile' = seqFile
    BY <1>2, SeqFileSteps
  <2>2. /\ Line(p).seq = job[p].ev.seq /\ job[p].ev.seq <= seqFile
        /\ \A e \in OnDisk : e.seq < job[p].ev.seq
        /\ job[p].ev.seq \in Nat
    <3>1. job[p].ev \in Event
      BY <1>2 DEF TypeOK
    <3>2. QED
      BY <1>2, <3>1 DEF UniqueInv, Line, Event
  <2>3. \A e \in OnDisk' : \/ e = Line(p)
                           \/ \E d \in OnDisk : d.id = e.id /\ d.seq = e.seq
    BY FromWhere
  <2>4. \A e \in OnDisk' : e.seq <= seqFile'
    BY <2>1, <2>2, <2>3 DEF UniqueInv
  <2>5. \A d, e \in OnDisk' : d.seq = e.seq => d.id = e.id
    <3>1. \A e \in OnDisk' : e = Line(p) \/ e.seq < Line(p).seq
      BY <2>2, <2>3
    <3>2. \A e \in OnDisk' : e.seq < Line(p).seq => e.seq # Line(p).seq
      BY <1>0, <2>2, <2>3 DEF Event
    <3>3. QED
      BY <2>3, <3>1, <3>2 DEF UniqueInv
  <2>6. ASSUME NEW q \in Procs
        PROVE  pc'[q] # "numbered"
    <3>1. CASE q = p
      BY <1>2, <3>1, NumberedBy
    <3>2. CASE q # p
      BY <1>2, <3>2, OthersStill DEF LockInv, Holding
    <3>3. QED
      BY <3>1, <3>2
  <2>7. QED
    BY <2>4, <2>5, <2>6 DEF UniqueInv
<1>3. QED
  BY <1>1, <1>2

\* While nobody else writes seq-<host>, two different events never carry the
\* same number, in the shard or in the archives (event.NextSeq, lock.go:48).
THEOREM SeqUniqueCorrect ==
  ASSUME "seqfile" \notin Faults
  PROVE  Spec => []SeqUnique
<1>1. Init => HInv /\ UniqueInv
  <2>1. Init => OnDisk = {}
    BY InArchive DEF Init, OnDisk, Live
  <2>2. QED
    BY <2>1, HInvInit DEF Init, UniqueInv
<1>2. HInv /\ UniqueInv /\ [Next]_vars => HInv' /\ UniqueInv'
  <2> SUFFICES ASSUME HInv, UniqueInv, [Next]_vars PROVE HInv' /\ UniqueInv'
    OBVIOUS
  <2>1. HInv'
    BY HInvStep
  <2>2. CASE \E p \in Procs : StepOf(p)
    BY <2>1, <2>2, UniqueSteps
  <2>3. CASE UNCHANGED vars
    BY <2>1, <2>3, SameDisk DEF vars, UniqueInv
  <2>4. QED
    BY <2>2, <2>3 DEF Next, StepOf, SeqFileDamaged, Fault
<1>3. UniqueInv => SeqUnique
  BY DEF UniqueInv, SeqUnique, OnDisk
<1>4. QED
  BY <1>1, <1>2, <1>3, PTL DEF Spec

-------------------------------------------------------------------------------
(* What a compaction drops. *)

\* What an archiving process has yet to archive, or has archived.
ArchInv ==
  \A p \in Procs : pc[p] = "archiving" =>
    \A e \in Old(job[p].snap, job[p].cut) :
      MonthOf[e.ts] \in job[p].todo \/ e \in Archived

LEMMA ArchivingBy ==
  ASSUME TypeOK, NEW p \in Procs, StepOf(p), pc'[p] = "archiving"
  PROVE  CompactRead(p) \/ ArchiveMonth(p)
<1> USE DEF TypeOK, Goto
<1>1. CASE Start(p)
  BY <1>1 DEF Start, StartWrite, StartCompact, StartRedact, AcquireFails, Done
<1>2. CASE Acquire(p)
  BY <1>2 DEF Acquire
<1>3. CASE NextSeq(p) \/ RedactRead(p)
  BY <1>3 DEF NextSeq, RedactRead
<1>4. CASE AppendLine(p) \/ AppendGlued(p) \/ PushRelease(p) \/ Audit(p)
  BY <1>4 DEF AppendLine, AppendGlued, PushRelease, Audit, At
<1>5. CASE Done(p)
  BY <1>5 DEF Done
<1>6. QED
  BY <1>1, <1>2, <1>3, <1>4, <1>5
     DEF StepOf, LockedStep, WriteStep, CompactStep, RedactStep, NextSeqFails,
         AppendFails, Reply, CompactNothing, ReadFails, ArchiveFails, CompactRewrite,
         CompactRewriteFails, RedactNothing, RedactRewrite, RedactRewriteFails,
         Crash

LEMMA ArchSteps ==
  ASSUME HInv, ArchInv, NEW p \in Procs, StepOf(p)
  PROVE  ArchInv'
<1> USE DEF HInv, Inv
<1>1. ASSUME NEW q \in Procs, q # p, pc'[q] = "archiving"
      PROVE  \A e \in Old(job'[q].snap, job'[q].cut) :
               MonthOf[e.ts] \in job'[q].todo \/ e \in Archived'
  <2>1. pc[q] = "archiving" /\ job'[q] = job[q]
    BY <1>1, OthersStill
  <2>2. pc[p] # "archiving"
    BY <1>1, <2>1 DEF LockInv, Holding
  <2>3. Archived' = Archived
    BY <2>2, ArchiveSteps DEF Archived, ArchivedIn, MembersOf
  <2>4. QED
    BY <2>1, <2>3 DEF ArchInv
<1>2. ASSUME pc'[p] = "archiving", NEW e \in Old(job'[p].snap, job'[p].cut)
      PROVE  MonthOf[e.ts] \in job'[p].todo \/ e \in Archived'
  <2>1. job[p] \in Job
    BY DEF TypeOK
  <2>2. CASE CompactRead(p)
    <3>1. /\ job'[p].todo = MonthsOf(Old(CurrentFile, job[p].cut))
          /\ job'[p].snap = CurrentFile /\ job'[p].cut = job[p].cut
      BY <2>1, <2>2 DEF CompactRead, TypeOK, Job
    <3>2. QED
      BY <1>2, <3>1 DEF MonthsOf
  <2>3. CASE ArchiveMonth(p)
    <3>1. PICK m \in Months, size \in Nat :
            /\ Archived' = Archived \cup OldOf(p, m)
            /\ job' = [job EXCEPT ![p].todo = @ \ {m}, ![p].base[m] = size]
      BY <2>3, MonthArchived
    <3>2. /\ job'[p].todo = job[p].todo \ {m}
          /\ job'[p].snap = job[p].snap /\ job'[p].cut = job[p].cut
      BY <2>1, <3>1 DEF TypeOK, Job
    <3>3. MonthOf[e.ts] \in job[p].todo \/ e \in Archived
      BY <1>2, <2>3, <3>2 DEF ArchInv, ArchiveMonth
    <3>4. MonthOf[e.ts] = m => e \in OldOf(p, m)
      BY <1>2, <3>2 DEF OldOf
    <3>5. QED
      BY <3>1, <3>2, <3>3, <3>4
  <2>4. QED
    BY <1>2, <2>2, <2>3, ArchivingBy
<1>3. QED
  BY <1>1, <1>2 DEF ArchInv

\* The lines that end in a newline stay, are archived, or are scrubbed.
LEMMA LeaveSteps ==
  ASSUME HInv, ArchInv, NEW p \in Procs, StepOf(p)
  PROVE  IdsOf(shard) \subseteq IdsOf(shard' \cup Archived')
<1> USE DEF HInv, Inv
<1>1. CASE shard \subseteq shard'
  BY <1>1 DEF IdsOf
<1>2. CASE CompactRewrite(p)
  <2>1. Archived' = Archived
    BY <1>2 DEF CompactRewrite, Archived, ArchivedIn, MembersOf
  <2>2. Old(job[p].snap, job[p].cut) \subseteq Archived
    BY <1>2 DEF CompactRewrite, ArchInv
  <2>3. shard' = shard \ Old(job[p].snap, job[p].cut)
    BY <1>2 DEF CompactRewrite, SnapInv
  <2>4. shard \subseteq shard' \cup Archived'
    BY <2>1, <2>2, <2>3
  <2>5. QED
    BY <2>4 DEF IdsOf
<1>3. CASE RedactRewrite(p)
  <2>1. shard' = Scrubbed(shard)
    BY <1>3 DEF RedactRewrite, SnapInv
  <2>2. ASSUME NEW e \in shard
        PROVE  Scrub(e).id = e.id
    BY DEF TypeOK, Event, Scrub
  <2>3. QED
    BY <2>1, <2>2 DEF Scrubbed, IdsOf
<1>4. CASE PartialLine(p) \/ AppendGlued(p)
  BY <1>1, <1>4 DEF PartialLine, WholeLine, Healed, AppendGlued
<1>5. CASE shard' = shard
  BY <1>1, <1>5
<1>6. QED
  BY <1>2, <1>3, <1>4, <1>5 DEF StepOf, Start, StartWrite, StartCompact, StartRedact,
     AcquireFails, Acquire, LockedStep, WriteStep, NextSeq, NextSeqFails, AppendLine,
     AppendFails, PartialLine, PushRelease, Audit, Reply, CompactStep, CompactNothing,
     ReadFails, CompactRead, ArchiveMonth, ArchiveFails, CompactRewriteFails, RedactStep,
     RedactNothing, RedactRead, RedactRewriteFails, Crash, file

\* Whichever of FaultKinds happen, a line leaves the live shard only for a
\* complete archive member that holds it (compact.go: the months are archived
\* and synced before the rewrite).  The lock is taken as given: seq-<host>,
\* the file it is on, is not removed.
THEOREM LinesLeaveForArchive == Spec => LeavesForArchive
<1>1. Init => HInv /\ ArchInv
  BY HInvInit DEF Init, ArchInv
<1>2. HInv /\ ArchInv /\ [Next]_vars => HInv' /\ ArchInv'
  <2> SUFFICES ASSUME HInv, ArchInv, [Next]_vars PROVE HInv' /\ ArchInv'
    OBVIOUS
  <2>1. HInv'
    BY HInvStep
  <2>2. CASE \E p \in Procs : StepOf(p)
    BY <2>1, <2>2, ArchSteps
  <2>3. CASE SeqFileDamaged \/ UNCHANGED vars
    <3>1. pc' = pc /\ job' = job /\ Archived' = Archived
      BY <2>3, SameDisk DEF SeqFileDamaged, vars, file
    <3>2. QED
      BY <2>1, <3>1 DEF ArchInv
  <2>4. QED
    BY <2>2, <2>3 DEF Next, StepOf
<1>3. HInv /\ ArchInv /\ [Next]_vars
        => [IdsOf(shard) \subseteq IdsOf(shard' \cup Archived')]_vars
  <2> SUFFICES ASSUME HInv, ArchInv, Next
               PROVE  IdsOf(shard) \subseteq IdsOf(shard' \cup Archived')
    OBVIOUS
  <2>1. CASE \E p \in Procs : StepOf(p)
    BY <2>1, LeaveSteps
  <2>2. CASE SeqFileDamaged
    BY <2>2 DEF SeqFileDamaged, file, IdsOf
  <2>3. QED
    BY <2>1, <2>2 DEF Next, StepOf
<1>4. QED
  BY <1>1, <1>2, <1>3, PTL DEF Spec, LeavesForArchive

-------------------------------------------------------------------------------
(* Nothing scrubbed comes back. *)

\* p has an event that is not yet on disk.
Pending(p) ==
  \/ pc[p] = "numbered"
  \/ pc[p] \in {"waiting", "locked"} /\ job[p].op \in {"emit", "push"}

IdInv ==
  /\ \A e \in OnDisk : e.id <= born
  /\ \A p \in Procs : Pending(p) =>
       job[p].ev.id <= born /\ \A e \in OnDisk : e.id # job[p].ev.id
  /\ \A p, q \in Procs : Pending(p) /\ Pending(q) /\ p # q =>
       job[p].ev.id # job[q].ev.id

LEMMA BornSteps ==
  ASSUME TypeOK, NEW p \in Procs, StepOf(p)
  PROVE  /\ born' \in Nat /\ born <= born'
         /\ born' = born \/ (pc[p] = "idle" /\ born' = born + 1)
<1>0. born \in Nat
  BY DEF TypeOK
<1>1. born' = born \/ (pc[p] = "idle" /\ born' = born + 1)
  BY DEF StepOf, Start, StartWrite, StartCompact, StartRedact, AcquireFails, Acquire,
     LockedStep, WriteStep, NextSeq, NextSeqFails, AppendLine, AppendGlued, AppendFails,
     PushRelease, Audit, Reply, CompactStep, CompactNothing, ReadFails, CompactRead,
     ArchiveMonth, ArchiveFails, CompactRewrite, CompactRewriteFails, RedactStep,
     RedactNothing, RedactRead, RedactRewrite, RedactRewriteFails, Crash, bounds
<1>2. QED
  BY <1>0, <1>1

\* A process comes to hold an event by creating it.
LEMMA PendingBy ==
  ASSUME TypeOK, NEW p \in Procs, StepOf(p), Pending(p)'
  PROVE  /\ pc[p] # "numbered"
         /\ \/ Pending(p) /\ job'[p].ev.id = job[p].ev.id
            \/ job'[p].ev.id = born + 1 /\ born' = born + 1
<1> USE DEF TypeOK, Goto
<1>0. job[p] \in Job
  OBVIOUS
<1>1. CASE \E kind \in OpKinds : StartWrite(p, kind)
  BY <1>1 DEF StartWrite, NoJob, NoDraft
<1>2. CASE (\E t \in Stamps : StartCompact(p, t + 1)) \/ StartRedact(p)
  BY <1>2 DEF StartCompact, StartRedact, Pending, NoJob
<1>3. CASE Acquire(p)
  BY <1>3 DEF Acquire, Pending
<1>4. CASE NextSeq(p)
  BY <1>0, <1>4 DEF NextSeq, Pending, Job, Draft
<1>5. CASE AppendLine(p) \/ AppendGlued(p) \/ PushRelease(p) \/ Audit(p)
  BY <1>5 DEF AppendLine, AppendGlued, PushRelease, Audit, At, Pending
<1>6. CASE CompactRead(p) \/ ArchiveMonth(p) \/ RedactRead(p)
  BY <1>6 DEF CompactRead, ArchiveMonth, RedactRead, Pending
<1>7. CASE Done(p)
  BY <1>7 DEF Done, Pending
<1>8. QED
  BY <1>1, <1>2, <1>3, <1>4, <1>5, <1>6, <1>7
     DEF StepOf, Start, AcquireFails, LockedStep, WriteStep, CompactStep, RedactStep,
         NextSeqFails, AppendFails, Reply, CompactNothing, ReadFails, ArchiveFails,
         CompactRewrite, CompactRewriteFails, RedactNothing, RedactRewrite,
         RedactRewriteFails, Crash

LEMMA IdSteps ==
  ASSUME HInv, IdInv, NEW p \in Procs, StepOf(p)
  PROVE  IdInv'
<1> USE DEF HInv, Inv
<1>0. /\ born \in Nat /\ born' \in Nat /\ born <= born'
      /\ OnDisk \subseteq Event
      /\ \A q \in Procs : job[q].ev.id \in Nat
  BY BornSteps, OnDiskType DEF TypeOK, Job, Draft
<1>1. pc[p] = "numbered" => Line(p).id = job[p].ev.id
  BY DEF TypeOK, Line, Event
<1>2. \A e \in OnDisk' : \/ \E d \in OnDisk : d.id = e.id
                         \/ pc[p] = "numbered" /\ e.id = job[p].ev.id
  BY <1>1, FromWhere
<1>3. \A e \in OnDisk' : e.id \in Nat /\ e.id <= born
  BY <1>0, <1>2 DEF IdInv, Event, Pending
<1>4. ASSUME NEW q \in Procs, q # p, Pending(q)'
      PROVE  /\ Pending(q) /\ job'[q].ev.id = job[q].ev.id
             /\ job[q].ev.id <= born
             /\ \A e \in OnDisk' : e.id # job[q].ev.id
  <2>1. Pending(q) /\ job'[q] = job[q]
    BY <1>4, OthersStill DEF Pending
  <2>2. pc[p] = "numbered" => job[p].ev.id # job[q].ev.id
    BY <1>4, <2>1 DEF IdInv, Pending
  <2>3. job[q].ev.id <= born /\ \A e \in OnDisk : e.id # job[q].ev.id
    BY <2>1 DEF IdInv
  <2>4. QED
    BY <1>2, <2>1, <2>2, <2>3
<1>5. ASSUME Pending(p)'
      PROVE  /\ job'[p].ev.id <= born'
             /\ \A e \in OnDisk' : e.id # job'[p].ev.id
             /\ \A q \in Procs : q # p /\ Pending(q)' => job'[q].ev.id # job'[p].ev.id
  <2>1. pc[p] # "numbered"
    BY <1>5, PendingBy
  <2>2. CASE Pending(p) /\ job'[p].ev.id = job[p].ev.id
    <3>1. job[p].ev.id <= born /\ \A e \in OnDisk : e.id # job[p].ev.id
      BY <2>2 DEF IdInv
    <3>2. \A e \in OnDisk' : e.id # job[p].ev.id
      BY <1>2, <2>1, <3>1
    <3>3. \A q \in Procs : q # p /\ Pending(q) => job[q].ev.id # job[p].ev.id
      BY <2>2 DEF IdInv
    <3>4. QED
      BY <1>0, <1>4, <2>2, <3>1, <3>2, <3>3
  <2>3. CASE job'[p].ev.id = born + 1 /\ born' = born + 1
    BY <1>0, <1>3, <1>4, <2>3
  <2>4. QED
    BY <1>5, <2>2, <2>3, PendingBy
<1>6. \A e \in OnDisk' : e.id <= born'
  BY <1>0, <1>3
<1>7. \A q \in Procs : Pending(q)' =>
        job'[q].ev.id <= born' /\ \A e \in OnDisk' : e.id # job'[q].ev.id
  <2> SUFFICES ASSUME NEW q \in Procs, Pending(q)'
               PROVE  job'[q].ev.id <= born' /\ \A e \in OnDisk' : e.id # job'[q].ev.id
    OBVIOUS
  <2>1. CASE q = p
    BY <1>5, <2>1
  <2>2. CASE q # p
    BY <1>0, <1>4, <2>2
  <2>3. QED
    BY <2>1, <2>2
<1>8. \A q, r \in Procs : Pending(q)' /\ Pending(r)' /\ q # r =>
        job'[q].ev.id # job'[r].ev.id
  <2> SUFFICES ASSUME NEW q \in Procs, NEW r \in Procs, Pending(q)', Pending(r)', q # r
               PROVE  job'[q].ev.id # job'[r].ev.id
    OBVIOUS
  <2>1. CASE q # p /\ r # p
    BY <1>4, <2>1 DEF IdInv
  <2>2. CASE q = p \/ r = p
    BY <1>5, <2>2
  <2>3. QED
    BY <2>1, <2>2
<1>9. QED
  BY <1>6, <1>7, <1>8 DEF IdInv

\* A line that holds a leak after a step held it before, or is new.
LEMMA LeakSteps ==
  ASSUME HInv, IdInv, NEW p \in Procs, StepOf(p), NEW e \in Live', e.mark = "leak"
  PROVE  \/ e.id \notin IdsOf(Live)
         \/ \E d \in Live : d.id = e.id /\ d.mark = "leak"
<1> USE DEF HInv, Inv
<1>1. CASE e \in Live
  BY <1>1
<1>2. CASE pc[p] = "numbered" /\ e = Line(p)
  <2>1. e.id = job[p].ev.id
    BY <1>2 DEF TypeOK, Line, Event
  <2>2. \A d \in OnDisk : d.id # e.id
    BY <1>2, <2>1 DEF IdInv, Pending
  <2>3. QED
    BY <2>2 DEF IdsOf, OnDisk
<1>3. CASE Live' = Scrubbed(Live)
  <2>1. Live \subseteq Event
    BY DEF TypeOK, Live
  <2>2. QED
    BY <1>3, <2>1, ScrubKeeps
<1>4. QED
  BY <1>1, <1>2, <1>3, LiveSteps

\* A value redact-shard scrubbed from a line never comes back into it: no
\* append and no other rewrite of the shard restores an earlier copy,
\* whichever of FaultKinds happen (redact.go and compact.go rewrite under the
\* same lock, on a file that is not removed).
THEOREM NoLeakComesBack == Spec => NoLeakReturns
<1>1. Init => HInv /\ IdInv
  <2>1. Init => OnDisk = {}
    BY InArchive DEF Init, OnDisk, Live
  <2>2. QED
    BY <2>1, HInvInit DEF Init, IdInv, Pending
<1>2. HInv /\ IdInv /\ [Next]_vars => HInv' /\ IdInv'
  <2> SUFFICES ASSUME HInv, IdInv, [Next]_vars PROVE HInv' /\ IdInv'
    OBVIOUS
  <2>1. HInv'
    BY HInvStep
  <2>2. CASE \E p \in Procs : StepOf(p)
    BY <2>1, <2>2, IdSteps
  <2>3. CASE SeqFileDamaged \/ UNCHANGED vars
    <3>1. pc' = pc /\ job' = job /\ born' = born /\ OnDisk' = OnDisk
      BY <2>3, SameDisk DEF SeqFileDamaged, vars, file
    <3>2. QED
      BY <2>1, <3>1 DEF IdInv, Pending
  <2>4. QED
    BY <2>2, <2>3 DEF Next, StepOf
<1>3. HInv /\ IdInv /\ [Next]_vars
        => [\A e \in Live' : e.mark = "leak" =>
              \/ e.id \notin IdsOf(Live)
              \/ \E d \in Live : d.id = e.id /\ d.mark = "leak"]_vars
  <2> SUFFICES ASSUME HInv, IdInv, Next, NEW e \in Live', e.mark = "leak"
               PROVE  \/ e.id \notin IdsOf(Live)
                      \/ \E d \in Live : d.id = e.id /\ d.mark = "leak"
    OBVIOUS
  <2>1. CASE \E p \in Procs : StepOf(p)
    BY <2>1, LeakSteps
  <2>2. CASE SeqFileDamaged
    BY <2>2 DEF SeqFileDamaged, file, Live
  <2>3. QED
    BY <2>1, <2>2 DEF Next, StepOf
<1>4. QED
  BY <1>1, <1>2, <1>3, PTL DEF Spec, NoLeakReturns

-------------------------------------------------------------------------------
(* No step but a lost separator takes an event off the disk. *)

(* What a compaction under way has appended is the last member of each      *)
(* month it has done: cutting it off again loses nothing else, unless the   *)
(* archive was taken for an absent one.                                     *)
RollInv ==
  \A p \in Procs : pc[p] = "archiving" =>
    \A m \in Touched(p) :
      /\ job[p].base[m] + 1 <= Len(archive[m])
      /\ "stat" \notin Faults => job[p].base[m] + 1 = Len(archive[m])
      /\ archive[m][Len(archive[m])] = WholeMember(OldOf(p, m))

LEMMA TouchedMonths ==
  ASSUME HInv, NEW p \in Procs, pc[p] = "archiving"
  PROVE  Touched(p) \subseteq Months /\ \A m \in Months : OldOf(p, m) \subseteq shard
<1>1. job[p].snap.lines = shard /\ shard \subseteq Event
  BY DEF HInv, Inv, SnapInv, TypeOK
<1>2. \A e \in shard : e.ts \in Stamps
  BY <1>1 DEF Event
<1>3. QED
  BY <1>1, <1>2 DEF Touched, MonthsOf, OldOf, Old, Months

LEMMA RollSteps ==
  ASSUME HInv, RollInv, NEW p \in Procs, StepOf(p)
  PROVE  RollInv'
<1> USE DEF HInv, Inv
<1>1. ASSUME NEW q \in Procs, q # p, pc'[q] = "archiving", NEW m \in Touched(q)'
      PROVE  /\ job'[q].base[m] + 1 <= Len(archive'[m])
             /\ "stat" \notin Faults => job'[q].base[m] + 1 = Len(archive'[m])
             /\ archive'[m][Len(archive'[m])] = WholeMember(OldOf(q, m)')
  <2>1. pc[q] = "archiving" /\ job'[q] = job[q]
    BY <1>1, OthersStill
  <2>2. pc[p] # "archiving"
    BY <1>1, <2>1 DEF LockInv, Holding
  <2>3. archive' = archive
    BY <2>2, ArchiveSteps
  <2>4. m \in Touched(q) /\ OldOf(q, m)' = OldOf(q, m)
    BY <1>1, <2>1 DEF Touched, OldOf
  <2>5. QED
    BY <2>1, <2>3, <2>4 DEF RollInv
<1>2. ASSUME pc'[p] = "archiving", NEW n \in Touched(p)'
      PROVE  /\ job'[p].base[n] + 1 <= Len(archive'[n])
             /\ "stat" \notin Faults => job'[p].base[n] + 1 = Len(archive'[n])
             /\ archive'[n][Len(archive'[n])] = WholeMember(OldOf(p, n)')
  <2>1. job[p] \in Job /\ archive \in [Months -> Seq(Member)]
    BY DEF TypeOK
  <2>2. CASE CompactRead(p)
    <3>1. /\ job'[p].todo = MonthsOf(Old(CurrentFile, job[p].cut))
          /\ job'[p].snap = CurrentFile /\ job'[p].cut = job[p].cut
      BY <2>1, <2>2 DEF CompactRead, TypeOK, Job
    <3>2. QED
      BY <1>2, <3>1 DEF Touched
  <2>3. CASE ArchiveMonth(p)
    <3>1. PICK m \in Months, size \in Nat :
            /\ archive' = [archive EXCEPT ![m] = Append(@, WholeMember(OldOf(p, m)))]
            /\ job' = [job EXCEPT ![p].todo = @ \ {m}, ![p].base[m] = size]
            /\ size <= Len(archive[m])
            /\ "stat" \notin Faults => size = Len(archive[m])
      BY <2>3, MonthSteps
    <3>2. /\ job'[p].todo = job[p].todo \ {m}
          /\ job'[p].snap = job[p].snap /\ job'[p].cut = job[p].cut
          /\ job'[p].base = [job[p].base EXCEPT ![m] = size]
      BY <2>1, <3>1 DEF TypeOK, Job
    <3>3. OldOf(p, n)' = OldOf(p, n) /\ pc[p] = "archiving"
      BY <2>3, <3>2 DEF OldOf, ArchiveMonth
    <3>4. CASE n = m
      <4>1. archive[m] \in Seq(Member) /\ Len(archive[m]) \in Nat
        BY <2>1
      <4>2. archive'[m] = Append(archive[m], WholeMember(OldOf(p, m)))
        BY <2>1, <3>1
      <4>3. job'[p].base[m] = size
        BY <2>1, <3>2 DEF Job
      <4>4. WholeMember(OldOf(p, m)) \in Member
        BY <3>3, TouchedMonths DEF WholeMember, Member, TypeOK
      <4>5. /\ Len(archive'[m]) = Len(archive[m]) + 1
            /\ archive'[m][Len(archive[m]) + 1] = WholeMember(OldOf(p, m))
        BY <4>1, <4>2, <4>4, AppendProperties
      <4>6. QED
        BY <3>1, <3>3, <3>4, <4>1, <4>3, <4>5
    <3>5. CASE n # m
      <4>1. n \in Touched(p)
        BY <1>2, <3>2, <3>5 DEF Touched
      <4>2. n \in Months
        BY <3>3, <4>1, TouchedMonths
      <4>3. archive'[n] = archive[n] /\ job'[p].base[n] = job[p].base[n]
        BY <2>1, <3>1, <3>2, <3>5, <4>2 DEF Job
      <4>4. QED
        BY <3>3, <4>1, <4>3 DEF RollInv
    <3>6. QED
      BY <3>4, <3>5
  <2>4. QED
    BY <1>2, <2>2, <2>3, ArchivingBy
<1>3. QED
  BY <1>1, <1>2 DEF RollInv

\* A rollback takes the members of this compaction back, and no others unless
\* an archive was taken for an absent one.
LEMMA RolledBackMembers ==
  ASSUME HInv, RollInv, NEW p \in Procs, pc[p] = "archiving", NEW m \in Months
  PROVE  /\ DOMAIN archive[m] = 1..Len(archive[m]) /\ Len(archive[m]) \in Nat
         /\ DOMAIN RolledBack(p)[m] \subseteq DOMAIN archive[m]
         /\ \A i \in DOMAIN RolledBack(p)[m] : RolledBack(p)[m][i] = archive[m][i]
         /\ m \in Touched(p) =>
              /\ Len(archive[m]) \notin DOMAIN RolledBack(p)[m]
              /\ "stat" \notin Faults =>
                   DOMAIN RolledBack(p)[m] = DOMAIN archive[m] \ {Len(archive[m])}
         /\ m \notin Touched(p) => RolledBack(p)[m] = archive[m]
         /\ m \in Touched(p) => archive[m][Len(archive[m])] = WholeMember(OldOf(p, m))
<1>1. archive[m] \in Seq(Member) /\ job[p].base[m] \in Nat
  BY DEF HInv, Inv, TypeOK, Job
<1>2. DOMAIN archive[m] = 1..Len(archive[m]) /\ Len(archive[m]) \in Nat
  BY <1>1, LenProperties
<1>3. CASE m \in Touched(p)
  <2>1. /\ RolledBack(p)[m] = SubSeq(archive[m], 1, job[p].base[m])
        /\ job[p].base[m] + 1 <= Len(archive[m])
        /\ "stat" \notin Faults => job[p].base[m] + 1 = Len(archive[m])
        /\ archive[m][Len(archive[m])] = WholeMember(OldOf(p, m))
    BY <1>3 DEF RolledBack, RollInv
  <2>2. /\ DOMAIN RolledBack(p)[m] = 1..job[p].base[m]
        /\ \A i \in 1..job[p].base[m] : RolledBack(p)[m][i] = archive[m][i]
    BY <1>1, <1>2, <2>1, SubSeqProperties
  <2>3. QED
    BY <1>1, <1>2, <1>3, <2>1, <2>2
<1>4. CASE m \notin Touched(p)
  BY <1>2, <1>4 DEF RolledBack
<1>5. QED
  BY <1>3, <1>4

\* When no rollback fails each archive is rolled back, or is gone.
LEMMA FailedRolledBack ==
  ASSUME NEW p \in Procs, ArchiveFails(p) \/ CompactRewriteFails(p), "undo" \notin Faults,
         NEW n \in Months
  PROVE  \/ archive'[n] = RolledBack(p)[n]
         \/ "stat" \in Faults /\ archive'[n] = <<>>
BY DEF ArchiveFails, CompactRewriteFails, Fault, RolledBack

\* What leaves an archive is in the shard still, as long as its size is known.
LEMMA ArchivedStays ==
  ASSUME "stat" \notin Faults, HInv, RollInv, NEW p \in Procs, StepOf(p)
  PROVE  Archived \subseteq Archived' \cup shard'
<1> USE DEF HInv, Inv
<1>1. CASE archive' = archive
  BY <1>1, InArchive
<1>2. CASE ArchiveMonth(p)
  BY <1>2, MonthArchived
<1>3. CASE ArchiveFails(p) \/ CompactRewriteFails(p)
  <2>1. pc[p] = "archiving" /\ shard' = shard
    BY <1>3, FailedDomain
  <2>2. SUFFICES ASSUME NEW m \in Months, NEW i \in DOMAIN archive[m],
                        NEW e \in archive[m][i].lines
                 PROVE  e \in Archived' \cup shard'
    BY InArchive
  <2>3. CASE archive'[m] = archive[m]
    BY <2>2, <2>3, InArchive
  <2>4. CASE archive'[m] = RolledBack(p)[m]
    <3>1. CASE i \in DOMAIN archive'[m]
      BY <2>1, <2>2, <2>4, <3>1, RolledBackMembers, InArchive
    <3>2. CASE i \notin DOMAIN archive'[m]
      <4>1. archive[m][i] = WholeMember(OldOf(p, m))
        BY <2>1, <2>2, <2>4, <3>2, RolledBackMembers
      <4>2. QED
        BY <2>1, <2>2, <4>1, TouchedMonths DEF WholeMember
    <3>3. QED
      BY <3>1, <3>2
  <2>5. ASSUME NEW mem \in {TornMember, WholeMember(OldOf(p, m))},
               archive'[m] = Append(archive[m], mem)
        PROVE  e \in Archived' \cup shard'
    <3>1. archive[m] \in Seq(Member) /\ i \in 1..Len(archive[m])
      BY <2>2 DEF TypeOK
    <3>2. mem \in Member
      <4>1. TornMember \in Member
        BY DEF TornMember, Member
      <4>2. WholeMember(OldOf(p, m)) \in Member
        BY <2>1, TouchedMonths DEF WholeMember, Member, TypeOK
      <4>3. QED
        BY <4>1, <4>2
    <3>3. i \in DOMAIN archive'[m] /\ archive'[m][i] = archive[m][i]
      BY <2>5, <3>1, <3>2, AppendProperties
    <3>4. QED
      BY <2>2, <3>3, InArchive
  <2>6. QED
    BY <1>3, <2>3, <2>4, <2>5, FailedMonth
<1>4. CASE \E m \in Months : archive' = [archive EXCEPT ![m] = Append(@, TornMember)]
  <2>1. TornMember \in Member /\ TornMember.lines = {}
    BY DEF TornMember, Member
  <2>2. QED
    BY <1>4, <2>1, MemberAppended
<1>5. CASE pc[p] # "archiving"
  BY <1>1, <1>5, ArchiveSteps
<1>6. CASE pc[p] = "archiving"
  BY <1>1, <1>2, <1>3, <1>4, <1>6 DEF StepOf, Start, StartWrite, StartCompact, StartRedact,
     AcquireFails, Acquire, LockedStep, WriteStep, NextSeq, NextSeqFails, AppendLine,
     AppendGlued, AppendFails, PushRelease, Audit, Reply, CompactStep, CompactNothing,
     ReadFails, CompactRead, CompactRewrite, RedactStep, RedactNothing, RedactRead,
     RedactRewrite, RedactRewriteFails, Crash, At
<1>7. QED
  BY <1>5, <1>6

\* The unterminated last event becomes a line, unless it is glued to the next.
LEMMA TailStays ==
  ASSUME HInv, NEW p \in Procs, StepOf(p), ~AppendGlued(p)
  PROVE  IdsOf(tail) \subseteq IdsOf(Live')
<1> USE DEF HInv, Inv
<1>1. CASE tail \subseteq Live'
  BY <1>1 DEF IdsOf
<1>2. CASE RedactRewrite(p)
  <2>1. tail' = Scrubbed(tail)
    BY <1>2 DEF RedactRewrite, SnapInv
  <2>2. ASSUME NEW e \in tail PROVE Scrub(e) \in Live' /\ Scrub(e).id = e.id
    BY <2>1 DEF TypeOK, Event, Scrub, Scrubbed, Live
  <2>3. QED
    BY <2>2 DEF IdsOf
<1>3. CASE CompactRewrite(p)
  BY <1>1, <1>3 DEF CompactRewrite, SnapInv, Live
<1>4. CASE PartialLine(p)
  BY <1>1, <1>4 DEF PartialLine, WholeLine, Healed, Live
<1>5. CASE tail' = tail
  BY <1>1, <1>5 DEF Live
<1>6. QED
  BY <1>2, <1>3, <1>4, <1>5 DEF StepOf, Start, StartWrite, StartCompact, StartRedact,
     AcquireFails, Acquire, LockedStep, WriteStep, NextSeq, NextSeqFails, AppendLine,
     AppendFails, PartialLine, PushRelease, Audit, Reply, CompactStep, CompactNothing,
     ReadFails, CompactRead, ArchiveMonth, ArchiveFails, CompactRewriteFails, RedactStep,
     RedactNothing, RedactRead, RedactRewriteFails, Crash, file

LEMMA DiskGrows ==
  ASSUME "stat" \notin Faults, HInv, ArchInv, RollInv, NEW p \in Procs, StepOf(p), ~AppendGlued(p)
  PROVE  IdsOf(OnDisk) \subseteq IdsOf(OnDisk')
<1>1. IdsOf(shard) \subseteq IdsOf(shard' \cup Archived')
  BY LeaveSteps
<1>2. IdsOf(tail) \subseteq IdsOf(Live')
  BY TailStays
<1>3. Archived \subseteq Archived' \cup shard'
  BY ArchivedStays
<1>4. SUFFICES ASSUME NEW e \in OnDisk PROVE e.id \in IdsOf(OnDisk')
  BY DEF IdsOf
<1>5. CASE e \in shard
  BY <1>1, <1>5 DEF IdsOf, OnDisk, Live
<1>6. CASE e \in tail
  BY <1>2, <1>6 DEF IdsOf, OnDisk, Live
<1>7. CASE e \in Archived
  BY <1>3, <1>7 DEF IdsOf, OnDisk, Live
<1>8. QED
  BY <1>5, <1>6, <1>7 DEF OnDisk, Live

\* What the theorems below share: it is kept by every step.
KInv == HInv /\ ArchInv /\ RollInv /\ IdInv

LEMMA KInvInit == Init => KInv
<1>1. Init => OnDisk = {}
  BY InArchive DEF Init, OnDisk, Live
<1>2. QED
  BY <1>1, HInvInit DEF Init, KInv, ArchInv, RollInv, IdInv, Pending

LEMMA KInvStep == KInv /\ [Next]_vars => KInv'
<1> SUFFICES ASSUME KInv, [Next]_vars PROVE KInv'
  OBVIOUS
<1>1. HInv'
  BY HInvStep DEF KInv
<1>2. CASE \E p \in Procs : StepOf(p)
  BY <1>1, <1>2, ArchSteps, RollSteps, IdSteps DEF KInv
<1>3. CASE SeqFileDamaged \/ UNCHANGED vars
  <2>1. /\ pc' = pc /\ job' = job /\ born' = born /\ archive' = archive
        /\ OnDisk' = OnDisk /\ Archived' = Archived
    BY <1>3, SameDisk DEF SeqFileDamaged, vars, file
  <2>2. ArchInv'
    BY <2>1 DEF KInv, ArchInv
  <2>3. RollInv'
    BY <2>1 DEF KInv, RollInv, Touched, OldOf
  <2>4. IdInv'
    BY <2>1 DEF KInv, IdInv, Pending
  <2>5. QED
    BY <1>1, <2>2, <2>3, <2>4 DEF KInv
<1>4. QED
  BY <1>2, <1>3 DEF Next, StepOf

-------------------------------------------------------------------------------
(* Events whose writers do not know yet. *)

\* p's event was handed to the shard, and its writer has no answer yet.
Handed(p) == pc[p] \in {"appended", "released", "audited"}
InFlight(p) == Pending(p) \/ Handed(p)

FlightInv ==
  /\ born <= MaxEvents
  /\ \A i \in acked : i <= born
  /\ \A p \in Procs : InFlight(p) =>
       job[p].ev.id > 0 /\ job[p].ev.id <= born /\ job[p].ev.id \notin acked
  /\ \A p, q \in Procs : InFlight(p) /\ InFlight(q) /\ p # q =>
       job[p].ev.id # job[q].ev.id

\* How a process comes to have an event in flight.
LEMMA FlightBy ==
  ASSUME TypeOK, NEW p \in Procs, StepOf(p), InFlight(p)'
  PROVE  /\ acked' = acked
         /\ \/ InFlight(p) /\ job'[p].ev.id = job[p].ev.id
            \/ job'[p].ev.id = born + 1 /\ born' = born + 1
         /\ Handed(p)' => \/ Handed(p) /\ job'[p].ev = job[p].ev
                          \/ (AppendLine(p) \/ AppendGlued(p)) /\ job'[p].ev = job[p].ev
<1> USE DEF TypeOK, Goto
<1>0. job[p] \in Job
  OBVIOUS
<1>1. CASE \E kind \in OpKinds : StartWrite(p, kind)
  BY <1>1 DEF StartWrite, NoJob, NoDraft, Handed
<1>2. CASE (\E t \in Stamps : StartCompact(p, t + 1)) \/ StartRedact(p)
  BY <1>2 DEF StartCompact, StartRedact, InFlight, Handed, Pending, NoJob
<1>3. CASE Acquire(p)
  BY <1>3 DEF Acquire, InFlight, Handed, Pending
<1>4. CASE NextSeq(p)
  BY <1>0, <1>4 DEF NextSeq, InFlight, Handed, Pending, Job, Draft
<1>5. CASE AppendLine(p) \/ AppendGlued(p) \/ PushRelease(p) \/ Audit(p)
  BY <1>5 DEF AppendLine, AppendGlued, PushRelease, Audit, At, InFlight, Handed, Pending
<1>6. CASE CompactRead(p) \/ ArchiveMonth(p) \/ RedactRead(p)
  BY <1>6 DEF CompactRead, ArchiveMonth, RedactRead, InFlight, Handed, Pending
<1>7. CASE Done(p)
  BY <1>7 DEF Done, InFlight, Handed, Pending
<1>8. QED
  BY <1>1, <1>2, <1>3, <1>4, <1>5, <1>6, <1>7
     DEF StepOf, Start, AcquireFails, LockedStep, WriteStep, CompactStep, RedactStep,
         NextSeqFails, AppendFails, Reply, CompactNothing, ReadFails, ArchiveFails,
         CompactRewrite, CompactRewriteFails, RedactNothing, RedactRewrite,
         RedactRewriteFails, Crash

\* Only a reply acknowledges an event.
LEMMA AckedBy ==
  ASSUME TypeOK, NEW p \in Procs, StepOf(p)
  PROVE  \/ acked' = acked
         \/ /\ Reply(p) /\ pc[p] = "audited" /\ acked' = acked \cup {job[p].ev.id}
            /\ born' = born /\ audit' = audit /\ OnDisk' = OnDisk /\ faults' = faults
<1>1. CASE Reply(p)
  BY <1>1, SameDisk DEF Reply, bounds, file
<1>2. CASE ~Reply(p)
  BY <1>2 DEF StepOf, Start, StartWrite, StartCompact, StartRedact, AcquireFails, Acquire,
     LockedStep, WriteStep, NextSeq, NextSeqFails, AppendLine, AppendGlued, AppendFails,
     PushRelease, Audit, CompactStep, CompactNothing, ReadFails, CompactRead,
     ArchiveMonth, ArchiveFails, CompactRewrite, CompactRewriteFails, RedactStep,
     RedactNothing, RedactRead, RedactRewrite, RedactRewriteFails, Crash
<1>3. QED
  BY <1>1, <1>2

LEMMA FlightSteps ==
  ASSUME TypeOK, FlightInv, NEW p \in Procs, StepOf(p)
  PROVE  FlightInv'
<1>0. /\ born \in Nat /\ born' \in Nat /\ born <= born' /\ MaxEvents \in Nat
      /\ acked \subseteq Nat /\ \A q \in Procs : job[q].ev.id \in Nat
  BY BornSteps, WritersAssumption DEF TypeOK, Job, Draft
<1>1. born' <= MaxEvents
  <2>1. born' = born \/ (born < MaxEvents /\ born' = born + 1)
    BY DEF StepOf, Start, StartWrite, StartCompact, StartRedact, AcquireFails, Acquire,
     LockedStep, WriteStep, NextSeq, NextSeqFails, AppendLine, AppendGlued, AppendFails,
     PushRelease, Audit, Reply, CompactStep, CompactNothing, ReadFails, CompactRead,
     ArchiveMonth, ArchiveFails, CompactRewrite, CompactRewriteFails, RedactStep,
     RedactNothing, RedactRead, RedactRewrite, RedactRewriteFails, Crash, bounds
  <2>2. QED
    BY <1>0, <2>1 DEF FlightInv
<1>2. ASSUME NEW q \in Procs, q # p, InFlight(q)'
      PROVE  /\ InFlight(q) /\ job'[q].ev.id = job[q].ev.id
             /\ job[q].ev.id > 0 /\ job[q].ev.id <= born /\ job[q].ev.id \notin acked'
  <2>1. InFlight(q) /\ job'[q] = job[q]
    BY <1>2, OthersStill DEF InFlight, Pending, Handed
  <2>2. job[q].ev.id > 0 /\ job[q].ev.id <= born /\ job[q].ev.id \notin acked
    BY <2>1 DEF FlightInv
  <2>3. pc[p] = "audited" => job[p].ev.id # job[q].ev.id
    BY <1>2, <2>1 DEF FlightInv, InFlight, Handed
  <2>4. QED
    BY <2>1, <2>2, <2>3, AckedBy
<1>3. ASSUME InFlight(p)'
      PROVE  /\ job'[p].ev.id > 0 /\ job'[p].ev.id <= born' /\ job'[p].ev.id \notin acked'
             /\ \A q \in Procs : q # p /\ InFlight(q)' => job'[q].ev.id # job'[p].ev.id
  <2>1. acked' = acked
    BY <1>3, FlightBy
  <2>2. CASE InFlight(p) /\ job'[p].ev.id = job[p].ev.id
    BY <1>0, <1>2, <2>1, <2>2 DEF FlightInv
  <2>3. CASE job'[p].ev.id = born + 1 /\ born' = born + 1
    <3>1. born + 1 \notin acked
      BY <1>0 DEF FlightInv
    <3>2. QED
      BY <1>0, <1>2, <2>1, <2>3, <3>1
  <2>4. QED
    BY <1>3, <2>2, <2>3, FlightBy
<1>4. \A i \in acked' : i <= born'
  <2>1. \A i \in acked : i \in Nat /\ i <= born
    BY <1>0 DEF FlightInv
  <2>2. pc[p] = "audited" => job[p].ev.id <= born
    BY DEF FlightInv, InFlight, Handed
  <2>3. SUFFICES ASSUME NEW i \in acked' PROVE i <= born'
    OBVIOUS
  <2>4. i \in acked \/ (pc[p] = "audited" /\ i = job[p].ev.id)
    BY AckedBy
  <2>5. i \in Nat /\ i <= born
    BY <1>0, <2>1, <2>2, <2>4
  <2>6. QED
    BY <1>0, <2>5
<1>5. \A q \in Procs : InFlight(q)' =>
        job'[q].ev.id > 0 /\ job'[q].ev.id <= born' /\ job'[q].ev.id \notin acked'
  <2> SUFFICES ASSUME NEW q \in Procs, InFlight(q)'
               PROVE  job'[q].ev.id > 0 /\ job'[q].ev.id <= born' /\ job'[q].ev.id \notin acked'
    OBVIOUS
  <2>1. CASE q = p
    BY <1>3, <2>1
  <2>2. CASE q # p
    BY <1>0, <1>2, <2>2
  <2>3. QED
    BY <2>1, <2>2
<1>6. \A q, r \in Procs : InFlight(q)' /\ InFlight(r)' /\ q # r =>
        job'[q].ev.id # job'[r].ev.id
  <2> SUFFICES ASSUME NEW q \in Procs, NEW r \in Procs, InFlight(q)', InFlight(r)', q # r
               PROVE  job'[q].ev.id # job'[r].ev.id
    OBVIOUS
  <2>1. CASE q # p /\ r # p
    BY <1>2, <2>1 DEF FlightInv
  <2>2. CASE q = p \/ r = p
    BY <1>3, <2>2
  <2>3. QED
    BY <2>1, <2>2
<1>7. QED
  BY <1>1, <1>4, <1>5, <1>6 DEF FlightInv

-------------------------------------------------------------------------------
(* The audit. *)

AuditInv ==
  /\ audit \subseteq IdsOf(OnDisk)
  /\ \A p \in Procs : Handed(p) =>
       /\ job[p].ev.id \in IdsOf(OnDisk)
       /\ \A e \in OnDisk : e.mark = "hit" /\ e.id = job[p].ev.id => job[p].ev.mark = "hit"
       /\ faults = 0 /\ pc[p] = "audited" /\ job[p].ev.mark = "hit" => job[p].ev.id \in audit
  /\ faults = 0 => \A e \in OnDisk : e.mark = "hit" /\ e.id \in acked => e.id \in audit

\* A line in which a value was replaced was so when it was written.
LEMMA HitFromWhere ==
  ASSUME TypeOK, BaseInv, SnapInv, NEW p \in Procs, StepOf(p), NEW e \in OnDisk', e.mark = "hit"
  PROVE  e \in OnDisk \/ (pc[p] = "numbered" /\ e = Line(p))
<1>1. CASE e \in Archived'
  BY <1>1, ArchivedSteps DEF OnDisk, Live
<1>2. CASE e \in Live' /\ Live' = Scrubbed(Live)
  <2>1. Live \subseteq Event
    BY DEF TypeOK, Live
  <2>2. PICK d \in Live : e = Scrub(d)
    BY <1>2 DEF Scrubbed
  <2>3. e = d
    BY <2>1, <2>2 DEF Scrub, Event
  <2>4. QED
    BY <2>2, <2>3 DEF OnDisk
<1>3. CASE e \in Live' /\ Live' # Scrubbed(Live)
  BY <1>3, LiveSteps DEF OnDisk
<1>4. QED
  BY <1>1, <1>2, <1>3 DEF OnDisk

\* How a row comes into the audit.
LEMMA AuditBy ==
  ASSUME TypeOK, NEW p \in Procs, StepOf(p)
  PROVE  /\ faults \in Nat /\ (faults' = 0 => faults = 0)
         /\ audit' = audit \/ (Handed(p) /\ audit' = audit \cup AuditRow(p))
         /\ faults' = 0 /\ pc'[p] = "audited" =>
              /\ Handed(p) /\ job'[p].ev = job[p].ev /\ audit' = audit \cup AuditRow(p)
<1> USE DEF TypeOK
<1>1. CASE Audit(p)
  BY <1>1 DEF Audit, Fault, Handed, At, Goto
<1>2. CASE ~Audit(p)
  <2>0. ArchiveMonth(p) \/ ArchiveFails(p) \/ CompactRewriteFails(p) =>
          audit' = audit /\ (UNCHANGED faults \/ \E kind : Fault(kind))
    BY MonthSteps, FailedDomain DEF ArchiveMonth
  <2>1. audit' = audit /\ (UNCHANGED faults \/ \E kind : Fault(kind))
    BY <1>2, <2>0 DEF StepOf, Start, StartWrite, StartCompact, StartRedact, AcquireFails, Acquire,
     LockedStep, WriteStep, NextSeq, NextSeqFails, AppendLine, AppendGlued, AppendFails,
     PushRelease, Reply, CompactStep, CompactNothing, ReadFails, CompactRead,
     CompactRewrite, RedactStep,
     RedactNothing, RedactRead, RedactRewrite, RedactRewriteFails, Crash, bounds
  <2>2. faults' = 0 => faults = 0
    BY <2>1 DEF Fault
  <2>3. pc'[p] # "audited"
    <3> USE DEF Goto
    <3>1. CASE Start(p)
      BY <3>1 DEF Start, StartWrite, StartCompact, StartRedact, AcquireFails, Done
    <3>2. CASE Acquire(p)
      BY <3>2 DEF Acquire
    <3>3. CASE NextSeq(p) \/ CompactRead(p) \/ RedactRead(p)
      BY <3>3 DEF NextSeq, CompactRead, RedactRead
    <3>4. CASE AppendLine(p) \/ AppendGlued(p) \/ PushRelease(p)
      BY <3>4 DEF AppendLine, AppendGlued, PushRelease, At
    <3>5. CASE ArchiveMonth(p)
      BY <3>5 DEF ArchiveMonth
    <3>6. CASE Done(p)
      BY <3>6 DEF Done
    <3>7. QED
      BY <1>2, <3>1, <3>2, <3>3, <3>4, <3>5, <3>6
         DEF StepOf, LockedStep, WriteStep, CompactStep, RedactStep, NextSeqFails,
             AppendFails, Reply, CompactNothing, ReadFails, ArchiveFails, CompactRewrite,
             CompactRewriteFails, RedactNothing, RedactRewrite, RedactRewriteFails,
             Crash
  <2>4. QED
    BY <2>1, <2>2, <2>3
<1>3. QED
  BY <1>1, <1>2

LEMMA AuditSteps ==
  ASSUME "stat" \notin Faults, KInv, FlightInv, AuditInv, NEW p \in Procs, StepOf(p), ~AppendGlued(p)
  PROVE  AuditInv'
<1> USE DEF KInv, HInv, Inv
<1>0. IdsOf(OnDisk) \subseteq IdsOf(OnDisk')
  BY DiskGrows
<1>1. pc[p] = "numbered" => /\ Line(p).id = job[p].ev.id /\ Line(p).mark = job[p].ev.mark
                            /\ job[p].ev.id \notin IdsOf(OnDisk) /\ job[p].ev.id \notin acked
  BY DEF TypeOK, Line, Event, IdInv, FlightInv, Pending, InFlight, IdsOf
<1>2. \A e \in OnDisk' : e.mark = "hit" => e \in OnDisk \/ (pc[p] = "numbered" /\ e = Line(p))
  BY HitFromWhere
<1>3. audit' \subseteq IdsOf(OnDisk')
  <2>1. audit \subseteq IdsOf(OnDisk) /\ (Handed(p) => AuditRow(p) \subseteq IdsOf(OnDisk))
    BY DEF AuditInv, AuditRow
  <2>2. QED
    BY <1>0, <2>1, AuditBy
<1>4. ASSUME NEW q \in Procs, q # p, Handed(q)'
      PROVE  /\ job'[q].ev.id \in IdsOf(OnDisk')
             /\ \A e \in OnDisk' : e.mark = "hit" /\ e.id = job'[q].ev.id => job'[q].ev.mark = "hit"
             /\ faults' = 0 /\ pc'[q] = "audited" /\ job'[q].ev.mark = "hit" => job'[q].ev.id \in audit'
  <2>1. Handed(q) /\ job'[q] = job[q] /\ pc'[q] = pc[q]
    BY <1>4, OthersStill DEF Handed
  <2>2. pc[p] = "numbered" => job[p].ev.id # job[q].ev.id
    BY <1>4, <2>1 DEF FlightInv, InFlight, Pending
  <2>3. audit \subseteq audit' /\ (faults' = 0 => faults = 0)
    BY AuditBy
  <2>4. job[q].ev.id \in IdsOf(OnDisk')
    BY <1>0, <2>1 DEF AuditInv
  <2>5. \A e \in OnDisk' : e.mark = "hit" /\ e.id = job[q].ev.id => job[q].ev.mark = "hit"
    BY <1>1, <1>2, <2>1, <2>2 DEF AuditInv
  <2>6. QED
    BY <2>1, <2>3, <2>4, <2>5 DEF AuditInv
<1>5. ASSUME Handed(p)'
      PROVE  /\ job'[p].ev.id \in IdsOf(OnDisk')
             /\ \A e \in OnDisk' : e.mark = "hit" /\ e.id = job'[p].ev.id => job'[p].ev.mark = "hit"
             /\ faults' = 0 /\ pc'[p] = "audited" /\ job'[p].ev.mark = "hit" => job'[p].ev.id \in audit'
  <2>1. CASE AppendLine(p) /\ job'[p].ev = job[p].ev
    <3>1. pc[p] = "numbered" /\ Line(p) \in OnDisk' /\ pc'[p] = "appended"
      BY <2>1 DEF AppendLine, WholeLine, OnDisk, Live, Goto, TypeOK
    <3>2. job[p].ev.id \in IdsOf(OnDisk')
      BY <1>1, <3>1 DEF IdsOf
    <3>3. \A e \in OnDisk' : e.mark = "hit" /\ e.id = job[p].ev.id => job[p].ev.mark = "hit"
      BY <1>1, <1>2, <3>1 DEF IdsOf
    <3>4. QED
      BY <2>1, <3>1, <3>2, <3>3
  <2>2. CASE Handed(p) /\ job'[p].ev = job[p].ev
    <3>1. pc[p] # "numbered"
      BY <2>2 DEF Handed
    <3>2. job[p].ev.id \in IdsOf(OnDisk')
      BY <1>0, <2>2 DEF AuditInv
    <3>3. \A e \in OnDisk' : e.mark = "hit" /\ e.id = job[p].ev.id => job[p].ev.mark = "hit"
      BY <1>2, <2>2, <3>1 DEF AuditInv
    <3>4. faults' = 0 /\ pc'[p] = "audited" /\ job[p].ev.mark = "hit" => job[p].ev.id \in audit'
      BY AuditBy DEF AuditRow
    <3>5. QED
      BY <2>2, <3>2, <3>3, <3>4
  <2>3. QED
    BY <1>5, <2>1, <2>2, FlightBy DEF InFlight
<1>6. ASSUME faults' = 0, NEW e \in OnDisk', e.mark = "hit", e.id \in acked'
      PROVE  e.id \in audit'
  <2>1. audit \subseteq audit' /\ faults = 0
    BY <1>6, AuditBy
  <2>2. CASE acked' = acked
    BY <1>1, <1>2, <1>6, <2>1, <2>2 DEF AuditInv
  <2>3. CASE /\ pc[p] = "audited" /\ acked' = acked \cup {job[p].ev.id}
             /\ audit' = audit /\ OnDisk' = OnDisk
    BY <1>6, <2>1, <2>3 DEF AuditInv, Handed
  <2>4. QED
    BY <2>2, <2>3, AckedBy
<1>7. QED
  BY <1>3, <1>4, <1>5, <1>6 DEF AuditInv

LEMMA FlightInit == Init => FlightInv
BY WritersAssumption DEF Init, FlightInv, InFlight, Pending, Handed

LEMMA FlightStep == KInv /\ FlightInv /\ [Next]_vars => FlightInv'
<1> SUFFICES ASSUME KInv, FlightInv, [Next]_vars PROVE FlightInv'
  OBVIOUS
<1>1. CASE \E p \in Procs : StepOf(p)
  BY <1>1, FlightSteps DEF KInv, HInv, Inv
<1>2. CASE SeqFileDamaged \/ UNCHANGED vars
  BY <1>2 DEF SeqFileDamaged, vars, FlightInv, InFlight, Pending, Handed
<1>3. QED
  BY <1>1, <1>2 DEF Next, StepOf

LEMMA AuditStep ==
  ASSUME "tailread" \notin Faults, "stat" \notin Faults
  PROVE  KInv /\ FlightInv /\ AuditInv /\ [Next]_vars => AuditInv'
<1> SUFFICES ASSUME KInv, FlightInv, AuditInv, [Next]_vars PROVE AuditInv'
  OBVIOUS
<1>1. CASE \E p \in Procs : StepOf(p)
  <2>1. \A p \in Procs : ~AppendGlued(p)
    BY DEF AppendGlued, Fault
  <2>2. QED
    BY <1>1, <2>1, AuditSteps
<1>2. CASE SeqFileDamaged
  BY <1>2, SameDisk DEF SeqFileDamaged, Fault, file, KInv, HInv, Inv, TypeOK, AuditInv, Handed
<1>3. CASE UNCHANGED vars
  BY <1>3, SameDisk DEF vars, AuditInv, Handed
<1>4. QED
  BY <1>1, <1>2, <1>3 DEF Next, StepOf

\* While the last byte of the shard and the sizes of the archives can be read,
\* the audit names only events that are on disk, through failed writes, failed
\* rollbacks and kills; and while nothing has failed it names every
\* acknowledged event in which a value was replaced (event.AppendAudit after
\* shard.AppendLocked).
THEOREM AuditIsTrue ==
  ASSUME "tailread" \notin Faults, "stat" \notin Faults
  PROVE  Spec => []AuditTrue
<1>1. Init => AuditInv
  <2>1. Init => OnDisk = {}
    BY InArchive DEF Init, OnDisk, Live
  <2>2. QED
    BY <2>1 DEF Init, AuditInv, Handed
<1>2. AuditInv => AuditTrue
  BY DEF AuditInv, AuditTrue, OnDisk
<1>3. QED
  BY <1>1, <1>2, KInvInit, KInvStep, FlightInit, FlightStep, AuditStep, PTL DEF Spec

-------------------------------------------------------------------------------
(* One place for every event. *)

(* Ids identify the lines of the shard and the members of the archives; a   *)
(* member shares events with the shard only while its compaction is under   *)
(* way.                                                                     *)
PlaceInv ==
  /\ \A d, e \in Live : d.id = e.id => d = e
  /\ IdsOf(shard) \cap IdsOf(tail) = {}
  /\ \A m, n \in Months : \A i \in DOMAIN archive[m], j \in DOMAIN archive[n] :
       <<m, i>> # <<n, j>> =>
         IdsOf(archive[m][i].lines) \cap IdsOf(archive[n][j].lines) = {}
  /\ \A m \in Months : \A i \in DOMAIN archive[m] :
       \/ IdsOf(archive[m][i].lines) \cap IdsOf(Live) = {}
       \/ \E p \in Procs : pc[p] = "archiving" /\ m \in Touched(p) /\ i = Len(archive[m])

LEMMA IdFacts ==
  ASSUME NEW A, NEW B
  PROVE  /\ IdsOf(A \cup B) = IdsOf(A) \cup IdsOf(B)
         /\ A \subseteq B => IdsOf(A) \subseteq IdsOf(B)
         /\ IdsOf({}) = {} /\ \A x : IdsOf({x}) = {x.id}
         /\ A \subseteq Event => IdsOf(Scrubbed(A)) = IdsOf(A)
<1>1. ASSUME A \subseteq Event PROVE IdsOf(Scrubbed(A)) = IdsOf(A)
  <2>1. \A e \in A : Scrub(e).id = e.id
    BY <1>1 DEF Event, Scrub
  <2>2. QED
    BY <2>1 DEF IdsOf, Scrubbed
<1>2. QED
  BY <1>1 DEF IdsOf

\* What a step outside an archiving compaction does to the two parts of the file.
LEMMA PartSteps ==
  ASSUME TypeOK, SnapInv, NEW p \in Procs, StepOf(p), pc[p] # "archiving"
  PROVE  \/ shard' = shard /\ tail' = tail
         \/ shard' = Scrubbed(shard) /\ tail' = Scrubbed(tail)
         \/ /\ pc[p] = "numbered"
            /\ \/ tail' = {} /\ shard' \subseteq Live \cup {Line(p)}
               \/ tail' = {Line(p)} /\ shard' = Live
<1>1. CASE pc[p] \notin {"numbered", "rewriting"}
  BY <1>1, FileSteps
<1>2. CASE UNCHANGED file
  BY <1>2 DEF file
<1>3. CASE pc[p] = "numbered" /\ PartialLine(p)
  BY <1>3 DEF PartialLine, WholeLine, Healed, Live
<1>4. CASE AppendGlued(p)
  BY <1>4 DEF AppendGlued, Live
<1>5. CASE RedactRewrite(p)
  BY <1>5 DEF RedactRewrite, SnapInv
<1>6. CASE pc[p] \in {"numbered", "rewriting"}
  BY <1>2, <1>3, <1>4, <1>5, <1>6 DEF StepOf, Start, StartWrite, StartCompact,
     StartRedact, AcquireFails, Acquire, LockedStep, WriteStep, NextSeq, NextSeqFails,
     AppendLine, AppendFails, PartialLine, PushRelease, Audit, Reply, CompactStep,
     CompactNothing, ReadFails, CompactRead, ArchiveMonth, ArchiveFails, CompactRewrite,
     CompactRewriteFails, RedactStep, RedactNothing, RedactRead, RedactRewriteFails,
     Crash, At
<1>7. QED
  BY <1>1, <1>6

\* The members that share events with the shard are those of one compaction.
LEMMA SharedMembers ==
  ASSUME KInv, PlaceInv, NEW p \in Procs, pc[p] = "archiving",
         NEW m \in Months, NEW i \in DOMAIN archive[m]
  PROVE  \/ IdsOf(archive[m][i].lines) \cap IdsOf(Live) = {}
         \/ m \in Touched(p) /\ i = Len(archive[m]) /\ archive[m][i].lines = OldOf(p, m)
<1>1. \A q \in Procs : pc[q] = "archiving" => q = p
  BY DEF KInv, HInv, Inv, LockInv, Holding
<1>2. m \in Touched(p) => archive[m][Len(archive[m])].lines = OldOf(p, m)
  <2>1. m \in Touched(p) => archive[m][Len(archive[m])] = WholeMember(OldOf(p, m))
    BY DEF KInv, RollInv
  <2>2. WholeMember(OldOf(p, m)).lines = OldOf(p, m)
    BY DEF WholeMember
  <2>3. QED
    BY <2>1, <2>2
<1>3. QED
  BY <1>1, <1>2 DEF PlaceInv

\* The steps of a writer or of redact-shard, and a compaction's reading.
LEMMA PlaceFileSteps ==
  ASSUME KInv, PlaceInv, NEW p \in Procs, StepOf(p), pc[p] # "archiving"
  PROVE  PlaceInv'
<1> USE DEF KInv, HInv, Inv
<1>0. archive' = archive /\ shard \subseteq Event /\ tail \subseteq Event /\ Live \subseteq Event
  BY ArchiveSteps DEF TypeOK, Live
<1>1. pc[p] = "numbered" => /\ Line(p).id = job[p].ev.id
                            /\ job[p].ev.id \notin IdsOf(Live) /\ job[p].ev.id \notin IdsOf(Archived)
  BY DEF TypeOK, Line, Event, IdInv, Pending, IdsOf, OnDisk
<1>2. \A d, e \in Live' : d.id = e.id => d = e
  <2>1. SUFFICES ASSUME NEW d \in Live', NEW e \in Live', d.id = e.id PROVE d = e
    OBVIOUS
  <2>2. CASE Live' = Scrubbed(Live)
    <3>1. PICK c \in Live : d = Scrub(c)
      BY <2>2 DEF Scrubbed
    <3>2. PICK f \in Live : e = Scrub(f)
      BY <2>2 DEF Scrubbed
    <3>3. c.id = d.id /\ f.id = e.id
      BY <1>0, <3>1, <3>2 DEF Scrub, Event
    <3>4. QED
      BY <2>1, <3>1, <3>2, <3>3 DEF PlaceInv
  <2>3. CASE Live' \subseteq Live
    BY <2>1, <2>3 DEF PlaceInv
  <2>4. CASE pc[p] = "numbered" /\ Live' \subseteq Live \cup {Line(p)}
    BY <1>1, <2>1, <2>4 DEF PlaceInv, IdsOf
  <2>5. QED
    BY <2>2, <2>3, <2>4, LiveSteps
<1>3. IdsOf(shard') \cap IdsOf(tail') = {}
  <2>1. CASE shard' = shard /\ tail' = tail
    BY <2>1 DEF PlaceInv
  <2>2. CASE shard' = Scrubbed(shard) /\ tail' = Scrubbed(tail)
    BY <1>0, <2>2, IdFacts DEF PlaceInv
  <2>3. CASE tail' = {}
    BY <2>3, IdFacts
  <2>4. CASE pc[p] = "numbered" /\ tail' = {Line(p)} /\ shard' = Live
    <3>1. IdsOf(tail') = {job[p].ev.id}
      BY <1>1, <2>4, IdFacts
    <3>2. QED
      BY <1>1, <2>4, <3>1
  <2>5. QED
    BY <2>1, <2>2, <2>3, <2>4, PartSteps
<1>4. ASSUME NEW i \in IdsOf(Live'), i \in IdsOf(Archived) PROVE i \in IdsOf(Live)
  <2>1. CASE Live' = Scrubbed(Live)
    BY <1>0, <1>4, <2>1, IdFacts
  <2>2. CASE Live' \subseteq Live
    BY <1>4, <2>2, IdFacts
  <2>3. CASE pc[p] = "numbered" /\ Live' \subseteq Live \cup {Line(p)}
    <3>1. i \in IdsOf(Live) \cup {Line(p).id}
      BY <1>4, <2>3 DEF IdsOf
    <3>2. QED
      BY <1>1, <1>4, <2>3, <3>1
  <2>4. QED
    BY <2>1, <2>2, <2>3, LiveSteps
<1>5. ASSUME NEW m \in Months, NEW i \in DOMAIN archive'[m]
      PROVE  \/ IdsOf(archive'[m][i].lines) \cap IdsOf(Live') = {}
             \/ \E q \in Procs : pc'[q] = "archiving" /\ m \in Touched(q)' /\ i = Len(archive'[m])
  <2>1. CASE IdsOf(archive[m][i].lines) \cap IdsOf(Live) = {}
    <3>1. IdsOf(archive[m][i].lines) \subseteq IdsOf(Archived)
      <4>1. archive[m][i].lines \subseteq Archived
        BY <1>0, <1>5, InArchive
      <4>2. QED
        BY <4>1, IdFacts
    <3>2. QED
      BY <1>0, <1>4, <2>1, <3>1
  <2>2. ASSUME NEW q \in Procs, pc[q] = "archiving", m \in Touched(q), i = Len(archive[m])
        PROVE  pc'[q] = "archiving" /\ m \in Touched(q)' /\ i = Len(archive'[m])
    <3>1. q # p
      BY <2>2
    <3>2. pc'[q] = pc[q] /\ job'[q] = job[q]
      BY <3>1, OthersStill
    <3>3. QED
      BY <1>0, <2>2, <3>2 DEF Touched
  <2>3. QED
    BY <1>0, <1>5, <2>1, <2>2 DEF PlaceInv
<1>6. \A m, n \in Months : \A i \in DOMAIN archive'[m], j \in DOMAIN archive'[n] :
       <<m, i>> # <<n, j>> =>
         IdsOf(archive'[m][i].lines) \cap IdsOf(archive'[n][j].lines) = {}
  BY <1>0 DEF PlaceInv
<1>7. QED
  BY <1>2, <1>3, <1>5, <1>6 DEF PlaceInv

\* A compaction's next member: the months keep it apart from the others.
LEMMA PlaceArchiveMonth ==
  ASSUME KInv, PlaceInv, NEW p \in Procs, StepOf(p), ArchiveMonth(p)
  PROVE  PlaceInv'
<1> USE DEF KInv, HInv, Inv
<1>0. pc[p] = "archiving" /\ pc' = pc /\ shard' = shard /\ tail' = tail /\ Live' = Live
  BY DEF ArchiveMonth, file, Live
<1>1. PICK m \in Months :
        /\ NextMonth(p, m)
        /\ archive' = [archive EXCEPT ![m] = Append(@, WholeMember(OldOf(p, m)))]
        /\ \E size \in Nat : job' = [job EXCEPT ![p].todo = @ \ {m}, ![p].base[m] = size]
  <2>1. PICK m \in Months, size \in Nat :
          /\ NextMonth(p, m)
          /\ archive' = [archive EXCEPT ![m] = Append(@, WholeMember(OldOf(p, m)))]
          /\ job' = [job EXCEPT ![p].todo = @ \ {m}, ![p].base[m] = size]
          /\ size <= Len(archive[m])
          /\ "stat" \notin Faults => size = Len(archive[m])
    BY MonthSteps
  <2>2. QED
    BY <2>1
<1>2. /\ job'[p].todo = job[p].todo \ {m}
      /\ job'[p].snap = job[p].snap /\ job'[p].cut = job[p].cut
  BY <1>1 DEF TypeOK, Job
<1>3. m \in job[p].todo /\ m \notin Touched(p)
  BY <1>1 DEF NextMonth, Touched
<1>4. OldOf(p, m) \subseteq shard /\ IdsOf(OldOf(p, m)) \subseteq IdsOf(Live)
  <2>1. OldOf(p, m) \subseteq shard
    BY <1>0, TouchedMonths
  <2>2. QED
    BY <2>1 DEF IdsOf, Live
<1>5. /\ archive[m] \in Seq(Member) /\ Len(archive[m]) \in Nat
      /\ WholeMember(OldOf(p, m)) \in Member /\ WholeMember(OldOf(p, m)).lines = OldOf(p, m)
  <2>1. archive[m] \in Seq(Member)
    BY DEF TypeOK
  <2>2. Len(archive[m]) \in Nat
    BY <2>1, LenProperties
  <2>3. OldOf(p, m) \subseteq Event
    BY <1>4 DEF TypeOK
  <2>4. QED
    BY <2>1, <2>2, <2>3 DEF WholeMember, Member
<1>6. /\ DOMAIN archive[m] = 1..Len(archive[m])
      /\ DOMAIN archive'[m] = 1..(Len(archive[m]) + 1)
      /\ \A i \in DOMAIN archive[m] : archive'[m][i] = archive[m][i]
      /\ archive'[m][Len(archive[m]) + 1] = WholeMember(OldOf(p, m))
      /\ \A n \in Months : n # m => archive'[n] = archive[n]
  <2>1. archive'[m] = Append(archive[m], WholeMember(OldOf(p, m)))
    BY <1>1 DEF TypeOK
  <2>2. \A n \in Months : n # m => archive'[n] = archive[n]
    BY <1>1 DEF TypeOK
  <2>3. QED
    BY <1>5, <2>1, <2>2, AppendProperties
<1>7. ASSUME NEW n \in Months, NEW j \in DOMAIN archive'[n],
             <<n, j>> # <<m, Len(archive[m]) + 1>>
      PROVE  j \in DOMAIN archive[n] /\ archive'[n][j] = archive[n][j]
  <2>1. CASE n # m
    BY <1>6, <1>7, <2>1
  <2>2. CASE n = m
    BY <1>5, <1>6, <1>7, <2>2
  <2>3. QED
    BY <2>1, <2>2
<1>8. ASSUME NEW n \in Months, NEW j \in DOMAIN archive[n]
      PROVE  IdsOf(archive[n][j].lines) \cap IdsOf(OldOf(p, m)) = {}
  <2>1. CASE IdsOf(archive[n][j].lines) \cap IdsOf(Live) = {}
    BY <1>4, <2>1
  <2>2. CASE n \in Touched(p) /\ archive[n][j].lines = OldOf(p, n)
    <3>1. SUFFICES ASSUME NEW d \in OldOf(p, n), NEW e \in OldOf(p, m), d.id = e.id
                   PROVE  FALSE
      BY <2>2 DEF IdsOf
    <3>2. d \in Live /\ e \in Live
      BY <1>0, <3>1, TouchedMonths DEF Live
    <3>3. d = e
      BY <3>1, <3>2 DEF PlaceInv
    <3>4. n = m
      BY <3>1, <3>3 DEF OldOf
    <3>5. QED
      BY <1>3, <2>2, <3>4
  <2>3. QED
    BY <1>0, <1>8, <2>1, <2>2, SharedMembers
<1>9. ASSUME NEW n \in Months, NEW j \in DOMAIN archive'[n]
      PROVE  \/ IdsOf(archive'[n][j].lines) \cap IdsOf(Live') = {}
             \/ \E q \in Procs : pc'[q] = "archiving" /\ n \in Touched(q)' /\ j = Len(archive'[n])
  <2>1. CASE <<n, j>> = <<m, Len(archive[m]) + 1>>
    <3>1. CASE m \in MonthsOf(Old(job[p].snap, job[p].cut))
      <4>1. m \in Touched(p)'
        BY <1>2, <3>1 DEF Touched
      <4>2. Len(archive'[m]) = Len(archive[m]) + 1
        BY <1>1, <1>5, AppendProperties DEF TypeOK
      <4>3. QED
        BY <1>0, <2>1, <4>1, <4>2
    <3>2. CASE m \notin MonthsOf(Old(job[p].snap, job[p].cut))
      <4>1. OldOf(p, m) = {}
        BY <3>2 DEF OldOf, MonthsOf
      <4>2. QED
        BY <1>5, <1>6, <2>1, <4>1 DEF IdsOf
    <3>3. QED
      BY <3>1, <3>2
  <2>2. CASE <<n, j>> # <<m, Len(archive[m]) + 1>>
    <3>1. j \in DOMAIN archive[n] /\ archive'[n][j] = archive[n][j]
      BY <1>7, <1>9, <2>2
    <3>2. CASE IdsOf(archive[n][j].lines) \cap IdsOf(Live) = {}
      BY <1>0, <3>1, <3>2
    <3>3. CASE n \in Touched(p) /\ j = Len(archive[n])
      <4>1. n # m /\ n \in Touched(p)'
        BY <1>2, <1>3, <3>3 DEF Touched
      <4>2. QED
        BY <1>0, <1>6, <3>3, <4>1
    <3>4. QED
      BY <1>0, <3>1, <3>2, <3>3, SharedMembers
  <2>3. QED
    BY <2>1, <2>2
<1>10. ASSUME NEW n \in Months, NEW k \in Months,
              NEW i \in DOMAIN archive'[n], NEW j \in DOMAIN archive'[k],
              <<n, i>> # <<k, j>>
       PROVE  IdsOf(archive'[n][i].lines) \cap IdsOf(archive'[k][j].lines) = {}
  <2>1. CASE <<n, i>> = <<m, Len(archive[m]) + 1>>
    <3>1. archive'[n][i].lines = OldOf(p, m)
      BY <1>5, <1>6, <2>1
    <3>2. j \in DOMAIN archive[k] /\ archive'[k][j] = archive[k][j]
      BY <1>7, <1>10, <2>1
    <3>3. QED
      BY <1>8, <3>1, <3>2
  <2>2. CASE <<k, j>> = <<m, Len(archive[m]) + 1>>
    <3>1. archive'[k][j].lines = OldOf(p, m)
      BY <1>5, <1>6, <2>2
    <3>2. i \in DOMAIN archive[n] /\ archive'[n][i] = archive[n][i]
      BY <1>7, <1>10, <2>2
    <3>3. QED
      BY <1>8, <3>1, <3>2
  <2>3. CASE <<n, i>> # <<m, Len(archive[m]) + 1>> /\ <<k, j>> # <<m, Len(archive[m]) + 1>>
    <3>1. /\ i \in DOMAIN archive[n] /\ archive'[n][i] = archive[n][i]
          /\ j \in DOMAIN archive[k] /\ archive'[k][j] = archive[k][j]
      BY <1>7, <1>10, <2>3
    <3>2. QED
      BY <1>10, <3>1 DEF PlaceInv
  <2>4. QED
    BY <2>1, <2>2, <2>3
<1>11. (\A d, e \in Live' : d.id = e.id => d = e) /\ IdsOf(shard') \cap IdsOf(tail') = {}
  BY <1>0 DEF PlaceInv
<1>12. QED
  BY <1>9, <1>10, <1>11 DEF PlaceInv

\* A failed compaction takes back what it shared with the shard.
LEMMA PlaceRolledBack ==
  ASSUME "undo" \notin Faults, KInv, PlaceInv, NEW p \in Procs,
         ArchiveFails(p) \/ CompactRewriteFails(p)
  PROVE  PlaceInv'
<1> USE DEF KInv, HInv, Inv
<1>0. pc[p] = "archiving" /\ shard' = shard /\ tail' = tail
  BY FailedDomain
<1>1. ASSUME NEW m \in Months, NEW i \in DOMAIN archive'[m]
      PROVE  /\ i \in DOMAIN archive[m] /\ archive'[m][i] = archive[m][i]
             /\ m \in Touched(p) => i # Len(archive[m])
  <2>1. archive'[m] = RolledBack(p)[m]
    BY <1>1, FailedRolledBack
  <2>2. QED
    BY <1>0, <1>1, <2>1, RolledBackMembers
<1>2. Live' = Live
  BY <1>0 DEF Live
<1>3. ASSUME NEW m \in Months, NEW i \in DOMAIN archive'[m]
      PROVE  IdsOf(archive'[m][i].lines) \cap IdsOf(Live') = {}
  BY <1>0, <1>1, <1>2, <1>3, SharedMembers
<1>4. ASSUME NEW m \in Months, NEW n \in Months,
             NEW i \in DOMAIN archive'[m], NEW j \in DOMAIN archive'[n],
             <<m, i>> # <<n, j>>
      PROVE  IdsOf(archive'[m][i].lines) \cap IdsOf(archive'[n][j].lines) = {}
  <2>1. /\ i \in DOMAIN archive[m] /\ archive'[m][i] = archive[m][i]
        /\ j \in DOMAIN archive[n] /\ archive'[n][j] = archive[n][j]
    BY <1>1
  <2>2. QED
    BY <1>4, <2>1 DEF PlaceInv
<1>5. QED
  BY <1>0, <1>2, <1>3, <1>4 DEF PlaceInv

\* A compaction's rewrite drops what it shared with the archives.
LEMMA PlaceRewritten ==
  ASSUME KInv, PlaceInv, NEW p \in Procs, StepOf(p), CompactRewrite(p)
  PROVE  PlaceInv'
<1> USE DEF KInv, HInv, Inv
<1>1. /\ pc[p] = "archiving" /\ archive' = archive /\ tail' = tail
      /\ shard' = shard \ Old(job[p].snap, job[p].cut)
      /\ Old(job[p].snap, job[p].cut) \subseteq shard
  BY DEF CompactRewrite, SnapInv, Old
<1>2. Live' \subseteq Live
  BY <1>1 DEF Live
<1>3. ASSUME NEW m \in Months, NEW i \in DOMAIN archive'[m]
      PROVE  IdsOf(archive'[m][i].lines) \cap IdsOf(Live') = {}
  <2>1. CASE IdsOf(archive[m][i].lines) \cap IdsOf(Live) = {}
    BY <1>1, <1>2, <2>1, IdFacts
  <2>2. CASE archive[m][i].lines = OldOf(p, m)
    <3>1. SUFFICES ASSUME NEW d \in OldOf(p, m), NEW e \in Live', d.id = e.id
                   PROVE  FALSE
      BY <1>1, <2>2 DEF IdsOf
    <3>2. d \in Old(job[p].snap, job[p].cut) /\ d \in shard
      BY <1>1, <3>1 DEF OldOf
    <3>3. d = e
      BY <1>2, <3>1, <3>2 DEF PlaceInv, Live
    <3>4. d \in tail
      BY <1>1, <3>1, <3>2, <3>3 DEF Live
    <3>5. QED
      BY <3>2, <3>4 DEF PlaceInv, IdsOf
  <2>3. QED
    BY <1>1, <1>3, <2>1, <2>2, SharedMembers
<1>4. \A d, e \in Live' : d.id = e.id => d = e
  BY <1>2 DEF PlaceInv
<1>5. IdsOf(shard') \cap IdsOf(tail') = {}
  <2>1. shard' \subseteq shard
    BY <1>1
  <2>2. IdsOf(shard') \subseteq IdsOf(shard)
    BY <2>1, IdFacts
  <2>3. QED
    BY <1>1, <2>2 DEF PlaceInv
<1>6. \A m, n \in Months : \A i \in DOMAIN archive'[m], j \in DOMAIN archive'[n] :
       <<m, i>> # <<n, j>> =>
         IdsOf(archive'[m][i].lines) \cap IdsOf(archive'[n][j].lines) = {}
  BY <1>1 DEF PlaceInv
<1>7. QED
  BY <1>3, <1>4, <1>5, <1>6 DEF PlaceInv

\* What a process that is archiving does next, unless it is killed.
LEMMA ArchivingDoes ==
  ASSUME NEW p \in Procs, StepOf(p), ~Crash(p), pc[p] = "archiving"
  PROVE  \/ ArchiveMonth(p) \/ CompactRewrite(p)
         \/ ArchiveFails(p) \/ CompactRewriteFails(p)
BY DEF StepOf, Start, StartWrite, StartCompact, StartRedact, AcquireFails, Acquire,
   LockedStep, WriteStep, NextSeq, NextSeqFails, AppendLine, AppendGlued, AppendFails,
   PushRelease, Audit, Reply, CompactStep, CompactNothing, ReadFails, CompactRead,
   RedactStep, RedactNothing, RedactRead, RedactRewrite, RedactRewriteFails, At

LEMMA PlaceInit == Init => PlaceInv
<1> SUFFICES ASSUME Init PROVE PlaceInv
  OBVIOUS
<1>1. Live = {} /\ shard = {} /\ \A m \in Months : DOMAIN archive[m] = {}
  BY DEF Init, Live
<1>2. QED
  BY <1>1 DEF PlaceInv, IdsOf

LEMMA PlaceStep ==
  ASSUME "crash" \notin Faults, "undo" \notin Faults
  PROVE  KInv /\ PlaceInv /\ [Next]_vars => PlaceInv'
<1> SUFFICES ASSUME KInv, PlaceInv, [Next]_vars PROVE PlaceInv'
  OBVIOUS
<1>1. CASE \E p \in Procs : StepOf(p)
  <2>1. PICK p \in Procs : StepOf(p)
    BY <1>1
  <2>2. ~Crash(p)
    BY DEF Crash, Fault
  <2>3. CASE pc[p] # "archiving"
    BY <2>1, <2>3, PlaceFileSteps
  <2>4. CASE ArchiveMonth(p)
    BY <2>1, <2>4, PlaceArchiveMonth
  <2>5. CASE CompactRewrite(p)
    BY <2>1, <2>5, PlaceRewritten
  <2>6. CASE ArchiveFails(p) \/ CompactRewriteFails(p)
    BY <2>6, PlaceRolledBack
  <2>7. QED
    BY <2>1, <2>2, <2>3, <2>4, <2>5, <2>6, ArchivingDoes
<1>2. CASE SeqFileDamaged \/ UNCHANGED vars
  <2>1. /\ shard' = shard /\ tail' = tail /\ archive' = archive /\ pc' = pc /\ job' = job
        /\ Live' = Live
    BY <1>2, SameDisk DEF SeqFileDamaged, vars, file
  <2>2. QED
    BY <2>1 DEF PlaceInv, Touched
<1>3. QED
  BY <1>1, <1>2 DEF Next, StepOf

\* Unless a compaction is under way no event is in two places, the shard and an
\* archive or two members of the archives, whichever step of a compaction
\* failed: its rollback takes out what it had archived (compact.go).  Not so
\* after a kill, or when the rollback itself fails.
THEOREM EveryEventInOnePlace ==
  ASSUME "crash" \notin Faults, "undo" \notin Faults
  PROVE  Spec => []OnePlace
<1>1. PlaceInv => OnePlace
  <2> SUFFICES ASSUME PlaceInv, ~Compacting
               PROVE  IdsOf(Live) \cap IdsOf(Archived) = {}
    BY DEF PlaceInv, OnePlace
  <2>1. SUFFICES ASSUME NEW d \in Live, NEW e \in Archived, d.id = e.id PROVE FALSE
    BY DEF IdsOf
  <2>2. PICK m \in Months : \E i \in DOMAIN archive[m] : e \in archive[m][i].lines
    BY <2>1, InArchive
  <2>3. PICK i \in DOMAIN archive[m] : e \in archive[m][i].lines
    BY <2>2
  <2>4. IdsOf(archive[m][i].lines) \cap IdsOf(Live) = {}
    BY <2>3 DEF PlaceInv, Compacting
  <2>5. QED
    BY <2>1, <2>3, <2>4 DEF IdsOf
<1>2. KInv /\ PlaceInv /\ [Next]_vars => KInv' /\ PlaceInv'
  BY KInvStep, PlaceStep
<1>3. QED
  BY <1>1, <1>2, KInvInit, PlaceInit, PTL DEF Spec

-------------------------------------------------------------------------------
(* The host's files implement the event store. *)

\* No archive holds a broken member.
WholeInv == \A m \in Months : \A i \in DOMAIN archive[m] : archive[m][i].whole

LEMMA WholeSteps ==
  ASSUME "undo" \notin Faults, KInv, WholeInv, NEW p \in Procs, StepOf(p), ~Crash(p)
  PROVE  WholeInv'
<1> USE DEF KInv, HInv, Inv
<1>1. CASE archive' = archive
  BY <1>1 DEF WholeInv
<1>2. CASE ArchiveMonth(p)
  <2>1. PICK m \in Months : archive' = [archive EXCEPT ![m] = Append(@, WholeMember(OldOf(p, m)))]
    BY <1>2, MonthSteps
  <2>2. pc[p] = "archiving"
    BY <1>2 DEF ArchiveMonth
  <2>3. WholeMember(OldOf(p, m)) \in Member /\ WholeMember(OldOf(p, m)).whole
    BY <2>2, TouchedMonths DEF WholeMember, Member, TypeOK
  <2>4. archive[m] \in Seq(Member) /\ archive'[m] = Append(archive[m], WholeMember(OldOf(p, m)))
    BY <2>1 DEF TypeOK
  <2>5. \A n \in Months : n # m => archive'[n] = archive[n]
    BY <2>1 DEF TypeOK
  <2>6. \A i \in DOMAIN archive'[m] : archive'[m][i].whole
    <3>1. ASSUME NEW i \in DOMAIN archive'[m] PROVE archive'[m][i].whole
      <4>1. i \in 1..(Len(archive[m]) + 1)
        BY <2>3, <2>4, <3>1, AppendProperties
      <4>2. CASE i = Len(archive[m]) + 1
        BY <2>3, <2>4, <4>2, AppendProperties
      <4>3. CASE i # Len(archive[m]) + 1
        <5>1. i \in 1..Len(archive[m])
          BY <2>4, <4>1, <4>3, LenProperties
        <5>2. i \in DOMAIN archive[m] /\ archive'[m][i] = archive[m][i]
          BY <2>3, <2>4, <5>1, AppendProperties, LenProperties
        <5>3. QED
          BY <5>2 DEF WholeInv
      <4>4. QED
        BY <4>2, <4>3
    <3>2. QED
      BY <3>1
  <2>7. QED
    BY <2>5, <2>6 DEF WholeInv
<1>3. CASE ArchiveFails(p) \/ CompactRewriteFails(p)
  <2>1. ASSUME NEW m \in Months, NEW i \in DOMAIN archive'[m]
        PROVE  i \in DOMAIN archive[m] /\ archive'[m][i] = archive[m][i]
    <3>1. archive'[m] = RolledBack(p)[m]
      BY <2>1, <1>3, FailedRolledBack
    <3>2. pc[p] = "archiving"
      BY <1>3, FailedDomain
    <3>3. QED
      BY <2>1, <3>1, <3>2, RolledBackMembers
  <2>2. QED
    BY <2>1 DEF WholeInv
<1>4. CASE CompactRewrite(p)
  BY <1>1, <1>4 DEF CompactRewrite
<1>5. QED
  BY <1>1, <1>2, <1>3, <1>4, ArchivingDoes, ArchiveSteps

LEMMA WholeStep ==
  ASSUME "crash" \notin Faults, "undo" \notin Faults
  PROVE  KInv /\ WholeInv /\ [Next]_vars => WholeInv'
<1> SUFFICES ASSUME KInv, WholeInv, [Next]_vars PROVE WholeInv'
  OBVIOUS
<1>1. CASE \E p \in Procs : StepOf(p)
  BY <1>1, WholeSteps DEF Crash, Fault
<1>2. CASE SeqFileDamaged \/ UNCHANGED vars
  BY <1>2 DEF SeqFileDamaged, vars, WholeInv
<1>3. QED
  BY <1>1, <1>2 DEF Next, StepOf

\* Where no member is broken zcat reads them all.
LEMMA NothingHidden == TypeOK /\ WholeInv => Readable = OnDisk
<1> SUFFICES ASSUME TypeOK, WholeInv PROVE Readable = OnDisk
  OBVIOUS
<1>1. ASSUME NEW m \in Months PROVE ReadableIn(m) = ArchivedIn(m)
  <2>1. archive[m] \in Seq(Member)
    BY DEF TypeOK
  <2>2. DOMAIN archive[m] = 1..Len(archive[m]) /\ Len(archive[m]) \in Nat
    BY <2>1, LenProperties
  <2>3. \A k \in DOMAIN archive[m] : \A j \in 1..k : archive[m][j].whole
    BY <2>2 DEF WholeInv
  <2>4. QED
    BY <2>3 DEF ReadableIn, ArchivedIn, MembersOf
<1>2. UNION {ReadableIn(m) : m \in Months} = UNION {ArchivedIn(m) : m \in Months}
  BY <1>1
<1>3. QED
  BY <1>2 DEF Readable, OnDisk, Archived

\* A step leaves the ids on disk as they are or adds the one in hand.
LEMMA DiskSteps ==
  ASSUME "stat" \notin Faults, KInv, NEW p \in Procs, StepOf(p), ~AppendGlued(p)
  PROVE  \/ IdsOf(OnDisk') = IdsOf(OnDisk)
         \/ /\ pc[p] = "numbered"
            /\ IdsOf(OnDisk') = IdsOf(OnDisk) \cup {job[p].ev.id}
<1> USE DEF KInv, HInv, Inv
<1>1. IdsOf(OnDisk) \subseteq IdsOf(OnDisk')
  BY DiskGrows
<1>2. pc[p] = "numbered" => Line(p).id = job[p].ev.id
  BY DEF TypeOK, Line, Event
<1>3. ASSUME NEW i \in IdsOf(OnDisk')
      PROVE  i \in IdsOf(OnDisk) \/ (pc[p] = "numbered" /\ i = job[p].ev.id)
  <2>1. PICK e \in OnDisk' : i = e.id
    BY <1>3 DEF IdsOf
  <2>2. QED
    BY <1>2, <2>1, FromWhere DEF IdsOf
<1>4. QED
  BY <1>1, <1>3

LEMMA StoreSteps ==
  ASSUME "stat" \notin Faults, KInv, FlightInv, AuditInv, NEW p \in Procs, StepOf(p), ~AppendGlued(p)
  PROVE  \/ IdsOf(OnDisk') = IdsOf(OnDisk) /\ acked' = acked
         \/ \E i \in 1..MaxEvents :
              \/ IdsOf(OnDisk') = IdsOf(OnDisk) \cup {i} /\ acked' = acked
              \/ i \in IdsOf(OnDisk) /\ acked' = acked \cup {i} /\ IdsOf(OnDisk') = IdsOf(OnDisk)
<1> USE DEF KInv, HInv, Inv
<1>1. InFlight(p) => job[p].ev.id \in 1..MaxEvents
  <2>1. job[p].ev.id \in Nat /\ born \in Nat /\ MaxEvents \in Nat
    BY WritersAssumption DEF TypeOK, Job, Draft
  <2>2. QED
    BY <2>1 DEF FlightInv
<1>2. CASE pc[p] = "numbered" /\ acked' = acked
  <2>1. InFlight(p)
    BY <1>2 DEF InFlight, Pending
  <2>2. QED
    BY <1>1, <1>2, <2>1, DiskSteps
<1>3. CASE pc[p] # "numbered" /\ acked' = acked
  BY <1>3, DiskSteps
<1>4. CASE pc[p] = "audited" /\ acked' = acked \cup {job[p].ev.id} /\ OnDisk' = OnDisk
  <2>1. Handed(p) /\ InFlight(p)
    BY <1>4 DEF InFlight, Handed
  <2>2. job[p].ev.id \in IdsOf(OnDisk)
    BY <2>1 DEF AuditInv
  <2>3. QED
    BY <1>1, <1>4, <2>1, <2>2
<1>5. QED
  BY <1>2, <1>3, <1>4, AckedBy

\* The shard and its archives, read together, implement the event store: what
\* is in the log stays there through appends, failed writes, compactions and
\* redactions, and only what is in it is acknowledged -- as long as no process
\* is killed, the last byte of the shard and the sizes of the archives can be
\* read, and no rollback fails.
THEOREM WritersImplementStore ==
  ASSUME "crash" \notin Faults, "undo" \notin Faults,
         "tailread" \notin Faults, "stat" \notin Faults
  PROVE  Spec => ImplementsStore
<1> DEFINE I == KInv /\ FlightInv /\ AuditInv /\ WholeInv
<1>1. Init => I /\ Store!SInit
  <2> SUFFICES ASSUME Init PROVE I /\ Store!SInit
    OBVIOUS
  <2>1. OnDisk = {}
    BY InArchive DEF Init, OnDisk, Live
  <2>2. KInv /\ FlightInv /\ WholeInv
    BY KInvInit, FlightInit DEF Init, WholeInv
  <2>3. AuditInv
    BY <2>1 DEF Init, AuditInv, Handed
  <2>4. Readable = OnDisk
    BY <2>2, NothingHidden DEF KInv, HInv, Inv
  <2>5. IdsOf(Readable) = {} /\ acked = {}
    BY <2>1, <2>4 DEF IdsOf, Init
  <2>6. QED
    BY <2>2, <2>3, <2>5 DEF Store!SInit
<1>2. I /\ [Next]_vars => I'
  <2>1. ASSUME I, [Next]_vars PROVE I'
    BY <2>1, KInvStep, FlightStep, WholeStep, AuditStep
  <2>2. QED
    BY <2>1
<1>3. (I => Readable = OnDisk) /\ (I' => Readable' = OnDisk')
  <2>1. I => Readable = OnDisk
    BY NothingHidden DEF KInv, HInv, Inv
  <2>2. (TypeOK /\ WholeInv => Readable = OnDisk)'
    BY NothingHidden, PTL
  <2>3. I' => Readable' = OnDisk'
    BY <2>2 DEF KInv, HInv, Inv
  <2>4. QED
    BY <2>1, <2>3
<1>4. I /\ I' /\ [Next]_vars => [Store!SNext]_(Store!svars)
  <2> SUFFICES ASSUME I, I', [Next]_vars PROVE [Store!SNext]_(Store!svars)
    OBVIOUS
  <2>1. IdsOf(Readable) = IdsOf(OnDisk) /\ IdsOf(Readable') = IdsOf(OnDisk')
    BY <1>3
  <2>2. \/ IdsOf(OnDisk') = IdsOf(OnDisk) /\ acked' = acked
        \/ \E i \in 1..MaxEvents :
             \/ IdsOf(OnDisk') = IdsOf(OnDisk) \cup {i} /\ acked' = acked
             \/ i \in IdsOf(OnDisk) /\ acked' = acked \cup {i} /\ IdsOf(OnDisk') = IdsOf(OnDisk)
    <3>1. CASE \E p \in Procs : StepOf(p)
      <4>1. \A p \in Procs : ~AppendGlued(p)
        BY DEF AppendGlued, Fault
      <4>2. QED
        BY <3>1, <4>1, StoreSteps
    <3>2. CASE SeqFileDamaged \/ UNCHANGED vars
      BY <3>2, SameDisk DEF SeqFileDamaged, vars, file
    <3>3. QED
      BY <3>1, <3>2 DEF Next, StepOf
  <2>3. QED
    BY <2>1, <2>2 DEF Store!SNext, Store!SWrite, Store!SAck, Store!svars, IdsOf
<1>5. QED
  BY <1>1, <1>2, <1>4, PTL DEF Spec, ImplementsStore, Store!SSpec
===============================================================================
