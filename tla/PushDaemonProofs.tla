---------------------------- MODULE PushDaemonProofs ----------------------------
(***************************************************************************)
(* POST /push, for every set of ULIDs, handlers and faults: what the       *)
(* daemon reported written stays on disk, a retried event is appended once *)
(* while the lookup can see the disk, and an answered one can be queried.  *)
(*                                                                         *)
(* The argument: between pushMu and the answer a handler is alone (MuInv), *)
(* so what its lookup found is still true when it appends (OnceInv); and a *)
(* complete line never leaves the disk, so a handler that has a success in *)
(* hand finds its event there whatever the others do (ReadInv).            *)
(***************************************************************************)
EXTENDS PushDaemon, TLAPS

-------------------------------------------------------------------------------
(* Files as counts of lines. *)

LEMMA NamesApart ==
  /\ Cli \in Lines /\ Ids \subseteq Lines /\ NoLine \notin Lines
  /\ Cli \notin Ids /\ NoLine \notin Ids /\ Cli # NoLine
BY PushAssumption DEF Lines, Cli, NoLine

\* The newline turns the unterminated line into a complete one.
LEMMA HealedCounts ==
  ASSUME TypeOK
  PROVE  /\ Healed \in [Lines -> Nat]
         /\ \A l \in Lines : Healed[l] = shard[l] + (IF tail = l THEN 1 ELSE 0)
BY NamesApart DEF TypeOK, Healed

LEMMA HealedCountsNext ==
  ASSUME TypeOK'
  PROVE  \A l \in Lines : Healed'[l] = shard'[l] + (IF tail' = l THEN 1 ELSE 0)
BY NamesApart DEF TypeOK, Healed

LEMMA WholeLineAdds ==
  ASSUME TypeOK, NEW i \in Lines, WholeLine(i)
  PROVE  /\ shard' \in [Lines -> Nat] /\ tail' = NoLine
         /\ \A l \in Lines : shard'[l] = Healed[l] + (IF l = i THEN 1 ELSE 0)
BY HealedCounts DEF WholeLine

LEMMA FaultCounts ==
  ASSUME TypeOK, NEW kind, Fault(kind)
  PROVE  /\ faults' \in [n : Nat, kinds : SUBSET Blinding]
         /\ faults.kinds \subseteq faults'.kinds
         /\ kind \in Blinding => kind \in faults'.kinds
<1>1. faults.n \in Nat /\ faults.kinds \subseteq Blinding
  BY DEF TypeOK
<1>2. faults' = [n |-> faults.n + 1, kinds |-> faults.kinds \cup ({kind} \cap Blinding)]
  BY DEF Fault
<1>3. faults'.kinds = faults.kinds \cup ({kind} \cap Blinding) /\ faults'.n = faults.n + 1
  BY <1>2
<1>4. faults.kinds \cup ({kind} \cap Blinding) \in SUBSET Blinding /\ faults.n + 1 \in Nat
  BY <1>1
<1>5. faults' \in [n : Nat, kinds : SUBSET Blinding]
  BY <1>2, <1>4
<1>6. QED
  BY <1>3, <1>5

\* What an append may leave behind that does not succeed.
LEMMA PartialLineAdds ==
  ASSUME TypeOK, NEW i \in Ids, NEW kind, PartialLine(kind, i)
  PROVE  /\ shard' \in [Lines -> Nat] /\ tail' \in Ids \cup {NoLine}
         /\ \A l \in Lines : shard'[l] >= shard[l]
         /\ \/ \A l \in Lines : Healed'[l] = Healed[l]
            \/ \A l \in Lines : Healed'[l] = Healed[l] + (IF l = i THEN 1 ELSE 0)
         /\ kind = "short" \/ tail' \in {tail, NoLine}
         /\ faults' \in [n : Nat, kinds : SUBSET Blinding]
         /\ faults.kinds \subseteq faults'.kinds
         /\ kind = "short" => "short" \in faults'.kinds
<1>1. shard \in [Lines -> Nat] /\ tail \in Ids \cup {NoLine}
  BY DEF TypeOK
<1>2. /\ faults' \in [n : Nat, kinds : SUBSET Blinding]
      /\ faults.kinds \subseteq faults'.kinds
      /\ kind = "short" => "short" \in faults'.kinds
  BY FaultCounts DEF PartialLine, Blinding
<1>3. CASE kind # "short" /\ UNCHANGED <<shard, tail>>
  BY <1>1, <1>2, <1>3 DEF Healed
<1>4. CASE kind # "short" /\ shard' = Healed /\ tail' = NoLine
  <2>1. Healed' = Healed
    BY <1>4 DEF Healed
  <2>2. QED
    BY <1>1, <1>2, <1>4, <2>1, HealedCounts
<1>5. CASE kind # "short" /\ WholeLine(i)
  <2>1. i \in Lines
    BY NamesApart
  <2>2. Healed' = shard'
    BY <2>1, <1>5, WholeLineAdds DEF Healed
  <2>3. QED
    BY <1>1, <1>2, <1>5, <2>1, <2>2, WholeLineAdds, HealedCounts
<1>6. CASE kind = "short" /\ shard' = Healed /\ tail' = i
  <2>1. Healed' = [Healed EXCEPT ![i] = @ + 1]
    BY <1>6, NamesApart DEF Healed
  <2>2. QED
    BY <1>1, <1>2, <1>6, <2>1, HealedCounts, NamesApart
<1>7. QED
  BY <1>3, <1>4, <1>5, <1>6 DEF PartialLine

\* Compaction moves copies from the shard to the archives.
LEMMA CompactMoves ==
  ASSUME TypeOK, CliCompact
  PROVE  /\ shard' \in [Lines -> Nat] /\ archived' \in [Lines -> Nat]
         /\ tail' = tail
         /\ \A l \in Lines : /\ shard'[l] + archived'[l] = shard[l] + archived[l]
                             /\ archived'[l] >= archived[l]
         /\ \E l \in Lines : archived'[l] > 0
<1>1. shard \in [Lines -> Nat] /\ archived \in [Lines -> Nat]
  BY DEF TypeOK
<1>2. PICK old \in SUBSET (Ingested \cap Ids), n \in 0..shard[Cli] :
        /\ old # {} \/ n > 0
        /\ shard' = [l \in Lines |-> shard[l] - (IF l = Cli THEN n
                                      ELSE IF l \in old THEN shard[l] ELSE 0)]
        /\ archived' = [l \in Lines |-> archived[l] + (IF l = Cli THEN n
                                      ELSE IF l \in old THEN shard[l] ELSE 0)]
  BY DEF CliCompact
<1>3. shard[Cli] \in Nat
  BY <1>1, NamesApart
<1>4. /\ shard' \in [Lines -> Nat] /\ archived' \in [Lines -> Nat]
      /\ \A l \in Lines : /\ shard'[l] + archived'[l] = shard[l] + archived[l]
                          /\ archived'[l] >= archived[l]
  BY <1>1, <1>2, <1>3
<1>5. \E l \in Lines : archived'[l] > 0
  <2>1. CASE n > 0
    BY <1>1, <1>2, <1>3, <2>1, NamesApart
  <2>2. CASE old # {}
    <3>1. PICK l \in old : TRUE
      BY <2>2
    <3>2. l \in Ids /\ l \in Lines /\ shard[l] > 0 /\ l # Cli
      BY <3>1, NamesApart DEF Ingested
    <3>3. QED
      BY <1>1, <1>2, <3>1, <3>2
  <2>3. QED
    BY <1>2, <2>1, <2>2
<1>6. QED
  BY <1>4, <1>5 DEF CliCompact

-------------------------------------------------------------------------------
(* Types, and what a handler's place says of its request and of pushMu.     *)

\* A handler at work knows its event, and from the ingest on it has pushMu.
MuInv ==
  \A h \in Handlers :
    /\ pc[h] # "idle" => req[h] \in Ids
    /\ pc[h] \notin {"idle", "arrived"} => mu = h

Control == TypeOK /\ MuInv

LEMMA ControlInit == Init => Control
<1>1. SUFFICES ASSUME Init PROVE Control
  OBVIOUS
<1>2. [n |-> 0, kinds |-> {}] \in [n : Nat, kinds : SUBSET Blinding]
  OBVIOUS
<1>3. TypeOK
  BY <1>1, <1>2 DEF Init, TypeOK, PCs, Answers
<1>4. QED
  BY <1>1, <1>3 DEF Init, Control, MuInv

LEMMA ControlStep == Control /\ [Next]_vars => Control'
<1> SUFFICES ASSUME Control, [Next]_vars PROVE Control'
  OBVIOUS
<1> USE DEF Control
<1>a. TypeOK
  OBVIOUS
<1>b. /\ shard \in [Lines -> Nat] /\ archived \in [Lines -> Nat]
      /\ tail \in Ids \cup {NoLine} /\ rows \subseteq Lines
      /\ mu \in Handlers \cup {Nobody} /\ lock \in Handlers \cup {Nobody}
      /\ pc \in [Handlers -> PCs] /\ req \in [Handlers -> Ids \cup {NoLine}]
      /\ answer \in [Handlers -> Answers] /\ cli \in Nat
      /\ told \in [Ids -> {"none", "ok", "duplicate"}]
      /\ faults \in [n : Nat, kinds : SUBSET Blinding]
  BY <1>a DEF TypeOK
<1>c. Ingested \subseteq Lines
  BY DEF Ingested
<1>d. \A kind : Fault(kind) => faults' \in [n : Nat, kinds : SUBSET Blinding]
  BY FaultCounts
<1>1. ASSUME NEW i \in Ids, NEW h \in Handlers, Send(h, i) PROVE Control'
  <2>1. faults' \in [n : Nat, kinds : SUBSET Blinding]
    BY <1>1, <1>b, <1>d DEF Send
  <2>2. TypeOK'
    BY <1>1, <1>a, <2>1 DEF Send, TypeOK, Goto, PCs, Answers, disk
  <2>3. MuInv'
    BY <1>1, <1>b DEF Send, MuInv, Goto
  <2>4. QED
    BY <2>2, <2>3
<1>2. ASSUME NEW h \in Handlers, TakeMu(h) PROVE Control'
  <2>1. TypeOK'
    BY <1>2, <1>a DEF TakeMu, TypeOK, Goto, PCs, disk, clients
  <2>2. MuInv'
    BY <1>2, <1>b, PushAssumption DEF TakeMu, MuInv, Goto, MuIsFree
  <2>3. QED
    BY <2>1, <2>2
<1>3. ASSUME NEW h \in Handlers, PreIngest(h) PROVE Control'
  <2>1. faults' \in [n : Nat, kinds : SUBSET Blinding] /\ rows' \subseteq Lines
    BY <1>3, <1>b, <1>c, <1>d DEF PreIngest
  <2>2. TypeOK'
    BY <1>3, <1>a, <2>1 DEF PreIngest, TypeOK, Goto, PCs, disk, clients
  <2>3. MuInv'
    BY <1>3, <1>b DEF PreIngest, MuInv, Goto
  <2>4. QED
    BY <2>2, <2>3
<1>4. ASSUME NEW h \in Handlers, LookUp(h) PROVE Control'
  <2>1. /\ faults' \in [n : Nat, kinds : SUBSET Blinding]
        /\ answer' \in [Handlers -> Answers] /\ pc' \in [Handlers -> PCs]
    BY <1>4, <1>b, <1>d DEF LookUp, Answer, Goto, PCs, Answers
  <2>2. TypeOK'
    BY <1>4, <1>a, <2>1 DEF LookUp, TypeOK, disk, clients
  <2>3. MuInv'
    BY <1>4, <1>b DEF LookUp, MuInv, Answer, Goto
  <2>4. QED
    BY <2>2, <2>3
<1>5. ASSUME NEW h \in Handlers, TakeLock(h) PROVE Control'
  <2>1. /\ faults' \in [n : Nat, kinds : SUBSET Blinding]
        /\ answer' \in [Handlers -> Answers] /\ pc' \in [Handlers -> PCs]
        /\ lock' \in Handlers \cup {Nobody}
    BY <1>5, <1>b, <1>d DEF TakeLock, Answer, Goto, PCs, Answers
  <2>2. TypeOK'
    BY <1>5, <1>a, <2>1 DEF TakeLock, TypeOK, disk, clients
  <2>3. MuInv'
    BY <1>5, <1>b DEF TakeLock, MuInv, Answer, Goto
  <2>4. QED
    BY <2>2, <2>3
<1>6. ASSUME NEW h \in Handlers, Number(h) PROVE Control'
  <2>1. /\ faults' \in [n : Nat, kinds : SUBSET Blinding]
        /\ answer' \in [Handlers -> Answers] /\ pc' \in [Handlers -> PCs]
        /\ lock' \in Handlers \cup {Nobody}
    BY <1>6, <1>b, <1>d DEF Number, Answer, Goto, PCs, Answers
  <2>2. TypeOK'
    BY <1>6, <1>a, <2>1 DEF Number, TypeOK, disk, clients
  <2>3. MuInv'
    BY <1>6, <1>b DEF Number, MuInv, Answer, Goto
  <2>4. QED
    BY <2>2, <2>3
<1>7. ASSUME NEW h \in Handlers, AppendLine(h) PROVE Control'
  <2>1. req[h] \in Ids /\ req[h] \in Lines
    BY <1>7, NamesApart DEF AppendLine, MuInv
  <2>2. /\ shard' \in [Lines -> Nat] /\ tail' \in Ids \cup {NoLine}
        /\ faults' \in [n : Nat, kinds : SUBSET Blinding]
    BY <1>7, <1>b, <2>1, WholeLineAdds, PartialLineAdds DEF AppendLine
  <2>3. answer' \in [Handlers -> Answers]
    BY <1>7, <1>b DEF AppendLine, Answers
  <2>4. TypeOK'
    BY <1>7, <1>a, <2>2, <2>3 DEF AppendLine, TypeOK, Goto, PCs, clients
  <2>5. MuInv'
    BY <1>7, <1>b DEF AppendLine, MuInv, Goto
  <2>6. QED
    BY <2>4, <2>5
<1>8. ASSUME NEW h \in Handlers, Release(h) PROVE Control'
  <2>1. TypeOK'
    BY <1>8, <1>a DEF Release, TypeOK, Goto, PCs, disk, clients
  <2>2. MuInv'
    BY <1>8, <1>b DEF Release, MuInv, Goto
  <2>3. QED
    BY <2>1, <2>2
<1>9. ASSUME NEW h \in Handlers, PostIngest(h) PROVE Control'
  <2>1. faults' \in [n : Nat, kinds : SUBSET Blinding] /\ rows' \subseteq Lines
    BY <1>9, <1>b, <1>c, <1>d DEF PostIngest
  <2>2. TypeOK'
    BY <1>9, <1>a, <2>1 DEF PostIngest, TypeOK, Goto, PCs, disk, clients
  <2>3. MuInv'
    BY <1>9, <1>b DEF PostIngest, MuInv, Goto
  <2>4. QED
    BY <2>2, <2>3
<1>10. ASSUME NEW h \in Handlers, Reply(h) PROVE Control'
  <2>1. /\ faults' \in [n : Nat, kinds : SUBSET Blinding]
        /\ told' \in [Ids -> {"none", "ok", "duplicate"}]
    BY <1>10, <1>b, <1>d DEF Reply
  <2>2. TypeOK'
    BY <1>10, <1>a, <2>1 DEF Reply, TypeOK, Goto, PCs, Answers, disk
  <2>3. MuInv'
    <3>1. ASSUME NEW g \in Handlers, g # h, pc[g] \notin {"idle", "arrived"} PROVE FALSE
      BY <1>10, <3>1 DEF Reply, MuInv
    <3>2. QED
      BY <1>10, <1>b, <3>1 DEF Reply, MuInv, Goto
  <2>4. QED
    BY <2>2, <2>3
<1>11. CASE BackgroundIngest
  BY <1>11, <1>c DEF BackgroundIngest, TypeOK, MuInv, disk, clients
<1>12. CASE CliEmit
  <2>1. shard' \in [Lines -> Nat] /\ tail' = NoLine
    BY <1>12, WholeLineAdds, NamesApart DEF CliEmit
  <2>2. QED
    BY <1>12, <2>1 DEF CliEmit, CliCommand, TypeOK, MuInv, clients
<1>13. CASE CliCompact
  <2>1. /\ shard' \in [Lines -> Nat] /\ archived' \in [Lines -> Nat] /\ tail' = tail
    BY <1>13, CompactMoves
  <2>2. QED
    BY <1>13, <2>1 DEF CliCompact, CliCommand, TypeOK, MuInv, clients
<1>14. CASE Crash
  <2>1. /\ shard' \in [Lines -> Nat] /\ tail' \in Ids \cup {NoLine}
        /\ faults' \in [n : Nat, kinds : SUBSET Blinding]
    <3>1. CASE Fault("crash") /\ UNCHANGED <<shard, tail>>
      BY <1>b, <1>d, <3>1
    <3>2. ASSUME NEW h \in Handlers, NEW kind \in {"crash", "short"},
                 pc[h] = "appending", PartialLine(kind, req[h])
          PROVE  /\ shard' \in [Lines -> Nat] /\ tail' \in Ids \cup {NoLine}
                 /\ faults' \in [n : Nat, kinds : SUBSET Blinding]
      <4>1. req[h] \in Ids
        BY <3>2 DEF MuInv
      <4>2. QED
        BY <3>2, <4>1, PartialLineAdds
    <3>3. QED
      BY <1>14, <3>1, <3>2 DEF Crash
  <2>2. TypeOK'
    BY <1>14, <1>a, <2>1 DEF Crash, TypeOK, PCs, Answers, clients
  <2>3. MuInv'
    BY <1>14 DEF Crash, MuInv
  <2>4. QED
    BY <2>2, <2>3
<1>15. CASE Restart
  BY <1>15 DEF Restart, TypeOK, MuInv, disk, clients
<1>16. CASE UNCHANGED vars
  BY <1>16 DEF vars, TypeOK, MuInv
<1>17. QED
  BY <1>1, <1>2, <1>3, <1>4, <1>5, <1>6, <1>7, <1>8, <1>9, <1>10, <1>11, <1>12,
     <1>13, <1>14, <1>15, <1>16 DEF Next, ClientStep, HandlerStep

\* The variables keep their types.
THEOREM TypesKept == Spec => []TypeOK
<1>1. Spec => []Control
  BY ControlInit, ControlStep, PTL DEF Spec
<1>2. Control => TypeOK
  BY DEF Control
<1>3. QED
  BY <1>1, <1>2, PTL

-------------------------------------------------------------------------------
(* What a step does to the disk. *)

LEMMA OthersLeaveDisk ==
  ASSUME [Next]_vars
  PROVE  \/ UNCHANGED disk
         \/ \E h \in Handlers : AppendLine(h)
         \/ CliEmit \/ CliCompact \/ Crash
BY DEF Next, ClientStep, HandlerStep, Send, TakeMu, PreIngest, LookUp, TakeLock, Number,
       Release, PostIngest, Reply, BackgroundIngest, Restart, vars, disk

\* A crash cuts at most the append of one handler short.
LEMMA CrashAppends ==
  ASSUME Control, Crash
  PROVE  \/ Fault("crash") /\ UNCHANGED disk
         \/ \E h \in Handlers, kind \in {"crash", "short"} :
              /\ pc[h] = "appending" /\ req[h] \in Ids /\ PartialLine(kind, req[h])
              /\ UNCHANGED archived
BY DEF Crash, Control, MuInv, disk

\* There is a complete copy of a line.
Complete(l) == shard[l] > 0 \/ archived[l] > 0

LEMMA CompleteStays ==
  ASSUME Control, [Next]_vars, NEW l \in Lines, Complete(l)
  PROVE  Complete(l)'
<1>a. /\ TypeOK /\ shard \in [Lines -> Nat] /\ archived \in [Lines -> Nat]
      /\ \A h \in Handlers : pc[h] # "idle" => req[h] \in Ids
  BY DEF Control, TypeOK, MuInv
<1>b. shard[l] \in Nat /\ archived[l] \in Nat
  BY <1>a
<1>1. CASE UNCHANGED disk
  BY <1>1 DEF disk, Complete
<1>2. ASSUME NEW h \in Handlers, AppendLine(h) PROVE Complete(l)'
  <2>1. req[h] \in Ids /\ req[h] \in Lines /\ archived' = archived
    BY <1>a, <1>2, NamesApart DEF AppendLine
  <2>2. shard'[l] >= shard[l] /\ shard' \in [Lines -> Nat]
    BY <1>a, <1>b, <1>2, <2>1, WholeLineAdds, PartialLineAdds, HealedCounts DEF AppendLine
  <2>3. QED
    BY <1>b, <2>1, <2>2 DEF Complete
<1>3. CASE CliEmit
  BY <1>a, <1>b, <1>3, WholeLineAdds, HealedCounts, NamesApart DEF CliEmit, Complete
<1>4. CASE CliCompact
  <2>1. /\ shard'[l] \in Nat /\ archived'[l] \in Nat
        /\ shard'[l] + archived'[l] = shard[l] + archived[l]
    BY <1>a, <1>4, CompactMoves
  <2>2. QED
    BY <1>b, <2>1 DEF Complete
<1>5. CASE Crash
  <2>1. CASE UNCHANGED disk
    BY <2>1 DEF disk, Complete
  <2>2. ASSUME NEW h \in Handlers, NEW kind, req[h] \in Ids, PartialLine(kind, req[h]),
               UNCHANGED archived
        PROVE  Complete(l)'
    BY <1>a, <1>b, <2>2, PartialLineAdds DEF Complete
  <2>3. QED
    BY <1>5, <2>1, <2>2, CrashAppends
<1>6. QED
  BY <1>1, <1>2, <1>3, <1>4, <1>5, OthersLeaveDisk

-------------------------------------------------------------------------------
(* What can be queried. *)

Success == {"ok", "duplicate"}

(* The rows are those of complete lines.  A handler that has a success in   *)
(* hand has its event on disk; when it answers, the index has it too.       *)
ReadInv ==
  /\ \A l \in rows : Complete(l)
  /\ \A h \in Handlers :
       /\ pc[h] = "releasing" => answer[h] # "duplicate"
       /\ pc[h] \in {"releasing", "reingesting", "answering"} /\ answer[h] \in Success =>
            Complete(req[h])
  /\ ReadYourPush

LEMMA ReadInit == Init => ReadInv
BY DEF Init, ReadInv, ReadYourPush

LEMMA ReadStep == Control /\ ReadInv /\ [Next]_vars => ReadInv'
<1> SUFFICES ASSUME Control, ReadInv, [Next]_vars PROVE ReadInv'
  OBVIOUS
<1>a. /\ TypeOK /\ rows \subseteq Lines /\ shard \in [Lines -> Nat]
      /\ archived \in [Lines -> Nat] /\ pc \in [Handlers -> PCs]
      /\ req \in [Handlers -> Ids \cup {NoLine}] /\ answer \in [Handlers -> Answers]
      /\ faults.kinds \subseteq Blinding
      /\ \A h \in Handlers : pc[h] # "idle" => req[h] \in Ids /\ req[h] \in Lines
  BY NamesApart DEF Control, TypeOK, MuInv
<1>b. \A l \in Lines : Complete(l) => Complete(l)'
  BY CompleteStays
<1>c. \A l \in Ingested : l \in Lines /\ Complete(l)
  BY DEF Ingested, Complete
<1>d. \A kind : Fault(kind) => /\ faults.kinds \subseteq faults'.kinds
                               /\ kind = "ingest" => "ingest" \in faults'.kinds
  BY <1>a, FaultCounts DEF Blinding
\* A step that leaves the answers alone and loses no row of a complete line.
<1>e. ASSUME UNCHANGED <<pc, req, answer, archived, faults>>,
             rows' \in {rows, Ingested}, UNCHANGED shard
      PROVE  ReadInv'
  BY <1>a, <1>b, <1>c, <1>e DEF ReadInv, ReadYourPush, Complete, Success, Ingested
<1>1. ASSUME NEW i \in Ids, NEW h \in Handlers, Send(h, i) PROVE ReadInv'
  <2>1. faults.kinds \subseteq faults'.kinds
    BY <1>1, <1>d DEF Send
  <2>2. QED
    BY <1>1, <1>a, <2>1 DEF Send, ReadInv, ReadYourPush, Complete, Success, Goto, disk
<1>2. ASSUME NEW h \in Handlers, TakeMu(h) PROVE ReadInv'
  BY <1>2, <1>a DEF TakeMu, ReadInv, ReadYourPush, Complete, Success, Goto, disk
<1>3. ASSUME NEW h \in Handlers, PreIngest(h) PROVE ReadInv'
  <2>1. /\ faults.kinds \subseteq faults'.kinds
        /\ rows' = Ingested \/ ("ingest" \in faults'.kinds /\ rows' = rows)
    BY <1>3, <1>d DEF PreIngest
  <2>2. QED
    BY <1>3, <1>a, <1>c, <2>1
    DEF PreIngest, ReadInv, ReadYourPush, Complete, Success, Goto, disk, Ingested
<1>4. ASSUME NEW h \in Handlers, LookUp(h) PROVE ReadInv'
  <2>1. faults.kinds \subseteq faults'.kinds
    BY <1>4, <1>d DEF LookUp
  <2>2. QED
    BY <1>4, <1>a, <2>1 DEF LookUp, ReadInv, ReadYourPush, Complete, Success, Goto, Answer, disk
<1>5. ASSUME NEW h \in Handlers, TakeLock(h) PROVE ReadInv'
  <2>1. faults.kinds \subseteq faults'.kinds
    BY <1>5, <1>d DEF TakeLock
  <2>2. QED
    BY <1>5, <1>a, <2>1 DEF TakeLock, ReadInv, ReadYourPush, Complete, Success, Goto, Answer, disk
<1>6. ASSUME NEW h \in Handlers, Number(h) PROVE ReadInv'
  <2>1. faults.kinds \subseteq faults'.kinds
    BY <1>6, <1>d DEF Number
  <2>2. QED
    BY <1>6, <1>a, <2>1 DEF Number, ReadInv, ReadYourPush, Complete, Success, Goto, Answer, disk
<1>7. ASSUME NEW h \in Handlers, AppendLine(h) PROVE ReadInv'
  <2>1. /\ faults.kinds \subseteq faults'.kinds
        /\ answer'[h] = "ok" => Complete(req[h])' 
        /\ answer'[h] \in {"ok", "error"}
    <3>1. req[h] \in Ids /\ req[h] \in Lines
      BY <1>7, <1>a DEF AppendLine
    <3>2. CASE WholeLine(req[h]) /\ answer' = [answer EXCEPT ![h] = "ok"] /\ UNCHANGED faults
      <4>1. shard'[req[h]] > 0
        BY <1>a, <3>1, <3>2, WholeLineAdds, HealedCounts
      <4>2. QED
        BY <1>7, <1>a, <3>2, <4>1 DEF Complete, AppendLine
    <3>3. CASE /\ \E kind \in {"io", "short"} : PartialLine(kind, req[h])
               /\ answer' = [answer EXCEPT ![h] = "error"]
      BY <1>a, <3>1, <3>3, PartialLineAdds
    <3>4. QED
      BY <1>7, <3>2, <3>3 DEF AppendLine
  <2>2. \A g \in Handlers : g # h => answer'[g] = answer[g] /\ pc'[g] = pc[g]
    BY <1>7, <1>a DEF AppendLine, Goto
  <2>3. pc'[h] = "releasing" /\ UNCHANGED <<archived, rows, req>>
    BY <1>7, <1>a DEF AppendLine, Goto
  <2>4. \A l \in rows : l \in Lines
    BY <1>a
  <2>5. \A l \in rows' : Complete(l)'
    BY <1>b, <2>3, <2>4 DEF ReadInv
  <2>6. ASSUME NEW g \in Handlers
        PROVE  /\ pc'[g] = "releasing" => answer'[g] # "duplicate"
               /\ pc'[g] \in {"releasing", "reingesting", "answering"} /\ answer'[g] \in Success =>
                    Complete(req[g])'
    <3>1. CASE g = h
      BY <2>1, <3>1 DEF Success
    <3>2. CASE g # h
      BY <1>a, <1>b, <2>2, <2>3, <3>2 DEF ReadInv
    <3>3. QED
      BY <3>1, <3>2
  <2>7. ReadYourPush'
    BY <2>1, <2>2, <2>3 DEF ReadInv, ReadYourPush
  <2>8. QED
    BY <2>3, <2>5, <2>6, <2>7 DEF ReadInv, Complete
<1>8. ASSUME NEW h \in Handlers, Release(h) PROVE ReadInv'
  BY <1>8, <1>a DEF Release, ReadInv, ReadYourPush, Complete, Success, Goto, disk, Answers
<1>9. ASSUME NEW h \in Handlers, PostIngest(h) PROVE ReadInv'
  <2>1. /\ faults.kinds \subseteq faults'.kinds
        /\ rows' = Ingested \/ ("ingest" \in faults'.kinds /\ rows' = rows)
    BY <1>9, <1>d DEF PostIngest
  <2>2. QED
    BY <1>9, <1>a, <1>c, <2>1
    DEF PostIngest, ReadInv, ReadYourPush, Complete, Success, Goto, disk, Ingested
<1>10. ASSUME NEW h \in Handlers, Reply(h) PROVE ReadInv'
  <2>1. faults.kinds \subseteq faults'.kinds
    BY <1>10, <1>d DEF Reply
  <2>2. QED
    BY <1>10, <1>a, <2>1 DEF Reply, ReadInv, ReadYourPush, Complete, Success, Goto, disk
<1>11. CASE BackgroundIngest
  BY <1>11, <1>e DEF BackgroundIngest, disk
<1>12. CASE CliEmit \/ CliCompact
  <2>1. UNCHANGED <<rows, pc, req, answer, faults>>
    BY <1>12 DEF CliEmit, CliCompact, CliCommand
  <2>2. \A l \in Lines : archived'[l] >= archived[l] /\ archived'[l] \in Nat
    BY <1>12, <1>a, CompactMoves DEF CliEmit
  <2>3. \A l \in Lines : archived[l] > 0 => archived'[l] > 0
    BY <1>a, <2>2
  <2>4. \A l \in rows : Complete(l)'
    BY <1>a, <1>b DEF ReadInv
  <2>5. ReadYourPush'
    BY <1>a, <2>1, <2>3 DEF ReadInv, ReadYourPush
  <2>6. \A h \in Handlers :
          pc[h] \in {"releasing", "reingesting", "answering"} /\ answer[h] \in Success =>
            Complete(req[h])'
    BY <1>a, <1>b, <2>1 DEF ReadInv
  <2>7. QED
    BY <2>1, <2>4, <2>5, <2>6 DEF ReadInv, Complete
<1>13. CASE Crash
  <2>1. \A l \in rows : Complete(l)'
    BY <1>a, <1>b DEF ReadInv
  <2>2. QED
    BY <1>13, <2>1 DEF Crash, ReadInv, ReadYourPush, Complete
<1>14. CASE Restart
  BY <1>14, <1>e DEF Restart, disk
<1>15. CASE UNCHANGED vars
  BY <1>15, <1>e DEF vars
<1>16. QED
  BY <1>1, <1>2, <1>3, <1>4, <1>5, <1>6, <1>7, <1>8, <1>9, <1>10, <1>11, <1>12,
     <1>13, <1>14, <1>15 DEF Next, ClientStep, HandlerStep

(* An event that was answered with success can be queried, unless an ingest *)
(* failed: handlePush brings the index up to date before it answers.        *)
THEOREM PushedIsReadable == Spec => []ReadYourPush
<1>1. Spec => [](Control /\ ReadInv)
  BY ControlInit, ControlStep, ReadInit, ReadStep, PTL DEF Spec
<1>2. ReadInv => ReadYourPush
  BY DEF ReadInv
<1>3. QED
  BY <1>1, <1>2, PTL

-------------------------------------------------------------------------------
(* Appended once. *)

\* Nothing happened that keeps a lookup from seeing what is on disk.
Quiet == faults.kinds = {} /\ \A l \in Lines : archived[l] = 0

(* A lookup that comes decides right, and what it decided holds until the   *)
(* append: nobody else gets past pushMu, and the CLI writes other lines.    *)
Once ==
  /\ tail = NoLine
  /\ \A i \in Ids : shard[i] <= 1
  /\ \A h \in Handlers :
       /\ pc[h] = "looking" /\ shard[req[h]] > 0 => req[h] \in rows
       /\ pc[h] \in {"locking", "numbering", "appending"} => shard[req[h]] = 0

OnceInv == Quiet => Once

LEMMA OnceInit == Init => OnceInv
<1>1. SUFFICES ASSUME Init PROVE Once
  BY DEF OnceInv
<1>2. \A l \in Lines : shard[l] = 0
  BY <1>1 DEF Init
<1>3. \A i \in Ids : shard[i] <= 1
  BY <1>2, NamesApart
<1>4. QED
  BY <1>1, <1>3 DEF Init, Once

\* Faults and archives only grow.
LEMMA QuietBefore ==
  ASSUME Control, [Next]_vars, Quiet'
  PROVE  Quiet
<1>a. /\ TypeOK /\ archived \in [Lines -> Nat]
      /\ \A h \in Handlers : pc[h] # "idle" => req[h] \in Ids
  BY DEF Control, TypeOK, MuInv
<1>b. \A kind : Fault(kind) => faults.kinds \subseteq faults'.kinds
  BY <1>a, FaultCounts
<1>1. faults.kinds \subseteq faults'.kinds
  <2>1. ASSUME NEW h \in Handlers, AppendLine(h) PROVE faults.kinds \subseteq faults'.kinds
    BY <1>a, <2>1, PartialLineAdds DEF AppendLine
  <2>2. CASE Crash
    BY <1>b, <2>2, CrashAppends, PartialLineAdds, <1>a
  <2>3. QED
    BY <1>b, <2>1, <2>2
    DEF Next, ClientStep, HandlerStep, Send, TakeMu, PreIngest, LookUp, TakeLock, Number,
        Release, PostIngest, Reply, BackgroundIngest, Restart, CliEmit, CliCompact,
        CliCommand, vars
<1>2. \A l \in Lines : archived'[l] = 0 => archived[l] = 0
  <2>1. CASE CliCompact
    <3>1. \A l \in Lines : archived'[l] >= archived[l] /\ archived[l] \in Nat
      BY <1>a, <2>1, CompactMoves
    <3>2. QED
      BY <3>1
  <2>2. CASE ~CliCompact
    BY <2>2, OthersLeaveDisk DEF disk, AppendLine, CliEmit, Crash
  <2>3. QED
    BY <2>1, <2>2
<1>3. QED
  BY <1>1, <1>2 DEF Quiet

\* While that is so, an append leaves nothing, or one line.
LEMMA QuietAppend ==
  ASSUME TypeOK, tail = NoLine, faults'.kinds = {}, NEW i \in Ids, NEW kind,
         WholeLine(i) \/ PartialLine(kind, i)
  PROVE  /\ tail' = NoLine
         /\ \A l \in Lines : l # i => shard'[l] = shard[l]
         /\ shard'[i] \in {shard[i], shard[i] + 1}
<1>1. i \in Lines /\ Healed = shard /\ shard \in [Lines -> Nat]
  BY NamesApart DEF Healed, TypeOK
<1>2. CASE WholeLine(i)
  BY <1>1, <1>2 DEF WholeLine
<1>3. CASE PartialLine(kind, i)
  <2>1. kind # "short"
    BY <1>3, PartialLineAdds
  <2>2. QED
    BY <1>1, <1>3, <2>1 DEF PartialLine, WholeLine
<1>4. QED
  BY <1>2, <1>3

LEMMA OnceStep == Control /\ OnceInv /\ [Next]_vars => OnceInv'
<1> SUFFICES ASSUME Control, OnceInv, [Next]_vars, Quiet' PROVE Once'
  BY DEF OnceInv
<1>a. /\ TypeOK /\ rows \subseteq Lines /\ shard \in [Lines -> Nat]
      /\ pc \in [Handlers -> PCs] /\ req \in [Handlers -> Ids \cup {NoLine}]
      /\ \A h \in Handlers : pc[h] # "idle" => req[h] \in Ids /\ req[h] \in Lines
      /\ \A h \in Handlers : pc[h] \notin {"idle", "arrived"} => mu = h
  BY NamesApart DEF Control, TypeOK, MuInv
<1>b. Once
  BY QuietBefore DEF OnceInv
<1>c. faults'.kinds = {} /\ faults.kinds = {}
  BY QuietBefore DEF Quiet
<1>d. \A kind : Fault(kind) => kind # "ingest"
  BY <1>a, <1>c, FaultCounts DEF Blinding
<1>e. ~CliCompact
  <2>1. SUFFICES ASSUME CliCompact PROVE FALSE
    OBVIOUS
  <2>2. PICK l \in Lines : archived'[l] > 0
    BY <1>a, <2>1, CompactMoves
  <2>3. archived'[l] = 0
    BY DEF Quiet
  <2>4. QED
    BY <2>2, <2>3
\* A step of a handler, or of nobody, that leaves the disk alone.
<1>f. ASSUME UNCHANGED disk, rows' \in {rows, Ingested}, NEW h \in Handlers,
             \A g \in Handlers : g # h => pc'[g] = pc[g] /\ req'[g] = req[g],
             pc'[h] = "looking" /\ shard[req'[h]] > 0 => req'[h] \in rows',
             pc'[h] \in {"locking", "numbering", "appending"} => shard[req'[h]] = 0
      PROVE  Once'
  BY <1>a, <1>b, <1>f DEF Once, disk, Ingested
<1>1. ASSUME NEW i \in Ids, NEW h \in Handlers, Send(h, i) PROVE Once'
  BY <1>1, <1>a, <1>f DEF Send, Goto
<1>2. ASSUME NEW h \in Handlers, TakeMu(h) PROVE Once'
  BY <1>2, <1>a, <1>f DEF TakeMu, Goto
<1>3. ASSUME NEW h \in Handlers, PreIngest(h) PROVE Once'
  <2>1. rows' = Ingested
    BY <1>3, <1>d DEF PreIngest
  <2>2. pc' = [pc EXCEPT ![h] = "looking"] /\ UNCHANGED disk /\ UNCHANGED req /\ req[h] \in Lines
    BY <1>3, <1>a DEF PreIngest, Goto
  <2>3. shard[req'[h]] > 0 => req'[h] \in rows'
    BY <2>1, <2>2 DEF Ingested
  <2>4. QED
    BY <1>a, <1>f, <2>1, <2>2, <2>3
<1>4. ASSUME NEW h \in Handlers, LookUp(h) PROVE Once'
  <2>1. pc[h] = "looking" /\ UNCHANGED disk /\ UNCHANGED <<req, rows>> /\ req[h] \in Lines
    BY <1>4, <1>a DEF LookUp
  <2>2. /\ pc'[h] \in {"answering", "locking"}
        /\ pc'[h] = "locking" => req[h] \notin rows
        /\ \A g \in Handlers : g # h => pc'[g] = pc[g]
    BY <1>4, <1>a DEF LookUp, Answer, Goto
  <2>3. pc'[h] = "locking" => shard[req[h]] = 0
    <3>1. shard[req[h]] \in Nat
      BY <1>a, <2>1
    <3>2. QED
      BY <1>b, <2>1, <2>2, <3>1 DEF Once
  <2>4. QED
    BY <1>f, <2>1, <2>2, <2>3
<1>5. ASSUME NEW h \in Handlers, TakeLock(h) \/ Number(h) PROVE Once'
  <2>1. /\ pc[h] \in {"locking", "numbering"}
        /\ UNCHANGED disk /\ UNCHANGED <<req, rows>>
        /\ pc'[h] \in {"answering", "numbering", "appending"}
        /\ \A g \in Handlers : g # h => pc'[g] = pc[g]
    BY <1>5, <1>a DEF TakeLock, Number, Answer, Goto
  <2>2. shard[req[h]] = 0
    BY <1>b, <2>1 DEF Once
  <2>3. QED
    BY <1>f, <2>1, <2>2
<1>6. ASSUME NEW h \in Handlers, AppendLine(h) PROVE Once'
  <2>1. /\ pc[h] = "appending" /\ req[h] \in Ids /\ req[h] \in Lines
        /\ UNCHANGED req /\ pc'[h] = "releasing"
        /\ \A g \in Handlers : g # h => pc'[g] = pc[g]
    BY <1>6, <1>a DEF AppendLine, Goto
  <2>2. shard[req[h]] = 0 /\ tail = NoLine
    BY <1>b, <2>1 DEF Once
  <2>3. /\ tail' = NoLine
        /\ \A l \in Lines : l # req[h] => shard'[l] = shard[l]
        /\ shard'[req[h]] \in {0, 1}
    BY <1>6, <1>a, <1>c, <2>1, <2>2, QuietAppend DEF AppendLine
  <2>4. \A g \in Handlers : g # h => pc'[g] \in {"idle", "arrived"}
    BY <1>a, <2>1
  <2>5. \A i \in Ids : shard'[i] <= 1
    BY <1>b, <2>3, NamesApart DEF Once
  <2>6. \A g \in Handlers : pc'[g] \notin {"looking", "locking", "numbering", "appending"}
    BY <2>1, <2>4
  <2>7. QED
    BY <2>3, <2>5, <2>6 DEF Once
<1>7. ASSUME NEW h \in Handlers, Release(h) \/ Reply(h) PROVE Once'
  BY <1>7, <1>a, <1>f DEF Release, Reply, Goto, disk
<1>8. ASSUME NEW h \in Handlers, PostIngest(h) PROVE Once'
  BY <1>8, <1>a, <1>d, <1>f DEF PostIngest, Goto, disk
<1>9. CASE BackgroundIngest \/ Restart \/ UNCHANGED vars
  <2>1. UNCHANGED disk /\ rows' \in {rows, Ingested} /\ UNCHANGED <<pc, req>>
    BY <1>9 DEF BackgroundIngest, Restart, vars, disk
  <2>2. QED
    BY <1>a, <1>b, <2>1 DEF Once, disk, Ingested
<1>10. CASE CliEmit
  <2>1. UNCHANGED <<rows, pc, req>> /\ WholeLine(Cli)
    BY <1>10 DEF CliEmit, CliCommand
  <2>2. tail' = NoLine /\ \A i \in Ids : shard'[i] = shard[i]
    BY <1>a, <1>b, <2>1, WholeLineAdds, HealedCounts, NamesApart DEF Once
  <2>3. QED
    BY <1>a, <1>b, <2>1, <2>2 DEF Once
<1>11. CASE Crash
  <2>1. pc' = [h \in Handlers |-> "idle"]
    BY <1>11 DEF Crash
  <2>2. tail' = NoLine /\ \A i \in Ids : shard'[i] <= 1
    <3>1. CASE UNCHANGED disk
      BY <1>b, <3>1 DEF Once, disk
    <3>2. ASSUME NEW h \in Handlers, NEW kind, pc[h] = "appending", req[h] \in Ids,
                 PartialLine(kind, req[h])
          PROVE  tail' = NoLine /\ \A i \in Ids : shard'[i] <= 1
      <4>1. shard[req[h]] = 0 /\ tail = NoLine
        BY <1>b, <3>2 DEF Once
      <4>2. /\ tail' = NoLine
            /\ \A l \in Lines : l # req[h] => shard'[l] = shard[l]
            /\ shard'[req[h]] \in {0, 1}
        BY <1>a, <1>c, <3>2, <4>1, QuietAppend
      <4>3. QED
        BY <1>b, <4>2, NamesApart DEF Once
    <3>3. QED
      BY <1>11, <3>1, <3>2, CrashAppends
  <2>3. QED
    BY <2>1, <2>2 DEF Once
<1>12. QED
  BY <1>e, <1>1, <1>2, <1>3, <1>4, <1>5, <1>6, <1>7, <1>8, <1>9, <1>10, <1>11
  DEF Next, ClientStep, HandlerStep

LEMMA OnceMeans == Control /\ OnceInv => AppendedOnce
<1>1. SUFFICES ASSUME Control, OnceInv, Quiet, NEW i \in Ids PROVE Copies(i) <= 1
  BY DEF AppendedOnce, RetriedOnce, Quiet
<1>2. tail = NoLine /\ shard[i] <= 1 /\ archived[i] = 0 /\ shard[i] \in Nat
  BY <1>1, NamesApart DEF OnceInv, Once, Quiet, Control, TypeOK
<1>3. QED
  BY <1>2 DEF Copies, Healed

(* However often and however concurrently a client sends an event, it is on *)
(* disk once, as long as the lookup can see what is on disk.                *)
THEOREM RetriesAppendOnce == Spec => []AppendedOnce
<1>1. Spec => [](Control /\ OnceInv)
  BY ControlInit, ControlStep, OnceInit, OnceStep, PTL DEF Spec
<1>2. QED
  BY <1>1, OnceMeans, PTL

-------------------------------------------------------------------------------
(* What the clients were promised. *)

Stored == {i \in Ids : Copies(i) > 0}
Told == {i \in Ids : told[i] # "none"}

LEMMA CopiesCount ==
  ASSUME Control
  PROVE  \A i \in Ids : Copies(i) \in Nat /\ (Complete(i) => Copies(i) > 0)
<1>1. ASSUME NEW i \in Ids PROVE Copies(i) \in Nat /\ (Complete(i) => Copies(i) > 0)
  <2>1. i \in Lines /\ shard[i] \in Nat /\ archived[i] \in Nat
    BY NamesApart DEF Control, TypeOK
  <2>2. Healed[i] \in Nat /\ Healed[i] >= shard[i]
    BY <2>1, HealedCounts DEF Control
  <2>3. QED
    BY <2>1, <2>2 DEF Copies, Complete
<1>2. QED
  BY <1>1

\* An append, whatever becomes of it, stores its event or nothing.
LEMMA AppendStores ==
  ASSUME Control, NEW i \in Ids, NEW kind, WholeLine(i) \/ PartialLine(kind, i),
         UNCHANGED archived
  PROVE  Stored' = Stored \/ Stored' = Stored \cup {i}
<1>1. TypeOK /\ i \in Lines /\ archived \in [Lines -> Nat] /\ Healed \in [Lines -> Nat]
  BY NamesApart, HealedCounts DEF Control, TypeOK
<1>2. \/ \A l \in Lines : Healed'[l] = Healed[l]
      \/ \A l \in Lines : Healed'[l] = Healed[l] + (IF l = i THEN 1 ELSE 0)
  <2>1. CASE WholeLine(i)
    <3>1. Healed' = shard'
      BY <1>1, <2>1, WholeLineAdds DEF Healed
    <3>2. QED
      BY <1>1, <2>1, <3>1, WholeLineAdds
  <2>2. CASE PartialLine(kind, i)
    BY <1>1, <2>2, PartialLineAdds
  <2>3. QED
    BY <2>1, <2>2
<1>3. CASE \A l \in Lines : Healed'[l] = Healed[l]
  BY <1>3, NamesApart DEF Stored, Copies
<1>4. CASE \A l \in Lines : Healed'[l] = Healed[l] + (IF l = i THEN 1 ELSE 0)
  <2>1. Copies(i)' > 0
    BY <1>1, <1>4 DEF Copies
  <2>2. \A j \in Ids : j # i => Copies(j)' = Copies(j)
    BY <1>1, <1>4, NamesApart DEF Copies
  <2>3. QED
    BY <2>1, <2>2 DEF Stored
<1>5. QED
  BY <1>2, <1>3, <1>4

LEMMA StepStores ==
  ASSUME Control, [Next]_vars
  PROVE  Stored' = Stored \/ \E i \in Ids : Stored' = Stored \cup {i} /\ UNCHANGED told
<1>1. CASE UNCHANGED disk
  BY <1>1 DEF disk, Stored, Copies, Healed
<1>2. ASSUME NEW h \in Handlers, AppendLine(h)
      PROVE  Stored' = Stored \/ \E i \in Ids : Stored' = Stored \cup {i} /\ UNCHANGED told
  <2>1. req[h] \in Ids /\ UNCHANGED archived /\ UNCHANGED told
    BY <1>2 DEF AppendLine, Control, MuInv, clients
  <2>2. \E kind : WholeLine(req[h]) \/ PartialLine(kind, req[h])
    BY <1>2 DEF AppendLine
  <2>3. QED
    BY <2>1, <2>2, AppendStores
<1>3. CASE CliEmit
  <2>1. \A i \in Ids : Healed'[i] = Healed[i]
    <3>1. Healed' = shard'
      BY <1>3, WholeLineAdds, NamesApart DEF CliEmit, Healed, Control
    <3>2. QED
      BY <1>3, <3>1, WholeLineAdds, HealedCounts, NamesApart DEF CliEmit, Control
  <2>2. QED
    BY <1>3, <2>1 DEF CliEmit, Stored, Copies
<1>4. CASE CliCompact
  <2>1. ASSUME NEW i \in Ids PROVE Copies(i)' = Copies(i)
    <3>1. /\ i \in Lines /\ shard[i] \in Nat /\ archived[i] \in Nat
          /\ shard \in [Lines -> Nat] /\ shard' \in [Lines -> Nat] /\ archived' \in [Lines -> Nat]
          /\ shard'[i] + archived'[i] = shard[i] + archived[i] /\ tail' = tail
      BY <1>4, NamesApart, CompactMoves DEF Control, TypeOK
    <3>2. Healed[i] = shard[i] + (IF tail = i THEN 1 ELSE 0)
      BY <3>1, HealedCounts DEF Control
    <3>3. Healed'[i] = shard'[i] + (IF tail = i THEN 1 ELSE 0)
      <4>1. tail = NoLine \/ tail \in Lines
        BY NamesApart DEF Control, TypeOK
      <4>2. QED
        BY <3>1, <4>1, NamesApart DEF Healed
    <3>4. shard'[i] \in Nat /\ archived'[i] \in Nat
      BY <3>1
    <3>5. QED
      BY <3>1, <3>2, <3>3, <3>4 DEF Copies
  <2>2. QED
    BY <2>1 DEF Stored
<1>5. CASE Crash
  <2>1. CASE UNCHANGED disk
    BY <2>1 DEF disk, Stored, Copies, Healed
  <2>2. ASSUME NEW h \in Handlers, NEW kind, req[h] \in Ids, PartialLine(kind, req[h]),
               UNCHANGED archived
        PROVE  Stored' = Stored \/ \E i \in Ids : Stored' = Stored \cup {i} /\ UNCHANGED told
    BY <1>5, <2>2, AppendStores DEF Crash, clients
  <2>3. QED
    BY <1>5, <2>1, <2>2, CrashAppends
<1>6. QED
  BY <1>1, <1>2, <1>3, <1>4, <1>5, OthersLeaveDisk

\* A client is told a success by a handler that has one in hand.
LEMMA StepTells ==
  ASSUME Control, ReadInv, [Next]_vars
  PROVE  Told' = Told \/ \E i \in Ids : i \in Stored /\ Told' = Told \cup {i} /\ Stored' = Stored
<1>1. CASE UNCHANGED told
  BY <1>1 DEF Told
<1>2. ASSUME NEW h \in Handlers, Reply(h)
      PROVE  Told' = Told \/ \E i \in Ids : i \in Stored /\ Told' = Told \cup {i} /\ Stored' = Stored
  <2>1. pc[h] = "answering" /\ req[h] \in Ids /\ UNCHANGED disk
    BY <1>2 DEF Reply, Control, MuInv
  <2>2. Stored' = Stored
    BY <2>1 DEF disk, Stored, Copies, Healed
  <2>3. CASE UNCHANGED told
    BY <2>3 DEF Told
  <2>4. CASE answer[h] \in {"ok", "duplicate"} /\ told' = [told EXCEPT ![req[h]] = answer[h]]
    <3>1. Complete(req[h])
      BY <2>1, <2>4 DEF ReadInv, Success
    <3>2. req[h] \in Stored
      BY <2>1, <3>1, CopiesCount DEF Stored
    <3>3. told \in [Ids -> {"none", "ok", "duplicate"}]
      BY DEF Control, TypeOK
    <3>4. Told' = Told \cup {req[h]}
      BY <2>1, <2>4, <3>3 DEF Told
    <3>5. QED
      BY <2>1, <2>2, <3>2, <3>4
  <2>5. QED
    BY <1>2, <2>3, <2>4 DEF Reply
<1>3. QED
  BY <1>1, <1>2
  DEF Next, ClientStep, HandlerStep, Send, TakeMu, PreIngest, LookUp, TakeLock, Number,
      AppendLine, Release, PostIngest, BackgroundIngest, CliEmit, CliCompact, CliCommand,
      Crash, Restart, clients, vars

(* The daemon implements the event store: what it reported written is on    *)
(* disk, and what is on disk stays there, through lost answers, failed      *)
(* writes, crashes and compactions.                                         *)
THEOREM PushImplementsStore == Spec => ImplementsStore
<1>1. Init => Log!SInit
  <2>1. SUFFICES ASSUME Init PROVE Log!SInit
    OBVIOUS
  <2>2. \A i \in Ids : Healed[i] = 0 /\ archived[i] = 0
    BY <2>1, NamesApart DEF Init, Healed
  <2>3. ASSUME NEW i \in Ids PROVE ~(Copies(i) > 0)
    <3>1. Copies(i) = 0 + 0
      BY <2>2 DEF Copies
    <3>2. QED
      BY <3>1
  <2>4. \A i \in Ids : told[i] = "none"
    BY <2>1 DEF Init
  <2>5. QED
    BY <2>3, <2>4 DEF Log!SInit
<1>2. Control /\ ReadInv /\ [Next]_vars => [Log!SNext]_(Log!svars)
  <2>1. SUFFICES ASSUME Control, ReadInv, [Next]_vars
                 PROVE  [Log!SNext]_(Log!svars)
    OBVIOUS
  <2>2. UNCHANGED told => Told' = Told
    BY DEF Told
  <2>3. \/ Stored' = Stored /\ Told' = Told
        \/ \E i \in Ids : Stored' = Stored \cup {i} /\ Told' = Told
        \/ \E i \in Ids : i \in Stored /\ Told' = Told \cup {i} /\ Stored' = Stored
    BY <2>1, <2>2, StepStores, StepTells
  <2>4. QED
    BY <2>3 DEF Log!SNext, Log!SWrite, Log!SAck, Log!svars, Stored, Told
<1>3. QED
  BY <1>1, <1>2, ControlInit, ControlStep, ReadInit, ReadStep, PTL
  DEF Spec, ImplementsStore, Log!SSpec
===============================================================================
