------------------------------ MODULE PushDaemon ------------------------------
(***************************************************************************)
(* POST /push of the daemon (server/main.go handlePush) as its clients see *)
(* it: a client that gets no answer sends the same event, with the same    *)
(* ULID, again, and "a retried ULID is appended once".  A handler looks    *)
(* the ULID up in the index, which it has just brought up to date; the     *)
(* shard it then appends to is shared with the CLI, and the index with the *)
(* daemon's own background ingests.                                        *)
(*                                                                         *)
(* Abstractions.  A line is its ULID; `cli' stands for lines written by    *)
(* the CLI.  A file is how many copies of each line it has: nothing here   *)
(* depends on their order.  The index is the set of ULIDs with a row.  An  *)
(* ingest takes one step and makes the rows those of the shard's complete  *)
(* lines: that an ingest of a shard that was appended to, rewritten, or    *)
(* left behind by a crash ends so is what ShardIndex checks.  CLI commands *)
(* work under the host lock from beginning to end (ShardWriters) and take  *)
(* one step each.                                                          *)
(* A request that validation refuses changes nothing and is left out.      *)
(***************************************************************************)
EXTENDS Integers

CONSTANTS
  Ids,          \* the ULIDs that are pushed
  Handlers,     \* requests the server handles at the same time
  CliOps,       \* what the CLI does meanwhile: a subset of {"emit", "compact"}
  Faults,       \* what may go wrong, see FaultKinds
  MaxCli,       \* bound: CLI commands
  MaxFaults     \* bound: faults

(* "lost"      an answer does not reach the client                          *)
(* "impatient" a client sends again while its request is still handled      *)
(* "crash"     the daemon is killed and restarted                           *)
(* "io"        the lock, the number, the append or the lookup fails         *)
(* "ingest"    an ingest fails                                              *)
(* "short"     a write fails, or the daemon dies in it, right before the    *)
(*             newline                                                      *)
FaultKinds == {"lost", "impatient", "crash", "io", "ingest", "short"}

Nobody == "nobody"
Cli == "cli"
NoLine == "none"

ASSUME PushAssumption ==
  /\ CliOps \subseteq {"emit", "compact"}
  /\ Faults \subseteq FaultKinds
  /\ MaxCli \in Nat /\ MaxFaults \in Nat
  /\ Nobody \notin Handlers
  /\ {Cli, NoLine} \cap Ids = {}

Lines == Ids \cup {Cli}

PCs == {"idle", "arrived", "ingesting", "looking", "locking", "numbering",
        "appending", "releasing", "reingesting", "answering"}
Answers == {"none", "ok", "duplicate", "error"}

VARIABLES
  shard,        \* shard[l]: the complete lines l of this host's shard
  tail,         \* a line whose newline was never written, or NoLine
  archived,     \* archived[l]: the lines l in the archives
  rows,         \* the ULIDs of this shard's rows in the index
  up,           \* the daemon is running
  mu,           \* the holder of pushMu
  lock,         \* the handler that holds the host lock
  pc,           \* pc[h]: where handler h is
  req,          \* req[h]: the ULID h was asked to push
  answer,       \* answer[h]: what h will answer
  asked,        \* the ULIDs whose client has begun to push
  told,         \* told[i]: the success the client of i was told, if any
  cli,          \* CLI commands so far
  faults        \* faults so far: their number, and which of the Blinding kinds

(* The faults after which the lookup can miss an event that is written.     *)
Blinding == {"ingest", "short"}

disk == <<shard, tail, archived>>
clients == <<asked, told>>
vars == <<shard, tail, archived, rows, up, mu, lock, pc, req, answer, asked,
          told, cli, faults>>

Init ==
  /\ shard = [l \in Lines |-> 0] /\ tail = NoLine
  /\ archived = [l \in Lines |-> 0] /\ rows = {}
  /\ up = TRUE /\ mu = Nobody /\ lock = Nobody
  /\ pc = [h \in Handlers |-> "idle"]
  /\ req = [h \in Handlers |-> NoLine]
  /\ answer = [h \in Handlers |-> "none"]
  /\ asked = {} /\ told = [i \in Ids |-> "none"]
  /\ cli = 0 /\ faults = [n |-> 0, kinds |-> {}]

Fault(kind) ==
  /\ kind \in Faults /\ faults.n < MaxFaults
  /\ faults' = [n |-> faults.n + 1, kinds |-> faults.kinds \cup ({kind} \cap Blinding)]
Goto(h, state) == pc' = [pc EXCEPT ![h] = state]
Answer(h, a) == answer' = [answer EXCEPT ![h] = a] /\ Goto(h, "answering")

\* The shard once the missing newline is written.
Healed == IF tail = NoLine THEN shard ELSE [shard EXCEPT ![tail] = @ + 1]

\* How often a line is on disk.
Copies(l) == Healed[l] + archived[l]

(* Seeded bugs: definitions named ..Bug are variants of the definition that *)
(* follows them, each with one plausible mistake.  Nothing here uses them;  *)
(* substituted one at a time they show that the properties notice.          *)

-------------------------------------------------------------------------------
(* Clients. *)

InFlight(i) == \E h \in Handlers : pc[h] # "idle" /\ req[h] = i

\* A client sends its event until it is told that it is written.
Send(h, i) ==
  /\ up /\ pc[h] = "idle" /\ told[i] = "none"
  /\ IF InFlight(i) THEN Fault("impatient") ELSE UNCHANGED faults
  /\ asked' = asked \cup {i}
  /\ req' = [req EXCEPT ![h] = i]
  /\ answer' = [answer EXCEPT ![h] = "none"]
  /\ Goto(h, "arrived")
  /\ UNCHANGED <<disk, rows, up, mu, lock, told, cli>>

-------------------------------------------------------------------------------
(* handlePush, from pushMu on. *)

\* pushMu is not taken.
UnserializedBug(h) == TRUE
MuIsFree(h) == mu = Nobody

TakeMu(h) ==
  /\ pc[h] = "arrived" /\ MuIsFree(h)
  /\ mu' = h
  /\ Goto(h, "ingesting")
  /\ UNCHANGED <<disk, rows, up, lock, req, answer, clients, cli, faults>>

\* An ingest does not read an unterminated last line.
Ingested == {l \in Lines : shard[l] > 0}

(* The ingest before the lookup.  Its error is only logged; it may have     *)
(* struck after the rows were committed.                                    *)
PreIngest(h) ==
  /\ pc[h] = "ingesting"
  /\ \/ rows' = Ingested /\ UNCHANGED faults
     \/ Fault("ingest") /\ rows' \in {rows, Ingested}
  /\ Goto(h, "looking")
  /\ UNCHANGED <<disk, up, mu, lock, req, answer, clients, cli>>

\* alreadyIndexed.
LookUp(h) ==
  /\ pc[h] = "looking"
  /\ \/ /\ req[h] \in rows
        /\ Answer(h, "duplicate") /\ UNCHANGED faults
     \/ /\ req[h] \notin rows
        /\ Goto(h, "locking") /\ UNCHANGED <<answer, faults>>
     \/ Fault("io") /\ Answer(h, "error")
  /\ UNCHANGED <<disk, rows, up, mu, lock, req, clients, cli>>

TakeLock(h) ==
  /\ pc[h] = "locking"
  /\ \/ /\ lock = Nobody /\ lock' = h
        /\ Goto(h, "numbering") /\ UNCHANGED <<answer, faults>>
     \/ Fault("io") /\ Answer(h, "error") /\ UNCHANGED lock
  /\ UNCHANGED <<disk, rows, up, mu, req, clients, cli>>

\* An error return between the lock and its release.
ForgottenReleaseBug(h) ==
  /\ pc[h] = "numbering"
  /\ \/ Goto(h, "appending") /\ UNCHANGED <<lock, answer, faults>>
     \/ Fault("io") /\ Answer(h, "error") /\ UNCHANGED lock
  /\ UNCHANGED <<disk, rows, up, mu, req, clients, cli>>

\* NextSeq, redaction and marshalling.
Number(h) ==
  /\ pc[h] = "numbering"
  /\ \/ Goto(h, "appending") /\ UNCHANGED <<lock, answer, faults>>
     \/ Fault("io") /\ Answer(h, "error") /\ lock' = Nobody
  /\ UNCHANGED <<disk, rows, up, mu, req, clients, cli>>

WholeLine(i) == shard' = [Healed EXCEPT ![i] = @ + 1] /\ tail' = NoLine

(* What a write that does not succeed leaves: nothing (or a fragment), the  *)
(* separator, all of it (the fsync failed), or all but the newline.         *)
PartialLine(kind, i) ==
  /\ Fault(kind)
  /\ \/ kind # "short" /\ UNCHANGED <<shard, tail>>
     \/ kind # "short" /\ shard' = Healed /\ tail' = NoLine
     \/ kind # "short" /\ WholeLine(i)
     \/ kind = "short" /\ shard' = Healed /\ tail' = i

\* A failed append is answered like a successful one.
SwallowedErrorBug(h) ==
  /\ pc[h] = "appending"
  /\ \/ WholeLine(req[h]) /\ UNCHANGED faults
     \/ \E kind \in {"io", "short"} : PartialLine(kind, req[h])
  /\ answer' = [answer EXCEPT ![h] = "ok"]
  /\ Goto(h, "releasing")
  /\ UNCHANGED <<archived, rows, up, mu, lock, req, clients, cli>>

\* AppendLocked.
AppendLine(h) ==
  /\ pc[h] = "appending"
  /\ \/ WholeLine(req[h]) /\ answer' = [answer EXCEPT ![h] = "ok"] /\ UNCHANGED faults
     \/ /\ \E kind \in {"io", "short"} : PartialLine(kind, req[h])
        /\ answer' = [answer EXCEPT ![h] = "error"]
  /\ Goto(h, "releasing")
  /\ UNCHANGED <<archived, rows, up, mu, lock, req, clients, cli>>

\* The lock is released before the append's error is looked at.
Release(h) ==
  /\ pc[h] = "releasing"
  /\ lock' = Nobody
  /\ Goto(h, IF answer[h] = "ok" THEN "reingesting" ELSE "answering")
  /\ UNCHANGED <<disk, rows, up, mu, req, answer, clients, cli, faults>>

\* The answer does not wait for the index.
AnswerEarlyBug(h) ==
  /\ pc[h] = "reingesting"
  /\ Goto(h, "answering")
  /\ UNCHANGED <<disk, rows, up, mu, lock, req, answer, clients, cli, faults>>

\* The audit row (ShardWriters), and the ingest after the append.
PostIngest(h) ==
  /\ pc[h] = "reingesting"
  /\ \/ rows' = Ingested /\ UNCHANGED faults
     \/ Fault("ingest") /\ rows' \in {rows, Ingested}
  /\ Goto(h, "answering")
  /\ UNCHANGED <<disk, up, mu, lock, req, answer, clients, cli>>

\* The client takes any answer for a success.
AnyAnswerBug(h) ==
  /\ pc[h] = "answering"
  /\ told' = [told EXCEPT ![req[h]] = answer[h]]
  /\ mu' = Nobody
  /\ Goto(h, "idle")
  /\ req' = [req EXCEPT ![h] = NoLine]
  /\ answer' = [answer EXCEPT ![h] = "none"]
  /\ UNCHANGED <<disk, rows, up, lock, asked, cli, faults>>

\* The answer is sent and the deferred unlock of pushMu runs.
Reply(h) ==
  /\ pc[h] = "answering"
  /\ \/ /\ answer[h] \in {"ok", "duplicate"} /\ told[req[h]] = "none"
        /\ told' = [told EXCEPT ![req[h]] = answer[h]]
        /\ UNCHANGED faults
     \/ /\ answer[h] = "error" \/ told[req[h]] # "none"
        /\ UNCHANGED <<told, faults>>
     \/ Fault("lost") /\ UNCHANGED told
  /\ mu' = Nobody
  /\ Goto(h, "idle")
  /\ req' = [req EXCEPT ![h] = NoLine]
  /\ answer' = [answer EXCEPT ![h] = "none"]
  /\ UNCHANGED <<disk, rows, up, lock, asked, cli>>

-------------------------------------------------------------------------------
(* The rest of the host. *)

\* watchSync, periodicRebuild and the initial ingest, which runs while the
\* server already accepts requests.
BackgroundIngest ==
  /\ up
  /\ rows' = Ingested
  /\ UNCHANGED <<disk, up, mu, lock, pc, req, answer, clients, cli, faults>>

CliCommand(op) ==
  /\ op \in CliOps /\ lock = Nobody
  /\ cli < MaxCli /\ cli' = cli + 1
  /\ UNCHANGED <<rows, up, mu, lock, pc, req, answer, clients, faults>>

CliEmit == CliCommand("emit") /\ WholeLine(Cli) /\ UNCHANGED archived

(* A push brings its own timestamp, so any event may be old enough; its     *)
(* copies carry the same one.                                               *)
CliCompact ==
  /\ CliCommand("compact")
  /\ \E old \in SUBSET (Ingested \cap Ids), n \in 0..shard[Cli] :
       LET moved == [l \in Lines |-> IF l = Cli THEN n
                                    ELSE IF l \in old THEN shard[l] ELSE 0]
       IN  /\ old # {} \/ n > 0
           /\ shard' = [l \in Lines |-> shard[l] - moved[l]]
           /\ archived' = [l \in Lines |-> archived[l] + moved[l]]
  /\ UNCHANGED tail

(* The daemon is killed: handlers, pushMu and the host lock are gone, and   *)
(* an append in progress may be cut short.                                  *)
Crash ==
  /\ up
  /\ up' = FALSE /\ mu' = Nobody /\ lock' = Nobody
  /\ pc' = [h \in Handlers |-> "idle"]
  /\ req' = [h \in Handlers |-> NoLine]
  /\ answer' = [h \in Handlers |-> "none"]
  /\ \/ Fault("crash") /\ UNCHANGED <<shard, tail>>
     \/ \E h \in Handlers, kind \in {"crash", "short"} :
          pc[h] = "appending" /\ PartialLine(kind, req[h])
  /\ UNCHANGED <<archived, rows, clients, cli>>

Restart ==
  /\ ~up /\ up' = TRUE
  /\ UNCHANGED <<disk, rows, mu, lock, pc, req, answer, clients, cli, faults>>

-------------------------------------------------------------------------------
HandlerStep(h) ==
  \/ TakeMu(h) \/ PreIngest(h) \/ LookUp(h) \/ TakeLock(h) \/ Number(h)
  \/ AppendLine(h) \/ Release(h) \/ PostIngest(h) \/ Reply(h)

ClientStep(i) == \E h \in Handlers : Send(h, i)

Next ==
  \/ \E i \in Ids : ClientStep(i)
  \/ \E h \in Handlers : HandlerStep(h)
  \/ BackgroundIngest \/ CliEmit \/ CliCompact
  \/ Crash \/ Restart

Spec == Init /\ [][Next]_vars

(* The supervisor restarts the daemon; a handler runs on, and gets a mutex  *)
(* or a lock that is free again and again; a client keeps trying.           *)
FairSpec ==
  /\ Spec /\ WF_vars(Restart)
  /\ \A h \in Handlers : SF_vars(HandlerStep(h))
  /\ \A i \in Ids : SF_vars(ClientStep(i))

-------------------------------------------------------------------------------
(* Properties. *)

TypeOK ==
  /\ shard \in [Lines -> Nat] /\ archived \in [Lines -> Nat]
  /\ tail \in Ids \cup {NoLine}
  /\ rows \subseteq Lines
  /\ up \in BOOLEAN
  /\ mu \in Handlers \cup {Nobody} /\ lock \in Handlers \cup {Nobody}
  /\ pc \in [Handlers -> PCs]
  /\ req \in [Handlers -> Ids \cup {NoLine}]
  /\ answer \in [Handlers -> Answers]
  /\ asked \subseteq Ids /\ told \in [Ids -> {"none", "ok", "duplicate"}]
  /\ cli \in Nat /\ faults \in [n : Nat, kinds : SUBSET Blinding]

(* "Pushes are serialized, so a retried ULID is appended once"              *)
(* (ARCHITECTURE.md): however often and however concurrently a client       *)
(* sends an event, it is on disk at most once.                              *)
RetriedOnce == \A i \in Ids : Copies(i) <= 1

(* The same as long as the lookup can see what is on disk: nothing was      *)
(* archived, no ingest failed, no write stopped before its newline.         *)
AppendedOnce ==
  faults.kinds = {} /\ (\A l \in Lines : archived[l] = 0) => RetriedOnce

(* An event that was pushed with success can be queried: the handler does   *)
(* not answer before the index has it (or compact has archived it), unless  *)
(* an ingest failed, which the handler only logs.                           *)
ReadYourPush ==
  \A h \in Handlers :
    pc[h] = "answering" /\ answer[h] \in {"ok", "duplicate"} /\ "ingest" \notin faults.kinds =>
      req[h] \in rows \/ archived[req[h]] > 0

(* Who keeps pushing is answered in the end: no path of a handler keeps     *)
(* pushMu or the host lock.                                                 *)
EventuallyTold == \A i \in Ids : i \in asked ~> told[i] # "none"

(* What the daemon promises its clients: what it reported written is on     *)
(* disk and stays there.                                                    *)
Log == INSTANCE EventStore WITH
         log <- {i \in Ids : Copies(i) > 0},
         acked <- {i \in Ids : told[i] # "none"}

ImplementsStore == Log!SSpec
===============================================================================
