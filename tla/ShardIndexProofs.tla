---------------------------- MODULE ShardIndexProofs ----------------------------
(***************************************************************************)
(* The index's properties, proved for every number of shards, of events,   *)
(* of changes and of faults, and for every choice of EnvOps and Faults.    *)
(*                                                                         *)
(* The argument.  A cursor and the lines an ingest has read are older      *)
(* states of their shard (ShardInv).  Lines only move forward, change      *)
(* their version upwards, or leave, so an older state that still matches   *)
(* its shard also matched it before the last change (Evolves, and the      *)
(* three lemmas ..Evolves): a cursor that does not match its shard never   *)
(* comes to match it.  Hence a change of a shard cannot turn a stale       *)
(* cursor into one that hides lines, and four invariants follow, each      *)
(* from those before it:                                                   *)
(*   Base       types, the shape of shards and jobs (holds always)         *)
(*   Still      no row is of a shard that is gone (no shard vanished)      *)
(*   Covering   a cursor that matches has its rows (nothing failed, or     *)
(*              neither a power loss nor a vanished shard did)             *)
(*   Freshness  what a pass without errors and changes has read is there   *)
(*   Exactness  a cursor that matches has no other rows (nothing failed)   *)
(***************************************************************************)
EXTENDS ShardIndex, SequenceTheorems, TLAPS

\* An event has one line in a shard.
Distinct(s) == \A k, m \in DOMAIN s : s[k].id = s[m].id => k = m

(* c is what a shard was when or before it became t: since then its lines   *)
(* moved towards the front, were scrubbed, or left.                         *)
Older(c, t) ==
  \A k \in DOMAIN c, m \in DOMAIN t : c[k].id = t[m].id => m <= k /\ c[k].ver <= t[m].ver

Written(s) == \A k \in DOMAIN s : s[k].id <= born

Ingesting == job.step \in {"commit", "save"}

(* Shards have no event in common; cursors, and the lines the job has read, *)
(* are older states of their shards.                                        *)
ShardInv ==
  /\ \A p \in Paths : /\ Written(content[p]) /\ Written(cursors[p])
                      /\ Distinct(content[p])
                      /\ Older(cursors[p], content[p])
  /\ \A p, q \in Paths : \A i \in Ids : Has(content[p], i) /\ Has(content[q], i) => p = q
  /\ Ingesting =>
       /\ Written(job.snap) /\ Distinct(job.snap) /\ Older(job.snap, content[job.path])
       /\ \A q \in Paths : \A i \in Ids : Has(job.snap, i) /\ Has(content[q], i) => q = job.path

\* How the job, the pass and the life of the daemon go together.
JobInv ==
  /\ job.step = "idle" => job = NoJob
  /\ Ingesting => job.path \in Paths /\ job.start <= Len(job.snap)
  /\ job.who = "dir" => pass.on
  /\ job.step = "delete" => job.who = "dir" /\ pass.todo = {} /\ job.gone \cap pass.known = {}
  /\ ~up => job = NoJob /\ ~pass.on /\ ~settled /\ faults.n > 0

\* The row of line k of s; the first n lines of s have theirs.
Place(s, p, k) == [path |-> p, off |-> k, ver |-> s[k].ver]
Covered(s, p, n) == \A k \in 1..n : rows[s[k].id] = Place(s, p, k)
Supported(p) == Matches(cursors[p], content[p]) => Covered(cursors[p], p, Len(cursors[p]))

\* While no shard has vanished there is nothing to sweep.
NeverGone ==
  /\ \A i \in Ids : rows[i].path \in present \cup {0}
  /\ \A p \in Paths \ present : content[p] = <<>>
  /\ job.gone = {}
  /\ Ingesting => job.path \in present

\* Between the deletion of its rows and of its cursor: a shard that is gone.
Suspended(p) == faults.n = 0 /\ faults.kinds # {} /\ job.step = "delete" /\ Missing(p)

\* Where the cursors can be relied on.
Sound == faults.n = 0 \/ faults.kinds = {}

(* Every cursor that matches is supported, or the table was deleted and     *)
(* Restart will drop the cursors.                                           *)
CoverInv ==
  /\ (\A p \in Paths : Supported(p) \/ Suspended(p)) \/ (~up /\ rows = NoRows)
  /\ Ingesting => (Matches(cursors[job.path], content[job.path]) => Matches(cursors[job.path], job.snap))
  /\ job.step = "commit" => Covered(job.snap, job.path, job.start)
  /\ job.step = "save" => Covered(job.snap, job.path, Len(job.snap))
  /\ job.step = "delete" => \A p \in job.gone :
       p \in present /\ Matches(cursors[p], content[p]) => cursors[p] = <<>>

AllRows(p) == Covered(content[p], p, Len(content[p]))
Done == pass.known \ pass.todo

(* The shards a pass has done keep their rows while it is good: nothing     *)
(* changed, so another ingest of them reads what the pass read.             *)
FreshInv ==
  /\ Ingesting /\ (settled \/ (pass.on /\ pass.good /\ (job.who = "dir" \/ Done # {}))) =>
       job.snap = content[job.path] /\ job.path \in present
  /\ pass.on /\ pass.good => pass.known = present /\ \A q \in Done : AllRows(q)
  /\ settled => (\A q \in present : AllRows(q)) /\ (pass.on => pass.known = present)

\* The rows of p are of events of s.
RowsOf(p) == {i \in Ids : rows[i].path = p}
Only(p, s) == \A i \in RowsOf(p) : Has(s, i)
Exact(p) == Matches(cursors[p], content[p]) /\ cursors[p] # <<>> => Only(p, cursors[p])

(* A full scan leaves only the events it read, and the sweep none of the    *)
(* shards that are gone.                                                    *)
ExactInv ==
  /\ \A p \in Paths : Exact(p) \/ (job.step = "save" /\ job.path = p)
  /\ job.step = "commit" /\ job.start > 0 => Only(job.path, job.snap)
  /\ job.step = "save" => Only(job.path, job.snap)
  /\ pass.on /\ pass.good => \A q \in Done : Only(q, content[q])
  /\ job.step = "delete" /\ pass.good => \A p \in Paths \ pass.known : RowsOf(p) # {} => p \in job.gone
  /\ settled => /\ \A q \in present : Only(q, content[q])
                /\ \A q \in Paths \ present : RowsOf(q) = {}

-------------------------------------------------------------------------------
JobType == [who : {"none", "one", "dir"}, step : {"idle", "commit", "save", "delete"},
            path : Paths \cup {0}, snap : Seq(Line), start : Nat, gone : SUBSET Paths]
PassType == [on : BOOLEAN, known : SUBSET Paths, todo : SUBSET Paths, good : BOOLEAN]
FaultType == [n : Nat, kinds : SUBSET Hiding]
TableType == [Ids -> Row \cup {NoRow}]

LEMMA LineFacts ==
  ASSUME NEW s \in Seq(Line)
  PROVE  /\ Len(s) \in Nat /\ DOMAIN s = 1..Len(s)
         /\ \A k \in 1..Len(s) : s[k] \in Line /\ s[k].id \in Ids /\ s[k].ver \in Vers
<1>1. Len(s) \in Nat /\ DOMAIN s = 1..Len(s)
  BY LenProperties
<1>2. \A k \in 1..Len(s) : s[k] \in Line
  BY ElementOfSeq
<1>3. \A l \in Line : l.id \in Ids /\ l.ver \in Vers
  BY DEF Line
<1>4. QED
  BY <1>1, <1>2, <1>3

LEMMA IdFacts == MaxIds \in Nat /\ Ids = 1..MaxIds /\ 0 \notin Paths /\ Paths \subseteq Nat
BY IndexAssumption DEF Ids

LEMMA FaultCounts ==
  ASSUME TypeOK, NEW kind, Fault(kind)
  PROVE  /\ faults' \in FaultType
         /\ faults'.n = faults.n + 1 /\ faults'.n > 0
         /\ faults.kinds \subseteq faults'.kinds
         /\ kind \in Hiding => kind \in faults'.kinds
<1>1. faults.n \in Nat /\ faults.kinds \subseteq Hiding
  BY DEF TypeOK
<1>2. faults' = [n |-> faults.n + 1, kinds |-> faults.kinds \cup ({kind} \cap Hiding)]
  BY DEF Fault
<1>3. faults'.kinds = faults.kinds \cup ({kind} \cap Hiding) /\ faults'.n = faults.n + 1
  BY <1>2
<1>4. faults.kinds \cup ({kind} \cap Hiding) \in SUBSET Hiding /\ faults.n + 1 \in Nat
  BY <1>1
<1>5. faults' \in FaultType
  BY <1>2, <1>4 DEF FaultType
<1>6. QED
  BY <1>1, <1>3, <1>5

LEMMA NoJobFacts ==
  /\ NoJob \in JobType /\ NoPass \in PassType
  /\ NoJob.who = "none" /\ NoJob.step = "idle" /\ NoJob.gone = {}
  /\ NoPass.on = FALSE /\ NoPass.good = FALSE /\ NoPass.todo = {} /\ NoPass.known = {}
  /\ NoRows \in TableType /\ NoCursors \in [Paths -> Seq(Line)]
BY DEF NoJob, NoPass, JobType, PassType, NoRows, NoCursors, TableType

LEMMA ChangedEffect ==
  ASSUME TypeOK, Changed
  PROVE  /\ pass' \in PassType /\ changes' \in Nat
         /\ pass'.on = pass.on /\ pass'.known = pass.known /\ pass'.todo = pass.todo
         /\ pass'.good = FALSE
<1>1. pass \in PassType /\ pass' = [pass EXCEPT !.good = FALSE]
  BY DEF TypeOK, Changed, PassType
<1>2. /\ pass' \in PassType
      /\ pass'.on = pass.on /\ pass'.known = pass.known /\ pass'.todo = pass.todo
      /\ pass'.good = FALSE
  BY <1>1 DEF PassType
<1>3. changes' \in Nat
  BY DEF TypeOK, Changed
<1>4. QED
  BY <1>2, <1>3

LEMMA PassAfterEffect ==
  ASSUME TypeOK, NEW good \in BOOLEAN, pass' = PassAfter(job, good)
  PROVE  /\ pass' \in PassType
         /\ pass'.on = pass.on /\ pass'.known = pass.known
         /\ job.who = "dir" =>
              /\ pass'.todo = pass.todo \ {job.path}
              /\ pass'.good <=> (pass.good /\ good)
         /\ job.who # "dir" => pass' = pass
<1>1. pass \in PassType /\ job \in JobType
  BY DEF TypeOK, PassType, JobType
<1>2. CASE job.who = "dir"
  <2>1. pass' = [pass EXCEPT !.todo = @ \ {job.path}, !.good = @ /\ good]
    BY <1>2 DEF PassAfter
  <2>2. QED
    BY <1>1, <1>2, <2>1 DEF PassType
<1>3. CASE job.who # "dir"
  BY <1>1, <1>3 DEF PassAfter
<1>4. QED
  BY <1>2, <1>3

LEMMA BeginEffect ==
  ASSUME TypeOK, NEW who \in {"one", "dir"}, NEW p \in Paths, Begin(who, p)
  PROVE  /\ job' \in JobType
         /\ job'.who = who /\ job'.step = "commit" /\ job'.path = p
         /\ job'.snap = content[p] /\ job'.start = ResumeAt(p) /\ job'.gone = {}
<1>1. content[p] \in Seq(Line) /\ cursors[p] \in Seq(Line)
  BY DEF TypeOK
<1>2. ResumeAt(p) \in Nat
  BY <1>1, LineFacts DEF ResumeAt
<1>3. job' = [who |-> who, step |-> "commit", path |-> p, snap |-> content[p],
              start |-> ResumeAt(p), gone |-> {}]
  BY DEF Begin, NoJob
<1>4. QED
  BY <1>1, <1>2, <1>3 DEF JobType

\* The rows a transaction leaves.
LEMMA RowOfType ==
  ASSUME NEW s \in Seq(Line), NEW p \in Paths, NEW i \in Ids, Has(s, i)
  PROVE  /\ \E k \in 1..Len(s) : s[k].id = i
         /\ Distinct(s) => LastAt(s, i) \in 1..Len(s) /\ s[LastAt(s, i)].id = i
<1>1. PICK k \in 1..Len(s) : s[k].id = i
  BY LineFacts DEF Has
<1>2. ASSUME Distinct(s) PROVE LastAt(s, i) \in 1..Len(s) /\ s[LastAt(s, i)].id = i
  <2>1. /\ k \in DOMAIN s /\ s[k].id = i
        /\ \A n \in DOMAIN s : n > k => s[n].id # i
    BY <1>1, <1>2, LineFacts DEF Distinct
  <2>2. QED
    BY <2>1, LineFacts DEF LastAt
<1>3. QED
  BY <1>1, <1>2

-------------------------------------------------------------------------------
(* What a change of a shard does to those who read it before. *)

\* u is what a change makes of t, whose events have numbers up to n.
Evolves(t, u, n) ==
  /\ Distinct(t) => Distinct(u)
  /\ \A i \in Ids : Has(u, i) => Has(t, i) \/ i = n + 1
  /\ \A c \in Seq(Line) : (\A k \in DOMAIN c : c[k].id <= n) /\ Older(c, t) =>
       Older(c, u) /\ (Matches(c, u) => Matches(c, t))

LEMMA HasFacts ==
  ASSUME NEW s \in Seq(Line), NEW i
  PROVE  Has(s, i) <=> \E k \in 1..Len(s) : s[k].id = i
BY LineFacts DEF Has

LEMMA OlderSelf ==
  ASSUME NEW s \in Seq(Line), Distinct(s)
  PROVE  Older(s, s) /\ Matches(s, s)
<1>1. ASSUME NEW k \in DOMAIN s, NEW m \in DOMAIN s, s[k].id = s[m].id
      PROVE  m <= k /\ s[k].ver <= s[m].ver
  <2>1. k = m /\ k \in 1..Len(s)
    BY <1>1, LineFacts DEF Distinct
  <2>2. s[k].ver \in Vers /\ k \in Nat
    BY <2>1, LineFacts
  <2>3. QED
    BY <2>1, <2>2 DEF Vers
<1>2. Older(s, s)
  BY <1>1 DEF Older
<1>3. QED
  BY <1>2, LineFacts DEF Matches

LEMMA EmptyFacts ==
  ASSUME NEW t \in Seq(Line)
  PROVE  /\ <<>> \in Seq(Line) /\ Older(<<>>, t) /\ Matches(<<>>, t) /\ Distinct(<<>>)
         /\ \A i : ~Has(<<>>, i)
         /\ \A c \in Seq(Line) : Len(c) = 0 <=> c = <<>>
<1>1. <<>> \in Seq(Line) /\ Len(<<>>) = 0 /\ DOMAIN <<>> = {}
  OBVIOUS
<1>2. \A c \in Seq(Line) : Len(c) = 0 <=> c = <<>>
  BY EmptySeq
<1>3. QED
  BY <1>1, <1>2, LineFacts DEF Older, Matches, Distinct, Has

\* A new event at the end, or in a new file.
LEMMA AppendEvolves ==
  ASSUME NEW t \in Seq(Line), NEW old \in {t, <<>>}, NEW n \in Nat, n + 1 \in Ids,
         \A k \in DOMAIN t : t[k].id <= n
  PROVE  LET u == Append(old, [id |-> n + 1, ver |-> 1])
         IN  /\ u \in Seq(Line) /\ Evolves(t, u, n)
             /\ \A k \in DOMAIN u : u[k].id <= n + 1
             /\ old = <<>> => \A c \in Seq(Line) :
                  (\A k \in DOMAIN c : c[k].id <= n) /\ Matches(c, u) => c = <<>>
<1> DEFINE e == [id |-> n + 1, ver |-> 1]
           u == Append(old, e)
<1>1. e \in Line /\ e.id = n + 1 /\ e.ver = 1
  BY DEF Line, Vers
<1> HIDE DEF e
<1>2. old \in Seq(Line) /\ \A k \in 1..Len(old) : old[k].id <= n
  <2>1. CASE old = t
    BY <2>1, LineFacts
  <2>2. CASE old = <<>>
    BY <2>2, EmptyFacts
  <2>3. QED
    BY <2>1, <2>2
<1>3. /\ u \in Seq(Line) /\ Len(u) = Len(old) + 1 /\ Len(old) \in Nat
      /\ \A k \in 1..Len(old) : u[k] = old[k]
      /\ u[Len(old) + 1] = e
      /\ DOMAIN u = 1..(Len(old) + 1)
  BY <1>1, <1>2, AppendProperties, LenProperties
<1> HIDE DEF u
<1>4. \A k \in DOMAIN u : (k \in 1..Len(old) /\ u[k] = old[k] /\ u[k].id <= n)
                        \/ (k = Len(old) + 1 /\ u[k].id = n + 1)
  BY <1>1, <1>2, <1>3
<1>5. \A k \in DOMAIN u : u[k].id <= n + 1
  <2>1. \A k \in 1..Len(old) : old[k].id \in Nat
    BY <1>2, LineFacts, IdFacts
  <2>2. QED
    BY <1>4, <2>1, <1>2
<1>6. Distinct(t) => Distinct(u)
  <2>1. SUFFICES ASSUME Distinct(t), NEW k \in DOMAIN u, NEW m \in DOMAIN u, u[k].id = u[m].id
                 PROVE  k = m
    BY DEF Distinct
  <2>2. Distinct(old)
    BY <2>1, EmptyFacts
  <2>3. QED
    BY <1>2, <1>4, <2>1, <2>2, LineFacts DEF Distinct
<1>7. \A i \in Ids : Has(u, i) => Has(t, i) \/ i = n + 1
  <2>1. ASSUME NEW i \in Ids, Has(u, i) PROVE Has(t, i) \/ i = n + 1
    <3>1. PICK k \in DOMAIN u : u[k].id = i
      BY <2>1 DEF Has
    <3>2. CASE k \in 1..Len(old) /\ u[k] = old[k]
      BY <1>2, <3>1, <3>2, EmptyFacts, HasFacts
    <3>3. QED
      BY <1>4, <3>1, <3>2
  <2>2. QED
    BY <2>1
<1>8. ASSUME NEW c \in Seq(Line), \A k \in DOMAIN c : c[k].id <= n, Matches(c, u)
      PROVE  Matches(c, old)
  <2>1. Len(c) \in Nat /\ DOMAIN c = 1..Len(c)
    BY LineFacts
  <2>2. Len(c) <= Len(old) + 1 /\ \A k \in 1..Len(c) : c[k] = u[k]
    BY <1>3, <1>8 DEF Matches
  <2>3. Len(c) # Len(old) + 1
    <3>1. SUFFICES ASSUME Len(c) = Len(old) + 1 PROVE FALSE
      OBVIOUS
    <3>2. c[Len(old) + 1].id = n + 1 /\ c[Len(old) + 1].id <= n
      BY <1>1, <1>3, <1>8, <2>1, <2>2, <3>1
    <3>3. QED
      BY <3>2
  <2>4. Len(c) <= Len(old) /\ 1..Len(c) \subseteq 1..Len(old)
    <3>1. Len(c) \in Nat /\ Len(old) \in Nat /\ Len(c) <= Len(old) + 1
      BY <1>3, <2>1, <2>2
    <3>2. Len(c) <= Len(old)
      BY <2>3, <3>1
    <3>3. QED
      BY <3>1, <3>2
  <2>5. \A k \in 1..Len(c) : c[k] = old[k]
    BY <1>3, <2>2, <2>4
  <2>6. QED
    BY <2>4, <2>5 DEF Matches
<1>9. ASSUME NEW c \in Seq(Line), \A k \in DOMAIN c : c[k].id <= n, Older(c, t)
      PROVE  Older(c, u) /\ (Matches(c, u) => Matches(c, t))
  <2>1. Older(c, old)
    BY <1>9, EmptyFacts DEF Older
  <2>2. Older(c, u)
    <3>1. SUFFICES ASSUME NEW k \in DOMAIN c, NEW m \in DOMAIN u, c[k].id = u[m].id
                   PROVE  m <= k /\ c[k].ver <= u[m].ver
      BY DEF Older
    <3>2. c[k].id <= n /\ c[k].id \in Nat
      BY <1>9, LineFacts, IdFacts
    <3>3. m \in 1..Len(old) /\ u[m] = old[m]
      BY <1>4, <3>1, <3>2
    <3>4. m \in DOMAIN old
      BY <1>2, <3>3, LineFacts
    <3>5. QED
      BY <2>1, <3>1, <3>3, <3>4 DEF Older
  <2>3. ASSUME Matches(c, u) PROVE Matches(c, t)
    <3>1. Matches(c, old)
      BY <1>8, <1>9, <2>3
    <3>2. CASE old = t
      BY <3>1, <3>2
    <3>3. CASE old = <<>>
      <4>1. c = <<>>
        BY <3>1, <3>3, EmptyFacts, LineFacts DEF Matches
      <4>2. QED
        BY <4>1, EmptyFacts
    <3>4. QED
      BY <3>2, <3>3
  <2>4. QED
    BY <2>2, <2>3
<1>10. old = <<>> => \A c \in Seq(Line) :
          (\A k \in DOMAIN c : c[k].id <= n) /\ Matches(c, u) => c = <<>>
  BY <1>8, EmptyFacts, LineFacts DEF Matches
<1>11. Evolves(t, u, n)
  BY <1>6, <1>7, <1>9 DEF Evolves
<1>12. QED
  BY <1>3, <1>5, <1>10, <1>11 DEF u, e

\* Lines leave.
LEMMA DropEvolves ==
  ASSUME NEW t \in Seq(Line), NEW n, NEW len \in Nat, len < Len(t),
         NEW from \in [1..len -> 1..Len(t)],
         \A k \in 1..len : k <= from[k] /\ \A m \in 1..len : k < m => from[k] < from[m]
  PROVE  LET u == [k \in 1..len |-> t[from[k]]]
         IN  /\ u \in Seq(Line) /\ Evolves(t, u, n)
             /\ (\A k \in DOMAIN t : t[k].id <= n) => \A k \in DOMAIN u : u[k].id <= n
<1> DEFINE u == [k \in 1..len |-> t[from[k]]]
<1>1. Len(t) \in Nat /\ DOMAIN t = 1..Len(t) /\ \A k \in 1..Len(t) : t[k] \in Line
  BY LineFacts
<1>2. u \in [1..len -> Line] /\ u \in Seq(Line) /\ Len(u) = len /\ DOMAIN u = 1..len
  BY <1>1
<1>3. \A k \in 1..len : u[k] = t[from[k]] /\ from[k] \in 1..Len(t)
  OBVIOUS
<1> HIDE DEF u
<1>4. \A k, m \in 1..len : from[k] = from[m] => k = m
  <2>1. SUFFICES ASSUME NEW k \in 1..len, NEW m \in 1..len, from[k] = from[m], k # m
                 PROVE  FALSE
    OBVIOUS
  <2>2. k < m \/ m < k
    BY <2>1
  <2>3. from[k] \in Int /\ from[m] \in Int
    BY <1>1
  <2>4. QED
    BY <2>1, <2>2, <2>3
<1>5. Distinct(t) => Distinct(u)
  BY <1>1, <1>2, <1>3, <1>4 DEF Distinct
<1>6. \A i \in Ids : Has(u, i) => Has(t, i)
  BY <1>1, <1>2, <1>3 DEF Has
<1>7. ASSUME NEW c \in Seq(Line), Older(c, t)
      PROVE  Older(c, u) /\ (Matches(c, u) => Matches(c, t))
  <2>1. Len(c) \in Nat /\ DOMAIN c = 1..Len(c)
    BY LineFacts
  <2>2. Older(c, u)
    <3>1. SUFFICES ASSUME NEW k \in DOMAIN c, NEW m \in DOMAIN u, c[k].id = u[m].id
                   PROVE  m <= k /\ c[k].ver <= u[m].ver
      BY DEF Older
    <3>2. m \in 1..len /\ u[m] = t[from[m]] /\ from[m] \in DOMAIN t /\ k \in Nat
      BY <1>1, <1>2, <1>3, <2>1
    <3>3. from[m] <= k /\ c[k].ver <= t[from[m]].ver
      BY <1>7, <3>1, <3>2 DEF Older
    <3>4. m <= from[m] /\ m \in Nat /\ from[m] \in Nat
      BY <1>1, <3>2
    <3>5. QED
      BY <3>2, <3>3, <3>4
  <2>3. ASSUME Matches(c, u) PROVE Matches(c, t)
    <3>1. Len(c) <= len /\ \A k \in 1..Len(c) : c[k] = u[k]
      BY <1>2, <2>3 DEF Matches
    <3>2. ASSUME NEW k \in 1..Len(c) PROVE c[k] = t[k]
      <4>1. k \in 1..len /\ c[k] = t[from[k]] /\ from[k] \in DOMAIN t /\ k \in DOMAIN c
        BY <1>1, <1>3, <2>1, <3>1
      <4>2. from[k] <= k
        BY <1>7, <4>1 DEF Older
      <4>3. k <= from[k] /\ from[k] \in Nat /\ k \in Nat
        BY <1>1, <4>1
      <4>4. QED
        BY <4>1, <4>2, <4>3
    <3>3. Len(c) <= Len(t)
      BY <1>1, <2>1, <3>1
    <3>4. QED
      BY <3>2, <3>3 DEF Matches
  <2>4. QED
    BY <2>2, <2>3
<1>8. Evolves(t, u, n)
  BY <1>5, <1>6, <1>7 DEF Evolves
<1>9. (\A k \in DOMAIN t : t[k].id <= n) => \A k \in DOMAIN u : u[k].id <= n
  BY <1>1, <1>2, <1>3
<1>10. QED
  BY <1>2, <1>8, <1>9 DEF u

\* A payload is scrubbed.
LEMMA ScrubEvolves ==
  ASSUME NEW t \in Seq(Line), NEW n, NEW at \in DOMAIN t, t[at].ver = 1
  PROVE  LET u == [t EXCEPT ![at].ver = 2]
         IN  /\ u \in Seq(Line) /\ Evolves(t, u, n)
             /\ (\A k \in DOMAIN t : t[k].id <= n) => \A k \in DOMAIN u : u[k].id <= n
<1> DEFINE e == [t[at] EXCEPT !.ver = 2]
           u == [t EXCEPT ![at].ver = 2]
<1>1. Len(t) \in Nat /\ DOMAIN t = 1..Len(t) /\ \A k \in 1..Len(t) : t[k] \in Line
  BY LineFacts
<1>2. e \in Line /\ e.id = t[at].id /\ e.ver = 2
  BY <1>1 DEF Line, Vers
<1>3. u = [t EXCEPT ![at] = e]
  OBVIOUS
<1> HIDE DEF e, u
<1>4. /\ u \in Seq(Line) /\ Len(u) = Len(t) /\ DOMAIN u = DOMAIN t
      /\ u[at] = e /\ \A k \in 1..Len(t) : k # at => u[k] = t[k]
  BY <1>1, <1>2, <1>3, ExceptSeq, LenProperties
<1>5. \A k \in 1..Len(t) : u[k].id = t[k].id
  BY <1>1, <1>2, <1>4
<1>6. Distinct(t) => Distinct(u)
  BY <1>1, <1>4, <1>5 DEF Distinct
<1>7. \A i \in Ids : Has(u, i) => Has(t, i)
  BY <1>1, <1>4, <1>5 DEF Has
<1>8. ASSUME NEW c \in Seq(Line), Older(c, t)
      PROVE  Older(c, u) /\ (Matches(c, u) => Matches(c, t))
  <2>1. Len(c) \in Nat /\ DOMAIN c = 1..Len(c) /\ \A k \in 1..Len(c) : c[k].ver \in {1, 2}
    BY LineFacts DEF Vers
  <2>2. Older(c, u)
    <3>1. SUFFICES ASSUME NEW k \in DOMAIN c, NEW m \in DOMAIN u, c[k].id = u[m].id
                   PROVE  m <= k /\ c[k].ver <= u[m].ver
      BY DEF Older
    <3>2. m \in 1..Len(t) /\ c[k].id = t[m].id
      BY <1>1, <1>4, <1>5, <3>1
    <3>3. m <= k /\ c[k].ver <= t[m].ver
      BY <1>1, <1>8, <3>2 DEF Older
    <3>4. CASE m = at
      BY <1>2, <1>4, <2>1, <3>3, <3>4
    <3>5. CASE m # at
      BY <1>4, <3>2, <3>3, <3>5
    <3>6. QED
      BY <3>4, <3>5
  <2>3. ASSUME Matches(c, u) PROVE Matches(c, t)
    <3>1. Len(c) <= Len(t) /\ \A k \in 1..Len(c) : c[k] = u[k] /\ k \in 1..Len(t)
      BY <1>1, <1>4, <2>1, <2>3 DEF Matches
    <3>2. at \notin 1..Len(c)
      <4>1. SUFFICES ASSUME at \in 1..Len(c) PROVE FALSE
        OBVIOUS
      <4>2. c[at].id = t[at].id /\ c[at].ver = 2
        BY <1>2, <1>4, <3>1, <4>1
      <4>3. c[at].ver <= t[at].ver
        BY <1>8, <2>1, <4>1, <4>2 DEF Older
      <4>4. QED
        BY <4>2, <4>3
    <3>3. \A k \in 1..Len(c) : c[k] = t[k]
      BY <1>4, <3>1, <3>2
    <3>4. QED
      BY <3>1, <3>3 DEF Matches
  <2>4. QED
    BY <2>2, <2>3
<1>9. Evolves(t, u, n)
  BY <1>6, <1>7, <1>8 DEF Evolves
<1>10. (\A k \in DOMAIN t : t[k].id <= n) => \A k \in DOMAIN u : u[k].id <= n
  BY <1>1, <1>4, <1>5
<1>11. QED
  BY <1>4, <1>9, <1>10 DEF u

LEMMA NothingEvolves == \A t \in Seq(Line), n \in Nat : Evolves(t, t, n)
BY DEF Evolves

ChangeOf(p) ==
  \/ AppendTo(p) \/ Drop(p) \/ (\E k \in 1..MaxIds : ScrubLine(p, k))
  \/ Vanish(p) \/ Return(p)

\* What any change of shard p comes to.
Shifts(p) ==
  /\ Changed
  /\ content' \in [Paths -> Seq(Line)] /\ present' \subseteq Paths
  /\ born' \in Nat /\ born <= born'
  /\ \A q \in Paths : Evolves(content[q], content'[q], born)
  /\ \A q \in Paths : q # p => content'[q] = content[q]
  /\ Written(content[p])'
  /\ \A i \in Ids : Has(content'[p], i) /\ ~Has(content[p], i) => i = born + 1
  /\ faults' \in FaultType /\ faults'.n \in {faults.n, faults.n + 1}
  /\ faults.kinds \subseteq faults'.kinds

LEMMA ChangeShifts ==
  ASSUME TypeOK, ShardInv, NEW p \in Paths, ChangeOf(p)
  PROVE  Shifts(p)
<1>a. /\ content \in [Paths -> Seq(Line)] /\ content[p] \in Seq(Line) /\ born \in Nat
      /\ present \subseteq Paths /\ faults \in FaultType
      /\ \A k \in DOMAIN content[p] : content[p][k].id <= born
  BY DEF TypeOK, FaultType, ShardInv, Written
<1> DEFINE u == content'[p]
<1>b. ASSUME content' = [content EXCEPT ![p] = u], u \in Seq(Line),
             Evolves(content[p], u, born), \A k \in DOMAIN u : u[k].id <= born',
             born' \in Nat, born <= born', present' \subseteq Paths,
             faults' \in FaultType, faults'.n \in {faults.n, faults.n + 1},
             faults.kinds \subseteq faults'.kinds, Changed
      PROVE  /\ content' \in [Paths -> Seq(Line)]
             /\ \A q \in Paths : Evolves(content[q], content'[q], born)
             /\ \A q \in Paths : q # p => content'[q] = content[q]
             /\ Written(content[p])'
             /\ \A i \in Ids : Has(content'[p], i) /\ ~Has(content[p], i) => i = born + 1
  <2>1. content' \in [Paths -> Seq(Line)] /\ \A q \in Paths : q # p => content'[q] = content[q]
    BY <1>a, <1>b
  <2>2. \A q \in Paths : Evolves(content[q], content'[q], born)
    BY <1>a, <1>b, <2>1, NothingEvolves
  <2>3. QED
    BY <1>b, <2>1, <2>2 DEF Written, Evolves
<1>1. CASE AppendTo(p)
  <2> DEFINE old == IF p \in present THEN content[p] ELSE <<>>
  <2>1. born + 1 \in Ids
    BY <1>1, <1>a, IdFacts DEF AppendTo
  <2>2. content' = [content EXCEPT ![p] = Append(old, [id |-> born + 1, ver |-> 1])]
    BY <1>1 DEF AppendTo
  <2>3. u = Append(old, [id |-> born + 1, ver |-> 1]) /\ old \in {content[p], <<>>}
    BY <1>a, <2>2
  <2>4. /\ u \in Seq(Line) /\ Evolves(content[p], u, born)
        /\ \A k \in DOMAIN u : u[k].id <= born + 1
    <3> HIDE DEF old
    <3>1. QED
      BY <1>a, <2>1, <2>3, AppendEvolves
  <2>5. /\ Changed /\ born' = born + 1 /\ present' \subseteq Paths /\ UNCHANGED faults
        /\ born' \in Nat /\ born <= born'
    BY <1>1, <1>a DEF AppendTo
  <2>6. faults' \in FaultType /\ faults'.n = faults.n /\ faults.kinds \subseteq faults'.kinds
    BY <1>a, <2>5
  <2> HIDE DEF u
  <2>7. content' = [content EXCEPT ![p] = u]
    BY <2>2, <2>3
  <2>8. \A k \in DOMAIN u : u[k].id <= born'
    BY <2>4, <2>5
  <2>9. QED
    BY <1>b, <2>4, <2>5, <2>6, <2>7, <2>8 DEF u, Shifts
<1>c. ASSUME Changed, UNCHANGED <<present, born, faults>>,
             content' = [content EXCEPT ![p] = u], u \in Seq(Line),
             Evolves(content[p], u, born), \A k \in DOMAIN u : u[k].id <= born
      PROVE  Shifts(p)
  BY <1>a, <1>b, <1>c DEF Shifts
<1>2. CASE Drop(p)
  <2>1. PICK n \in 0..Len(content[p]) - 1 : \E from \in [1..n -> 1..Len(content[p])] :
          /\ \A k \in 1..n : k <= from[k] /\ \A m \in 1..n : k < m => from[k] < from[m]
          /\ content' = [content EXCEPT ![p] = [k \in 1..n |-> content[p][from[k]]]]
    BY <1>2 DEF Drop
  <2>2. PICK from \in [1..n -> 1..Len(content[p])] :
          /\ \A k \in 1..n : k <= from[k] /\ \A m \in 1..n : k < m => from[k] < from[m]
          /\ content' = [content EXCEPT ![p] = [k \in 1..n |-> content[p][from[k]]]]
    BY <2>1
  <2>3. n \in Nat /\ n < Len(content[p])
    BY <1>a, <2>1, LineFacts
  <2>4. u = [k \in 1..n |-> content[p][from[k]]]
    BY <1>a, <2>2
  <2>5. /\ u \in Seq(Line) /\ Evolves(content[p], u, born)
        /\ \A k \in DOMAIN u : u[k].id <= born
    <3>1. LET v == [k \in 1..n |-> content[p][from[k]]]
          IN  /\ v \in Seq(Line) /\ Evolves(content[p], v, born)
              /\ \A k \in DOMAIN v : v[k].id <= born
      BY <1>a, <2>2, <2>3, DropEvolves
    <3>2. QED
      BY <2>4, <3>1
  <2>6. Changed /\ UNCHANGED <<present, born, faults>>
    BY <1>2 DEF Drop
  <2>7. content' = [content EXCEPT ![p] = u]
    BY <2>2, <2>4
  <2>8. QED
    BY <1>c, <2>5, <2>6, <2>7
<1>3. ASSUME NEW k \in 1..MaxIds, ScrubLine(p, k)
      PROVE  Shifts(p)
  <2>1. k \in DOMAIN content[p] /\ content[p][k].ver = 1
    BY <1>3 DEF ScrubLine
  <2>2. u = [content[p] EXCEPT ![k].ver = 2] /\ content' = [content EXCEPT ![p] = u]
    BY <1>3, <1>a DEF ScrubLine
  <2>3. /\ u \in Seq(Line) /\ Evolves(content[p], u, born)
        /\ \A n \in DOMAIN u : u[n].id <= born
    <3>1. LET v == [content[p] EXCEPT ![k].ver = 2]
          IN  /\ v \in Seq(Line) /\ Evolves(content[p], v, born)
              /\ \A n \in DOMAIN v : v[n].id <= born
      BY <1>a, <2>1, ScrubEvolves
    <3>2. QED
      BY <2>2, <3>1
  <2>4. Changed /\ UNCHANGED <<present, born, faults>>
    BY <1>3 DEF ScrubLine
  <2>5. QED
    BY <1>c, <2>2, <2>3, <2>4
<1>d. ASSUME Changed, UNCHANGED <<content, born>>, present' \subseteq Paths,
             faults' \in FaultType, faults'.n \in {faults.n, faults.n + 1},
             faults.kinds \subseteq faults'.kinds
      PROVE  Shifts(p)
  <2>1. content' = [content EXCEPT ![p] = u] /\ u = content[p]
    BY <1>a, <1>d
  <2>2. QED
    BY <1>a, <1>b, <1>d, <2>1, NothingEvolves DEF Shifts
<1>4. CASE Vanish(p)
  <2>1. faults' = [faults EXCEPT !.kinds = @ \cup {"vanish"}]
    BY <1>4 DEF Vanish
  <2>2. faults' \in FaultType /\ faults'.n = faults.n /\ faults.kinds \subseteq faults'.kinds
    BY <1>a, <2>1 DEF FaultType, Hiding
  <2>3. QED
    BY <1>4, <1>a, <1>d, <2>2 DEF Vanish
<1>5. CASE Return(p)
  <2>1. faults' \in FaultType /\ faults'.n \in {faults.n, faults.n + 1}
        /\ faults.kinds \subseteq faults'.kinds
    BY <1>5, <1>a, FaultCounts DEF Return
  <2>2. QED
    BY <1>5, <1>a, <1>d, <2>1 DEF Return
<1>6. QED
  BY <1>1, <1>2, <1>3, <1>4, <1>5 DEF ChangeOf

-------------------------------------------------------------------------------
(* What a transaction does to the table. *)

LEMMA CommitEffect ==
  ASSUME TypeOK, ShardInv, JobInv, Commit
  PROVE  /\ rows' \in TableType
         /\ \A k \in 1..Len(job.snap) :
              rows'[job.snap[k].id] = IF k > job.start THEN Place(job.snap, job.path, k)
                                                       ELSE rows[job.snap[k].id]
         /\ \A i \in Ids : ~Has(job.snap, i) =>
              rows'[i] = IF job.start = 0 /\ rows[i].path = job.path THEN NoRow ELSE rows[i]
         /\ job' \in JobType /\ job' = [job EXCEPT !.step = "save"]
         /\ job'.who = job.who /\ job'.step = "save" /\ job'.path = job.path
         /\ job'.snap = job.snap /\ job'.start = job.start /\ job'.gone = job.gone
<1> DEFINE s == job.snap  p == job.path  at == job.start
<1>1. /\ job \in JobType /\ s \in Seq(Line) /\ at \in Nat /\ p \in Paths /\ Distinct(s)
      /\ rows \in TableType /\ rows' = Ingested(job)
  BY DEF Commit, Ingesting, TypeOK, ShardInv, JobInv, JobType, TableType
<1>2. \A k \in 1..Len(s) : Has(s, s[k].id) /\ LastAt(s, s[k].id) = k /\ s[k].id \in Ids
  <2>1. SUFFICES ASSUME NEW k \in 1..Len(s)
                 PROVE  Has(s, s[k].id) /\ LastAt(s, s[k].id) = k /\ s[k].id \in Ids
    OBVIOUS
  <2>2. Has(s, s[k].id) /\ s[k].id \in Ids
    BY <1>1, HasFacts, LineFacts
  <2>3. LastAt(s, s[k].id) \in 1..Len(s) /\ s[LastAt(s, s[k].id)].id = s[k].id
    BY <1>1, <2>2, RowOfType
  <2>4. LastAt(s, s[k].id) = k
    BY <1>1, <2>3, LineFacts DEF Distinct
  <2>5. QED
    BY <2>2, <2>4
<1>3. \A i \in Ids :
        rows'[i] = IF Has(s, i) /\ LastAt(s, i) > at THEN RowOf(s, p, i)
                   ELSE IF at = 0 /\ rows[i].path = p THEN NoRow ELSE rows[i]
  BY <1>1 DEF Ingested
<1>4. \A i \in Ids : ~Has(s, i) =>
        rows'[i] = IF at = 0 /\ rows[i].path = p THEN NoRow ELSE rows[i]
  BY <1>3
<1>5. ASSUME NEW k \in 1..Len(s)
      PROVE  rows'[s[k].id] = IF k > at THEN Place(s, p, k) ELSE rows[s[k].id]
  <2>1. /\ Has(s, s[k].id) /\ LastAt(s, s[k].id) = k /\ s[k].id \in Ids
        /\ RowOf(s, p, s[k].id) = Place(s, p, k)
    BY <1>2 DEF RowOf, Place
  <2>2. CASE k > at
    BY <1>3, <2>1, <2>2
  <2>3. CASE ~(k > at)
    <3>1. at # 0
      BY <1>1, <2>3, LineFacts
    <3>2. QED
      BY <1>3, <2>1, <2>3, <3>1
  <2>4. QED
    BY <2>2, <2>3
<1>6. ASSUME NEW i \in Ids
      PROVE  Ingested(job)[i] \in Row \cup {NoRow}
  <2>1. CASE Has(s, i) /\ LastAt(s, i) > at
    <3>1. LastAt(s, i) \in 1..Len(s)
      BY <1>1, <2>1, RowOfType
    <3>2. s[LastAt(s, i)].ver \in Vers /\ LastAt(s, i) \in Nat
      BY <1>1, <3>1, LineFacts
    <3>3. RowOf(s, p, i) \in Row
      BY <1>1, <3>2 DEF RowOf, Row
    <3>4. QED
      BY <2>1, <3>3 DEF Ingested
  <2>2. CASE ~(Has(s, i) /\ LastAt(s, i) > at)
    BY <1>1, <2>2 DEF Ingested, TableType
  <2>3. QED
    BY <2>1, <2>2
<1>7. rows' \in TableType
  <2>1. Ingested(job) = [i \in Ids |-> Ingested(job)[i]]
    BY DEF Ingested
  <2>2. QED
    BY <1>1, <1>6, <2>1 DEF TableType
<1>8. job' = [job EXCEPT !.step = "save"]
  BY DEF Commit
<1>9. /\ job' \in JobType
      /\ job'.who = job.who /\ job'.step = "save" /\ job'.path = job.path
      /\ job'.snap = job.snap /\ job'.start = job.start /\ job'.gone = job.gone
  BY <1>1, <1>8 DEF JobType
<1>10. QED
  BY <1>4, <1>5, <1>7, <1>8, <1>9

-------------------------------------------------------------------------------
(* Types, shards and jobs. *)

Base == TypeOK /\ ShardInv /\ JobInv

LEMMA BaseInit == Init => Base
<1>1. SUFFICES ASSUME Init PROVE Base
  OBVIOUS
<1>2. [n |-> 0, kinds |-> {}] \in FaultType
  BY DEF FaultType
<1>3. TypeOK
  BY <1>1, <1>2, NoJobFacts, EmptyFacts DEF Init, TypeOK, JobType, PassType, FaultType, TableType
<1>4. ~Ingesting
  BY <1>1, NoJobFacts DEF Init, Ingesting
<1>5. ShardInv
  <2>1. \A p \in Paths : content[p] = <<>> /\ cursors[p] = <<>>
    BY <1>1 DEF Init, NoCursors
  <2>2. \A p \in Paths : Written(content[p]) /\ Written(cursors[p])
    BY <2>1, EmptyFacts DEF Written
  <2>3. Distinct(<<>>) /\ Older(<<>>, <<>>) /\ \A i : ~Has(<<>>, i)
    <3>1. <<>> \in Seq(Line)
      BY EmptySeq
    <3>2. QED
      BY <3>1, EmptyFacts
  <2>4. \A p \in Paths : Distinct(content[p]) /\ Older(cursors[p], content[p])
                         /\ \A i : ~Has(content[p], i)
    BY <2>1, <2>3
  <2>5. QED
    BY <1>4, <2>2, <2>4 DEF ShardInv
<1>6. JobInv
  BY <1>1, <1>4, NoJobFacts DEF Init, JobInv
<1>7. QED
  BY <1>3, <1>5, <1>6 DEF Base

LEMMA BaseStep == Base /\ [Next]_vars => Base'
<1> SUFFICES ASSUME Base, [Next]_vars PROVE Base'
  OBVIOUS
<1>a. /\ TypeOK /\ ShardInv /\ JobInv
      /\ content \in [Paths -> Seq(Line)] /\ cursors \in [Paths -> Seq(Line)]
      /\ rows \in TableType /\ durable \in TableType /\ job \in JobType /\ pass \in PassType
      /\ faults \in FaultType /\ born \in Nat /\ present \subseteq Paths
      /\ up \in BOOLEAN /\ settled \in BOOLEAN /\ changes \in Nat
  BY DEF Base, TypeOK, JobType, PassType, FaultType, TableType
<1>b. \A kind : Fault(kind) => faults' \in FaultType /\ faults'.n > 0
  BY <1>a, FaultCounts
<1>t. ASSUME content' \in [Paths -> Seq(Line)], cursors' \in [Paths -> Seq(Line)],
             rows' \in TableType, durable' \in TableType, job' \in JobType, pass' \in PassType,
             faults' \in FaultType, born' \in Nat, present' \subseteq Paths,
             up' \in BOOLEAN, settled' \in BOOLEAN, changes' \in Nat
      PROVE  TypeOK'
  BY <1>t DEF TypeOK, JobType, PassType, FaultType, TableType
\* The shards stay as they are, and a job in progress as well.
<1>s. ASSUME UNCHANGED <<content, born>>,
             \A p \in Paths : cursors'[p] \in {cursors[p], <<>>},
             Ingesting' => Ingesting /\ job'.snap = job.snap /\ job'.path = job.path
      PROVE  ShardInv'
  <2>1. \A p \in Paths : Written(cursors[p])' /\ Older(cursors[p], content[p])'
    <3>1. SUFFICES ASSUME NEW p \in Paths
                   PROVE  Written(cursors[p])' /\ Older(cursors[p], content[p])'
      OBVIOUS
    <3>2. CASE cursors'[p] = cursors[p]
      BY <1>a, <1>s, <3>2 DEF ShardInv, Written
    <3>3. CASE cursors'[p] = <<>>
      BY <1>a, <1>s, <3>3, EmptyFacts DEF Written
    <3>4. QED
      BY <1>s, <3>2, <3>3
  <2>2. QED
    BY <1>a, <1>s, <2>1 DEF ShardInv, Written
<1>1. ASSUME NEW p \in Paths, ChangeOf(p) PROVE Base'
  <2>0. Shifts(p)
    BY <1>1, <1>a, ChangeShifts
  <2>1. /\ pass' \in PassType /\ changes' \in Nat /\ pass'.on = pass.on
        /\ pass'.known = pass.known /\ pass'.todo = pass.todo
        /\ UNCHANGED <<rows, durable, cursors, up, job>> /\ settled' = FALSE
    BY <1>a, <2>0, ChangedEffect DEF Changed, Shifts
  <2>2. TypeOK'
    BY <1>a, <1>t, <2>0, <2>1 DEF Shifts
  <2>3. \A c \in Seq(Line) : Written(c) => Written(c)'
    <3>1. SUFFICES ASSUME NEW c \in Seq(Line), Written(c), NEW k \in DOMAIN c
                   PROVE  c[k].id <= born'
      BY DEF Written
    <3>2. c[k].id \in Nat /\ c[k].id <= born /\ born <= born' /\ born' \in Nat
      BY <2>0, <3>1, LineFacts, IdFacts DEF Written, Shifts
    <3>3. QED
      BY <1>a, <3>2
  <2>4. \A q \in Paths : Written(content[q])' /\ Written(cursors[q])'
    <3>1. SUFFICES ASSUME NEW q \in Paths PROVE Written(content[q])' /\ Written(cursors[q])'
      OBVIOUS
    <3>2. Written(cursors[q])'
      BY <1>a, <2>1, <2>3 DEF ShardInv, Written
    <3>3. Written(content[q])'
      <4>1. CASE q = p
        BY <2>0, <4>1 DEF Shifts
      <4>2. CASE q # p
        BY <1>a, <2>0, <2>3, <4>2 DEF ShardInv, Written, Shifts
      <4>3. QED
        BY <4>1, <4>2
    <3>4. QED
      BY <3>2, <3>3
  <2>5. \A q \in Paths : Distinct(content[q])' /\ Older(cursors[q], content[q])'
    BY <1>a, <2>0, <2>1 DEF ShardInv, Evolves, Written, Shifts
  <2>6. \A c \in Seq(Line), q \in Paths, i \in Ids :
          Written(c) /\ Has(c, i) /\ Has(content'[q], i) => Has(content[q], i)
    <3>1. SUFFICES ASSUME NEW c \in Seq(Line), NEW q \in Paths, NEW i \in Ids,
                          Written(c), Has(c, i), Has(content'[q], i)
                   PROVE  Has(content[q], i)
      OBVIOUS
    <3>2. PICK k \in DOMAIN c : c[k].id = i
      BY <3>1 DEF Has
    <3>3. i <= born /\ i \in Nat
      BY <3>1, <3>2, IdFacts DEF Written
    <3>4. i # born + 1
      BY <1>a, <3>3
    <3>5. QED
      BY <2>0, <3>1, <3>4 DEF Evolves, Shifts
  <2>7. \A q, r \in Paths : \A i \in Ids : Has(content'[q], i) /\ Has(content'[r], i) => q = r
    <3>1. SUFFICES ASSUME NEW q \in Paths, NEW r \in Paths, NEW i \in Ids,
                          Has(content'[q], i), Has(content'[r], i), q # r
                   PROVE  FALSE
      OBVIOUS
    <3>2. CASE q # p
      <4>1. Has(content[q], i) /\ Written(content[q])
        BY <1>a, <2>0, <3>1, <3>2 DEF ShardInv, Shifts
      <4>2. Has(content[r], i)
        BY <1>a, <2>6, <3>1, <4>1
      <4>3. QED
        BY <1>a, <3>1, <4>1, <4>2 DEF ShardInv
    <3>3. CASE r # p
      <4>1. Has(content[r], i) /\ Written(content[r])
        BY <1>a, <2>0, <3>1, <3>3 DEF ShardInv, Shifts
      <4>2. Has(content[q], i)
        BY <1>a, <2>6, <3>1, <4>1
      <4>3. QED
        BY <1>a, <3>1, <4>1, <4>2 DEF ShardInv
    <3>4. QED
      BY <3>1, <3>2, <3>3
  <2>8. ASSUME Ingesting
        PROVE  /\ Written(job.snap)' /\ Distinct(job.snap)'
               /\ Older(job.snap, content[job.path])'
               /\ \A q \in Paths : \A i \in Ids :
                    Has(job'.snap, i) /\ Has(content'[q], i) => q = job'.path
    <3>1. job.snap \in Seq(Line) /\ Written(job.snap) /\ Distinct(job.snap) /\ job.path \in Paths
          /\ Older(job.snap, content[job.path])
      BY <1>a, <2>8 DEF ShardInv, JobInv, JobType
    <3>2. Older(job.snap, content'[job.path])
      BY <2>0, <3>1 DEF Evolves, Written, Shifts
    <3>3. Written(job.snap)'
      BY <2>1, <2>3, <3>1 DEF Written
    <3>4. \A q \in Paths : \A i \in Ids :
                    Has(job.snap, i) /\ Has(content'[q], i) => q = job.path
      BY <1>a, <2>6, <2>8, <3>1 DEF ShardInv
    <3>5. QED
      BY <2>1, <3>1, <3>2, <3>3, <3>4
  <2>9. ShardInv'
    BY <2>1, <2>4, <2>5, <2>7, <2>8 DEF ShardInv, Ingesting
  <2>10. faults.n > 0 => faults'.n > 0
    BY <1>a, <2>0 DEF Shifts, FaultType
  <2>11. JobInv'
    BY <1>a, <2>1, <2>10 DEF JobInv, Ingesting
  <2>12. QED
    BY <2>2, <2>9, <2>11 DEF Base
<1>2. ASSUME NEW who \in {"one", "dir"}, NEW p \in Paths, Begin(who, p),
             who = "dir" => pass.on
      PROVE Base'
  <2>1. /\ job' \in JobType
        /\ job'.who = who /\ job'.step = "commit" /\ job'.path = p
        /\ job'.snap = content[p] /\ job'.start = ResumeAt(p) /\ job'.gone = {}
    BY <1>2, <1>a, BeginEffect
  <2>2. UNCHANGED <<shards, rows, durable, cursors, up, pass, settled, faults>> /\ up
    BY <1>2 DEF Begin
  <2>3. TypeOK'
    BY <1>a, <1>t, <2>1, <2>2 DEF shards
  <2>4. Distinct(content[p]) /\ Older(content[p], content[p]) /\ Written(content[p])
    BY <1>a, OlderSelf DEF ShardInv
  <2>5. ShardInv'
    BY <1>a, <2>1, <2>2, <2>4 DEF ShardInv, Written, shards
  <2>6. ResumeAt(p) <= Len(content[p])
    BY <1>a, LineFacts DEF ResumeAt, Matches
  <2>7. JobInv'
    BY <1>2, <2>1, <2>2, <2>6 DEF JobInv, Ingesting
  <2>8. QED
    BY <2>3, <2>5, <2>7 DEF Base
<1>3. CASE Commit
  <2>1. UNCHANGED <<shards, durable, cursors, up, pass, settled, faults>> /\ job.step = "commit"
    BY <1>3 DEF Commit
  <2>2. /\ rows' \in TableType /\ job' \in JobType
        /\ job'.who = job.who /\ job'.step = "save" /\ job'.path = job.path
        /\ job'.snap = job.snap /\ job'.start = job.start /\ job'.gone = job.gone
    BY <1>3, <1>a, CommitEffect
  <2>3. TypeOK'
    BY <1>a, <1>t, <2>1, <2>2 DEF shards
  <2>4. ShardInv'
    BY <1>s, <2>1, <2>2 DEF shards, Ingesting
  <2>5. JobInv'
    <3>1. up
      BY <1>a, <2>1, NoJobFacts DEF JobInv
    <3>2. QED
      BY <1>a, <2>1, <2>2, <3>1 DEF JobInv, Ingesting
  <2>6. QED
    BY <2>3, <2>4, <2>5 DEF Base
<1>4. CASE SaveCursor
  <2>1. /\ UNCHANGED <<shards, rows, durable, up, settled, faults>> /\ job.step = "save"
        /\ job' = NoJob /\ cursors' = [cursors EXCEPT ![job.path] = job.snap]
    BY <1>4 DEF SaveCursor
  <2>2. Ingesting /\ job.path \in Paths /\ job.snap \in Seq(Line) /\ up
    BY <1>a, <2>1, NoJobFacts DEF Ingesting, JobInv, JobType
  <2>3. pass' \in PassType /\ pass'.on = pass.on /\ pass'.known = pass.known
    BY <1>4, <1>a, PassAfterEffect DEF SaveCursor
  <2>4. TypeOK'
    BY <1>a, <1>t, <2>1, <2>2, <2>3, NoJobFacts DEF shards
  <2>5. ~Ingesting'
    BY <2>1, NoJobFacts DEF Ingesting
  <2>6. \A p \in Paths : Written(cursors[p])' /\ Older(cursors[p], content[p])'
    BY <1>a, <2>1, <2>2 DEF ShardInv, Written, shards
  <2>7. ShardInv'
    BY <1>a, <2>1, <2>5, <2>6 DEF ShardInv, Written, shards
  <2>8. JobInv'
    BY <2>1, <2>2, <2>5, NoJobFacts DEF JobInv
  <2>9. QED
    BY <2>4, <2>7, <2>8 DEF Base
<1>5. CASE IngestFails
  <2>1. /\ UNCHANGED <<shards, rows, durable, cursors, up, settled>>
        /\ job' = NoJob /\ faults' \in FaultType /\ job.step \in {"commit", "save"}
    BY <1>5, <1>b DEF IngestFails
  <2>2. pass' \in PassType /\ up
    BY <1>5, <1>a, <2>1, PassAfterEffect, NoJobFacts DEF IngestFails, JobInv
  <2>3. TypeOK'
    BY <1>a, <1>t, <2>1, <2>2, NoJobFacts DEF shards
  <2>4. ShardInv' /\ JobInv'
    BY <1>s, <2>1, <2>2, NoJobFacts DEF shards, Ingesting, JobInv
  <2>5. QED
    BY <2>3, <2>4 DEF Base
<1>6. CASE PassStart
  <2>1. /\ UNCHANGED <<shards, rows, durable, cursors, up, job, settled, faults>>
        /\ up /\ ~pass.on
        /\ pass' = [on |-> TRUE, known |-> present, todo |-> present, good |-> TRUE]
    BY <1>6 DEF PassStart
  <2>2. pass' \in PassType
    BY <1>a, <2>1 DEF PassType
  <2>3. TypeOK'
    BY <1>a, <1>t, <2>1, <2>2 DEF shards
  <2>4. job.who # "dir" /\ job.step # "delete"
    BY <1>a, <2>1 DEF JobInv
  <2>5. ShardInv' /\ JobInv'
    BY <1>a, <1>s, <2>1, <2>4 DEF shards, Ingesting, JobInv
  <2>6. QED
    BY <2>3, <2>5 DEF Base
<1>7. ASSUME NEW p \in Paths, PassSkip(p) PROVE Base'
  <2>1. /\ UNCHANGED <<shards, rows, durable, cursors, up, job, settled, faults>>
        /\ up /\ job = NoJob
        /\ pass' = [pass EXCEPT !.todo = @ \ {p}, !.good = @ /\ p \in present]
    BY <1>7 DEF PassSkip
  <2>2. pass' \in PassType
    BY <1>a, <2>1 DEF PassType
  <2>3. TypeOK'
    BY <1>a, <1>t, <2>1, <2>2 DEF shards
  <2>4. ShardInv' /\ JobInv'
    BY <1>s, <2>1, NoJobFacts DEF shards, Ingesting, JobInv
  <2>5. QED
    BY <2>3, <2>4 DEF Base
<1>8. CASE SweepFind
  <2> DEFINE gone == {p \in Paths : (\E i \in Ids : rows[i].path = p) /\ Missing(p)}
  <2>1. /\ UNCHANGED <<shards, rows, durable, cursors, up, pass, settled, faults>>
        /\ up /\ pass.on /\ pass.todo = {} /\ job = NoJob
        /\ job' = [NoJob EXCEPT !.who = "dir", !.step = "delete", !.gone = gone]
    BY <1>8 DEF SweepFind
  <2>2. gone \subseteq Paths /\ gone \cap pass.known = {}
    BY DEF Missing
  <2>3. /\ job' \in JobType
        /\ job'.who = "dir" /\ job'.step = "delete" /\ job'.gone = gone
    <3> HIDE DEF gone
    <3>1. QED
      BY <2>1, <2>2, NoJobFacts DEF NoJob, JobType
  <2> HIDE DEF gone
  <2>4. TypeOK'
    BY <1>a, <1>t, <2>1, <2>3 DEF shards
  <2>5. ShardInv' /\ JobInv'
    BY <1>s, <2>1, <2>2, <2>3 DEF shards, Ingesting, JobInv
  <2>6. QED
    BY <2>4, <2>5 DEF Base
<1>9. ASSUME NEW p \in Paths, SweepDelete(p) PROVE Base'
  <2>1. /\ UNCHANGED <<shards, durable, cursors, up, pass, settled, faults>>
        /\ job.step = "delete"
        /\ rows' = [i \in Ids |-> IF rows[i].path = p THEN NoRow ELSE rows[i]]
        /\ job' = [job EXCEPT !.gone = @ \ {p}]
    BY <1>9 DEF SweepDelete
  <2>2. /\ job' \in JobType /\ job'.who = job.who /\ job'.step = "delete"
        /\ job'.gone = job.gone \ {p}
    BY <1>a, <2>1 DEF JobType
  <2>3. rows' \in TableType
    BY <1>a, <2>1 DEF TableType
  <2>4. TypeOK'
    BY <1>a, <1>t, <2>1, <2>2, <2>3 DEF shards
  <2>5. up
    BY <1>a, <2>1, NoJobFacts DEF JobInv
  <2>6. ShardInv' /\ JobInv'
    BY <1>a, <1>s, <2>1, <2>2, <2>5 DEF shards, Ingesting, JobInv
  <2>7. QED
    BY <2>4, <2>6 DEF Base
<1>10. CASE SweepCursors
  <2>1. /\ UNCHANGED <<shards, rows, durable, up, faults>> /\ job.step = "delete"
        /\ cursors' = [p \in Paths |-> IF Missing(p) THEN <<>> ELSE cursors[p]]
        /\ job' = NoJob /\ pass' = NoPass /\ settled' = pass.good
    BY <1>10 DEF SweepCursors
  <2>2. \A p \in Paths : cursors'[p] \in {cursors[p], <<>>}
    BY <2>1
  <2>3. cursors' \in [Paths -> Seq(Line)] /\ settled' \in BOOLEAN
    BY <1>a, <2>1, EmptyFacts DEF PassType
  <2>4. TypeOK'
    BY <1>a, <1>t, <2>1, <2>3, NoJobFacts DEF shards
  <2>5. up
    BY <1>a, <2>1, NoJobFacts DEF JobInv
  <2>6. ShardInv' /\ JobInv'
    BY <1>s, <2>1, <2>2, <2>5, NoJobFacts DEF shards, Ingesting, JobInv
  <2>7. QED
    BY <2>4, <2>6 DEF Base
<1>11. CASE SweepFails
  <2>1. /\ UNCHANGED <<shards, rows, durable, cursors, up, settled>>
        /\ job.step = "delete" /\ job' = NoJob /\ pass' = NoPass /\ faults' \in FaultType
    BY <1>11, <1>b DEF SweepFails
  <2>2. up
    BY <1>a, <2>1, NoJobFacts DEF JobInv
  <2>3. TypeOK' /\ ShardInv' /\ JobInv'
    BY <1>a, <1>t, <1>s, <2>1, <2>2, NoJobFacts DEF shards, Ingesting, JobInv
  <2>4. QED
    BY <2>3 DEF Base
<1>12. CASE Crash \/ PowerLoss
  <2>1. /\ UNCHANGED shards /\ UNCHANGED durable /\ up' = FALSE /\ settled' = FALSE
        /\ job' = NoJob /\ pass' = NoPass /\ faults' \in FaultType /\ faults'.n > 0
        /\ rows' \in {rows, durable} /\ cursors' \in {cursors, NoCursors}
    BY <1>12, <1>b DEF Crash, PowerLoss, Stop
  <2>2. \A p \in Paths : cursors'[p] \in {cursors[p], <<>>}
    BY <2>1 DEF NoCursors
  <2>3. TypeOK'
    BY <1>a, <1>t, <2>1, NoJobFacts DEF shards
  <2>4. ShardInv' /\ JobInv'
    BY <1>s, <2>1, <2>2, NoJobFacts DEF shards, Ingesting, JobInv
  <2>5. QED
    BY <2>3, <2>4 DEF Base
<1>13. CASE Checkpoint
  <2>1. UNCHANGED <<shards, rows, cursors, up, job, pass, settled, faults>> /\ durable' = rows
    BY <1>13 DEF Checkpoint
  <2>2. TypeOK' /\ ShardInv' /\ JobInv'
    BY <1>a, <1>t, <1>s, <2>1 DEF shards, Ingesting, JobInv
  <2>3. QED
    BY <2>2 DEF Base
<1>14. CASE DeleteDB
  <2>1. /\ UNCHANGED <<shards, cursors, up, job, pass, settled>>
        /\ rows' = NoRows /\ durable' = NoRows /\ faults' \in FaultType /\ faults'.n > 0
    BY <1>14, <1>b DEF DeleteDB
  <2>2. TypeOK' /\ ShardInv' /\ JobInv'
    BY <1>a, <1>t, <1>s, <2>1, NoJobFacts DEF shards, Ingesting, JobInv
  <2>3. QED
    BY <2>2 DEF Base
<1>15. CASE Restart
  <2>1. /\ UNCHANGED <<shards, rows, durable, job, pass, settled, faults>>
        /\ ~up /\ up' = TRUE /\ cursors' \in {cursors, NoCursors}
    BY <1>15 DEF Restart, Reconciled
  <2>2. \A p \in Paths : cursors'[p] \in {cursors[p], <<>>}
    BY <2>1 DEF NoCursors
  <2>3. TypeOK' /\ ShardInv' /\ JobInv'
    BY <1>a, <1>t, <1>s, <2>1, <2>2, NoJobFacts DEF shards, Ingesting, JobInv
  <2>4. QED
    BY <2>3 DEF Base
<1>16. CASE UNCHANGED vars
  BY <1>16, <1>a DEF vars, Base, TypeOK, ShardInv, JobInv, Ingesting, Written
<1>17. QED
  BY <1>1, <1>2, <1>3, <1>4, <1>5, <1>6, <1>7, <1>8, <1>9, <1>10, <1>11, <1>12,
     <1>13, <1>14, <1>15, <1>16
  DEF Next, Change, ChangeOf, IngestStep, PassStep, PassIngest

\* The variables keep their types.
THEOREM TypesKept == Spec => []TypeOK
<1>1. Spec => []Base
  BY BaseInit, BaseStep, PTL DEF Spec
<1>2. Base => TypeOK
  BY DEF Base
<1>3. QED
  BY <1>1, <1>2, PTL

-------------------------------------------------------------------------------
(* Faults only add up, so what holds while nothing bad happened held before. *)

LEMMA FaultsGrow ==
  ASSUME Base, [Next]_vars
  PROVE  /\ faults'.n = 0 => faults.n = 0
         /\ faults'.kinds = {} => faults.kinds = {}
<1>a. TypeOK /\ ShardInv /\ faults.n \in Nat
  BY DEF Base, TypeOK
<1>b. \A kind : Fault(kind) => faults'.n > 0 /\ faults.kinds \subseteq faults'.kinds
  BY <1>a, FaultCounts
<1>1. ASSUME NEW p \in Paths, ChangeOf(p)
      PROVE  /\ faults'.n = 0 => faults.n = 0
             /\ faults'.kinds = {} => faults.kinds = {}
  <2>1. faults'.n \in {faults.n, faults.n + 1} /\ faults.kinds \subseteq faults'.kinds
    BY <1>1, <1>a, ChangeShifts DEF Shifts
  <2>2. QED
    BY <1>a, <2>1
<1>2. UNCHANGED faults \/ (\E kind : Fault(kind)) \/ \E p \in Paths : ChangeOf(p)
  BY DEF Next, Change, ChangeOf, IngestStep, PassStep, PassIngest, Begin, Commit, SaveCursor,
      IngestFails, PassStart, PassSkip, SweepFind, SweepDelete, SweepCursors, SweepFails,
      Crash, PowerLoss, Checkpoint, DeleteDB, Restart, vars
<1>3. ASSUME NEW kind, Fault(kind)
      PROVE  /\ faults'.n = 0 => faults.n = 0
             /\ faults'.kinds = {} => faults.kinds = {}
  BY <1>b, <1>3
<1>4. QED
  BY <1>1, <1>2, <1>3

\* A new file holds one event, which no cursor has seen.
LEMMA NewFile ==
  ASSUME Base, NEW p \in Paths, AppendTo(p), p \notin present
  PROVE  \A c \in Seq(Line) : Written(c) /\ Matches(c, content'[p]) => c = <<>>
<1>1. /\ content \in [Paths -> Seq(Line)] /\ content[p] \in Seq(Line) /\ born \in Nat
      /\ \A k \in DOMAIN content[p] : content[p][k].id <= born
  BY DEF Base, TypeOK, ShardInv, Written
<1>2. content'[p] = Append(<<>>, [id |-> born + 1, ver |-> 1]) /\ born + 1 \in Ids
  BY <1>1, IdFacts DEF AppendTo
<1>3. LET u == Append(<<>>, [id |-> born + 1, ver |-> 1])
      IN  \A c \in Seq(Line) : (\A k \in DOMAIN c : c[k].id <= born) /\ Matches(c, u) => c = <<>>
  BY <1>1, <1>2, AppendEvolves
<1>4. QED
  BY <1>2, <1>3 DEF Written

-------------------------------------------------------------------------------
(* Where no shard vanishes. *)

Still == faults.kinds = {} => NeverGone

LEMMA StillInit == Init => Still
BY NoJobFacts DEF Init, Still, NeverGone, NoRows, NoRow, Ingesting

LEMMA StillStep == Base /\ Still /\ [Next]_vars => Still'
<1> SUFFICES ASSUME Base, Still, [Next]_vars, faults'.kinds = {} PROVE NeverGone'
  BY DEF Still
<1>a. /\ TypeOK /\ ShardInv /\ JobInv /\ NeverGone /\ faults.kinds = {}
      /\ rows \in TableType /\ job \in JobType /\ content \in [Paths -> Seq(Line)]
      /\ NoRow.path = 0
  BY FaultsGrow DEF Base, TypeOK, TableType, JobType, Still, NoRow
<1>b. /\ \A i \in Ids : rows[i].path \in present \cup {0}
      /\ \A p \in Paths \ present : content[p] = <<>>
      /\ job.gone = {} /\ (Ingesting => job.path \in present)
  BY <1>a DEF NeverGone
<1>c. \A kind \in Hiding : ~Fault(kind)
  BY <1>a, FaultCounts
<1>n. ASSUME rows' \in {rows, NoRows}, job' \in {job, NoJob}, UNCHANGED shards
      PROVE  NeverGone'
  BY <1>a, <1>b, <1>n, NoJobFacts DEF NeverGone, Ingesting, shards, NoRows
<1>1. ASSUME NEW p \in Paths, ChangeOf(p) PROVE NeverGone'
  <2>1. /\ UNCHANGED <<rows, job>> /\ \A q \in Paths : q # p => content'[q] = content[q]
    BY <1>1, <1>a, ChangeShifts DEF Shifts, Changed
  <2>2. present \subseteq present' /\ p \in present'
    <3>1. CASE AppendTo(p) \/ Drop(p) \/ \E k \in 1..MaxIds : ScrubLine(p, k)
      BY <3>1 DEF AppendTo, Drop, ScrubLine
    <3>2. CASE Vanish(p)
      <4>1. faults' = [faults EXCEPT !.kinds = @ \cup {"vanish"}] /\ faults \in FaultType
        BY <1>a, <3>2 DEF Vanish, TypeOK, FaultType
      <4>2. "vanish" \in faults'.kinds
        BY <4>1 DEF FaultType
      <4>3. QED
        BY <4>2
    <3>3. CASE Return(p)
      BY <1>b, <3>3 DEF Return
    <3>4. QED
      BY <1>1, <3>1, <3>2, <3>3 DEF ChangeOf
  <2>3. QED
    BY <1>b, <2>1, <2>2 DEF NeverGone, Ingesting
<1>2. ASSUME NEW who \in {"one", "dir"}, NEW p \in Paths, Begin(who, p) PROVE NeverGone'
  <2>1. job'.path = p /\ job'.gone = {} /\ p \in present /\ UNCHANGED <<shards, rows>>
    BY <1>2, <1>a, BeginEffect DEF Begin
  <2>2. QED
    BY <1>b, <2>1 DEF NeverGone, shards
<1>3. CASE Commit
  <2>1. /\ job'.path = job.path /\ job'.gone = job.gone /\ job.path \in present
        /\ UNCHANGED shards
    BY <1>3, <1>a, <1>b, CommitEffect DEF Commit, Ingesting
  <2>2. ASSUME NEW i \in Ids PROVE rows'[i].path \in present \cup {0}
    <3>1. CASE Has(job.snap, i)
      <4>1. job.snap \in Seq(Line)
        BY <1>a DEF JobType
      <4>2. PICK k \in 1..Len(job.snap) : job.snap[k].id = i
        BY <3>1, <4>1, HasFacts
      <4>3. rows'[i] \in {Place(job.snap, job.path, k), rows[i]}
        BY <1>3, <1>a, <4>2, CommitEffect
      <4>4. QED
        BY <1>b, <2>1, <4>3 DEF Place
    <3>2. CASE ~Has(job.snap, i)
      BY <1>3, <1>a, <1>b, <3>2, CommitEffect
    <3>3. QED
      BY <3>1, <3>2
  <2>3. QED
    BY <1>b, <2>1, <2>2 DEF NeverGone, shards, Ingesting
<1>4. CASE SaveCursor \/ IngestFails \/ PassStart \/ SweepCursors \/ SweepFails \/ Checkpoint
           \/ Crash \/ DeleteDB \/ Restart \/ UNCHANGED vars
           \/ \E p \in Paths : PassSkip(p)
  BY <1>4, <1>n DEF SaveCursor, IngestFails, PassStart, SweepCursors, SweepFails, Checkpoint,
                    Crash, Stop, DeleteDB, Restart, vars, PassSkip, shards
<1>5. CASE SweepFind
  <2> DEFINE gone == {p \in Paths : (\E i \in Ids : rows[i].path = p) /\ Missing(p)}
  <2>1. gone = {}
    BY <1>b, IdFacts DEF Missing
  <2>2. /\ UNCHANGED <<shards, rows>>
        /\ job' = [NoJob EXCEPT !.who = "dir", !.step = "delete", !.gone = gone]
    BY <1>5 DEF SweepFind
  <2>3. job'.step = "delete" /\ job'.gone = {}
    BY <2>1, <2>2 DEF NoJob
  <2>4. QED
    BY <1>b, <2>2, <2>3 DEF NeverGone, Ingesting, shards
<1>6. ASSUME NEW p \in Paths, SweepDelete(p) PROVE FALSE
  BY <1>b, <1>6 DEF SweepDelete
<1>7. CASE PowerLoss
  BY <1>c, <1>7 DEF PowerLoss, Hiding
<1>8. QED
  BY <1>1, <1>2, <1>3, <1>4, <1>5, <1>6, <1>7
  DEF Next, Change, ChangeOf, IngestStep, PassStep, PassIngest

-------------------------------------------------------------------------------
(* Cursors that match have their rows. *)

Covering == Sound => CoverInv

LEMMA CoverInit == Init => CoverInv
<1>1. SUFFICES ASSUME Init PROVE CoverInv
  OBVIOUS
<1>2. \A p \in Paths : Supported(p)
  BY <1>1, EmptySeq DEF Init, NoCursors, Supported, Covered
<1>3. job.step = "idle"
  BY <1>1, NoJobFacts DEF Init
<1>4. QED
  BY <1>2, <1>3 DEF CoverInv, Ingesting

LEMMA EmptyIsCovered == \A s \in Seq(Line) : \A p : Len(s) = 0 => Covered(s, p, Len(s))
BY DEF Covered

LEMMA CoverStep == Base /\ Still /\ Covering /\ [Next]_vars => Covering'
<1> SUFFICES ASSUME Base, Still, Covering, [Next]_vars, Sound' PROVE CoverInv'
  BY DEF Covering
<1>a. /\ TypeOK /\ ShardInv /\ JobInv /\ Sound /\ CoverInv
      /\ content \in [Paths -> Seq(Line)] /\ cursors \in [Paths -> Seq(Line)]
      /\ rows \in TableType /\ job \in JobType /\ pass \in PassType /\ faults \in FaultType
      /\ NoJob.step = "idle" /\ job.snap \in Seq(Line)
  BY FaultsGrow, NoJobFacts
  DEF Base, TypeOK, TableType, JobType, PassType, FaultType, Covering, Sound
<1>b. \A kind : Fault(kind) => faults'.n > 0 /\ (kind \in Hiding => faults'.kinds # {})
  BY <1>a, FaultCounts
<1>c. faults.kinds = {} => job.gone = {}
  BY DEF Still, NeverGone
<1>d. faults.kinds # {} => faults'.n = 0 /\ faults.n = 0
  BY FaultsGrow DEF Sound
<1>e. up /\ job.step # "delete" => \A p \in Paths : Supported(p)
  BY <1>a DEF CoverInv, Suspended
<1>f. ASSUME \A p \in Paths : Supported(p)' \/ Suspended(p)',
             job'.step \in {"idle", "delete"}, job'.step = "delete" => job'.gone = {}
      PROVE  CoverInv'
  BY <1>f DEF CoverInv, Ingesting
<1>1. ASSUME NEW p \in Paths, ChangeOf(p) PROVE CoverInv'
  <2>1. /\ Shifts(p) /\ UNCHANGED <<rows, cursors, up, job>> /\ pass'.known = pass.known
    BY <1>1, <1>a, ChangeShifts, ChangedEffect DEF Shifts, Changed
  <2>2. /\ \A q \in Paths : Evolves(content[q], content'[q], born)
        /\ \A q \in Paths : q # p => content'[q] = content[q]
    BY <2>1 DEF Shifts
  <2>3. \A q \in Paths : Matches(cursors[q], content'[q]) => Matches(cursors[q], content[q])
    BY <1>a, <2>2 DEF Evolves, ShardInv, Written
  <2>4. \A q \in Paths : Supported(q) => Supported(q)'
    BY <2>1, <2>3 DEF Supported, Covered
  \* A shard appears while the sweep deletes rows: it is a new file.
  <2>5. ASSUME p \notin present, p \in present', job.step = "delete", faults.kinds # {},
               Matches(cursors[p], content'[p])
        PROVE  cursors[p] = <<>>
    <3>1. ~Return(p)
      BY <1>b, <1>d, <2>5 DEF Return
    <3>2. AppendTo(p)
      BY <1>1, <2>5, <3>1 DEF ChangeOf, Drop, ScrubLine, Vanish
    <3>3. QED
      BY <1>a, <2>5, <3>2, NewFile DEF ShardInv
  <2>6. \A q \in Paths : q # p => (q \in present <=> q \in present')
    BY <1>1 DEF ChangeOf, AppendTo, Drop, ScrubLine, Vanish, Return
  <2>7. ASSUME NEW q \in Paths, Suspended(q) PROVE Supported(q)' \/ Suspended(q)'
    <3>1. faults'.n = 0 /\ faults'.kinds # {}
      BY <1>d, <2>1, <2>7 DEF Suspended, Shifts
    <3>2. CASE q \notin present'
      BY <2>1, <2>7, <3>1, <3>2 DEF Suspended, Missing
    <3>3. CASE q \in present'
      <4>1. q = p /\ p \notin present
        BY <2>6, <2>7, <3>3 DEF Suspended, Missing
      <4>2. Matches(cursors[q], content'[q]) => cursors[q] = <<>>
        BY <2>5, <2>7, <3>3, <4>1 DEF Suspended
      <4>3. Supported(q)'
        BY <1>a, <2>1, <4>2, EmptyIsCovered, EmptySeq DEF Supported, Covered
      <4>4. QED
        BY <4>3
    <3>4. QED
      BY <3>2, <3>3
  <2>8. (\A q \in Paths : Supported(q)' \/ Suspended(q)') \/ (~up' /\ rows' = NoRows)
    BY <1>a, <2>1, <2>4, <2>7 DEF CoverInv
  <2>9. Ingesting => (Matches(cursors[job.path], content'[job.path])
                        => Matches(cursors[job.path], job.snap))
    BY <1>a, <2>3 DEF CoverInv, JobInv
  <2>10. ASSUME job.step = "delete", NEW q \in job.gone,
                q \in present', Matches(cursors[q], content'[q])
         PROVE  cursors[q] = <<>>
    <3>1. q \in Paths /\ faults.kinds # {}
      BY <1>a, <1>c, <2>10 DEF JobType
    <3>2. CASE q \in present
      BY <1>a, <2>3, <2>10, <3>1, <3>2 DEF CoverInv
    <3>3. CASE q \notin present
      BY <2>5, <2>6, <2>10, <3>1, <3>3
    <3>4. QED
      BY <3>2, <3>3
  <2>11. QED
    BY <1>a, <2>1, <2>8, <2>9, <2>10 DEF CoverInv, Ingesting, Covered
<1>2. ASSUME NEW who \in {"one", "dir"}, NEW p \in Paths, Begin(who, p) PROVE CoverInv'
  <2>1. /\ job'.step = "commit" /\ job'.path = p
        /\ job'.snap = content[p] /\ job'.start = ResumeAt(p)
        /\ UNCHANGED <<content, rows, cursors>> /\ up /\ job = NoJob
    BY <1>2, <1>a, BeginEffect DEF Begin, shards
  <2>2. \A q \in Paths : Supported(q)
    BY <1>a, <1>e, <2>1
  <2>3. Covered(content[p], p, ResumeAt(p))
    <3>1. CASE Matches(cursors[p], content[p])
      <4>1. ResumeAt(p) = Len(cursors[p]) /\ Covered(cursors[p], p, Len(cursors[p]))
        BY <2>2, <3>1 DEF ResumeAt, Supported
      <4>2. \A k \in 1..Len(cursors[p]) : cursors[p][k] = content[p][k]
        BY <3>1 DEF Matches
      <4>3. QED
        BY <4>1, <4>2 DEF Covered, Place
    <3>2. CASE ~Matches(cursors[p], content[p])
      BY <3>2 DEF ResumeAt, Covered
    <3>3. QED
      BY <3>1, <3>2
  <2>4. \A q \in Paths : Supported(q)'
    BY <2>1, <2>2 DEF Supported, Covered
  <2>5. QED
    BY <2>1, <2>3, <2>4 DEF CoverInv, Ingesting, Covered
<1>3. CASE Commit
  <2> DEFINE s == job.snap  at == job.start  pj == job.path
  <2>1. /\ UNCHANGED <<content, cursors>> /\ job.step = "commit" /\ pj \in Paths
        /\ Distinct(s) /\ at <= Len(s) /\ up
    BY <1>3, <1>a, NoJobFacts DEF Commit, shards, ShardInv, JobInv, Ingesting
  <2>2. /\ \A k \in 1..Len(s) :
             rows'[s[k].id] = IF k > at THEN Place(s, pj, k) ELSE rows[s[k].id]
        /\ \A i \in Ids : ~Has(s, i) =>
             rows'[i] = IF at = 0 /\ rows[i].path = pj THEN NoRow ELSE rows[i]
        /\ job'.step = "save" /\ job'.path = pj /\ job'.snap = s
    BY <1>3, <1>a, CommitEffect
  <2>3. \A k \in 1..Len(s) : rows'[s[k].id] = Place(s, pj, k)
    <3>1. SUFFICES ASSUME NEW k \in 1..Len(s), ~(k > at) PROVE rows[s[k].id] = Place(s, pj, k)
      BY <2>2
    <3>2. at \in Nat /\ k \in 1..at
      BY <1>a, <3>1, LineFacts DEF JobType
    <3>3. QED
      BY <1>a, <2>1, <3>2 DEF CoverInv, Covered
  <2>4. ASSUME NEW q \in Paths, Matches(cursors[q], content[q]),
               NEW k \in 1..Len(cursors[q])
        PROVE  rows'[cursors[q][k].id] = Place(cursors[q], q, k)
    <3>1. rows[cursors[q][k].id] = Place(cursors[q], q, k)
      BY <1>e, <2>1, <2>4 DEF Supported, Covered
    <3>2. cursors[q] \in Seq(Line) /\ cursors[q][k].id \in Ids
      BY <1>a, <2>4, LineFacts
    <3>3. CASE q = pj
      <4>1. Matches(cursors[q], s)
        BY <1>a, <2>1, <2>4, <3>3 DEF CoverInv, Ingesting
      <4>2. k \in 1..Len(s) /\ s[k] = cursors[q][k]
        BY <1>a, <2>4, <3>2, <4>1, LineFacts DEF Matches
      <4>3. QED
        BY <2>3, <3>3, <4>2 DEF Place
    <3>4. CASE q # pj
      <4>1. k \in 1..Len(content[q]) /\ content[q][k] = cursors[q][k]
        BY <1>a, <2>4, <3>2, LineFacts DEF Matches
      <4>2. Has(content[q], cursors[q][k].id)
        BY <1>a, <4>1, HasFacts
      <4>3. ~Has(s, cursors[q][k].id)
        BY <1>a, <2>1, <3>2, <3>4, <4>2 DEF ShardInv, Ingesting
      <4>4. rows[cursors[q][k].id].path # pj
        BY <3>1, <3>4 DEF Place
      <4>5. QED
        BY <2>2, <3>1, <3>2, <4>3, <4>4
    <3>5. QED
      BY <3>3, <3>4
  <2>5. \A q \in Paths : Supported(q)'
    BY <2>1, <2>4 DEF Supported, Covered
  <2>6. Matches(cursors[pj], content[pj]) => Matches(cursors[pj], s)
    BY <1>a, <2>1 DEF CoverInv, Ingesting
  <2>7. QED
    BY <2>1, <2>2, <2>3, <2>5, <2>6 DEF CoverInv, Ingesting, Covered
<1>4. CASE SaveCursor
  <2>1. /\ UNCHANGED <<content, rows>> /\ job.step = "save" /\ job' = NoJob
        /\ cursors' = [cursors EXCEPT ![job.path] = job.snap]
        /\ Covered(job.snap, job.path, Len(job.snap)) /\ up /\ job.path \in Paths
    BY <1>4, <1>a DEF SaveCursor, shards, CoverInv, JobInv, Ingesting
  <2>2. \A q \in Paths : Supported(q)'
    <3>1. SUFFICES ASSUME NEW q \in Paths PROVE Supported(q)'
      OBVIOUS
    <3>2. CASE q = job.path
      BY <1>a, <2>1, <3>2 DEF Supported, Covered
    <3>3. CASE q # job.path
      BY <1>a, <1>e, <2>1, <3>3 DEF Supported, Covered
    <3>4. QED
      BY <3>2, <3>3
  <2>3. QED
    BY <1>a, <1>f, <2>1, <2>2
<1>5. CASE IngestFails
  <2>1. UNCHANGED <<content, rows, cursors>> /\ job' = NoJob /\ up /\ job.step # "delete"
    BY <1>5, <1>a DEF IngestFails, shards, JobInv
  <2>2. \A q \in Paths : Supported(q)'
    BY <1>e, <2>1 DEF Supported, Covered
  <2>3. QED
    BY <1>a, <1>f, <2>1, <2>2
<1>6. CASE PassStart
  <2>1. /\ UNCHANGED <<content, rows, cursors, job, up>> /\ up /\ ~pass.on
    BY <1>6 DEF PassStart, shards
  <2>2. job.step # "delete"
    BY <1>a, <2>1 DEF JobInv
  <2>3. \A q \in Paths : Supported(q)'
    BY <1>e, <2>1, <2>2 DEF Supported, Covered
  <2>4. QED
    BY <1>a, <2>1, <2>2, <2>3 DEF CoverInv, Ingesting, Covered
<1>7. CASE \E p \in Paths : PassSkip(p)
  <2>1. UNCHANGED <<content, rows, cursors, job>> /\ up /\ job = NoJob
    BY <1>7 DEF PassSkip, shards
  <2>2. \A q \in Paths : Supported(q)'
    BY <1>a, <1>e, <2>1 DEF Supported, Covered
  <2>3. QED
    BY <1>a, <1>f, <2>1, <2>2
<1>8. CASE SweepFind
  <2> DEFINE gone == {p \in Paths : (\E i \in Ids : rows[i].path = p) /\ Missing(p)}
  <2>1. /\ UNCHANGED <<shards, rows, cursors>> /\ up /\ job = NoJob
        /\ job' = [NoJob EXCEPT !.who = "dir", !.step = "delete", !.gone = gone]
    BY <1>8 DEF SweepFind
  <2>2. job'.step = "delete" /\ job'.gone = gone
    <3> HIDE DEF gone
    <3>1. QED
      BY <2>1 DEF NoJob
  <2>3. \A q \in Paths : Supported(q)'
    BY <1>a, <1>e, <2>1 DEF Supported, Covered, shards
  <2>4. \A p \in job'.gone : p \notin present'
    BY <2>1, <2>2 DEF Missing, shards
  <2>5. QED
    BY <2>2, <2>3, <2>4 DEF CoverInv, Ingesting
<1>9. ASSUME NEW p \in Paths, SweepDelete(p) PROVE CoverInv'
  <2>1. /\ UNCHANGED <<shards, cursors, up, pass, faults>>
        /\ job.step = "delete" /\ p \in job.gone
        /\ rows' = [i \in Ids |-> IF rows[i].path = p THEN NoRow ELSE rows[i]]
        /\ job' = [job EXCEPT !.gone = @ \ {p}]
    BY <1>9 DEF SweepDelete
  <2>2. job'.step = "delete" /\ job'.gone = job.gone \ {p}
    BY <1>a, <2>1 DEF JobType
  <2>3. faults.kinds # {} /\ faults.n = 0 /\ up /\ p \notin pass.known
    BY <1>a, <1>c, <1>d, <2>1, NoJobFacts DEF JobInv
  <2>4. ASSUME NEW q \in Paths PROVE Supported(q)' \/ Suspended(q)'
    <3>1. CASE q = p
      <4>1. CASE p \in present
        <5>1. Matches(cursors[p], content[p]) => cursors[p] = <<>>
          BY <1>a, <2>1, <4>1 DEF CoverInv
        <5>2. Supported(q)'
          BY <1>a, <2>1, <3>1, <5>1, EmptySeq DEF Supported, Covered, shards
        <5>3. QED
          BY <5>2
      <4>2. CASE p \notin present
        BY <2>1, <2>2, <2>3, <3>1, <4>2 DEF Suspended, Missing, shards
      <4>3. QED
        BY <4>1, <4>2
    <3>2. CASE q # p /\ Supported(q)
      <4>1. ASSUME Matches(cursors[q], content[q]), NEW k \in 1..Len(cursors[q])
            PROVE  rows'[cursors[q][k].id] = Place(cursors[q], q, k)
        <5>1. rows[cursors[q][k].id] = Place(cursors[q], q, k)
          BY <3>2, <4>1 DEF Supported, Covered
        <5>2. cursors[q][k].id \in Ids /\ rows[cursors[q][k].id].path # p
          BY <1>a, <3>2, <4>1, <5>1, LineFacts DEF Place
        <5>3. QED
          BY <2>1, <5>1, <5>2
      <4>2. QED
        BY <2>1, <4>1 DEF Supported, Covered, shards
    <3>3. CASE Suspended(q)
      BY <2>1, <2>2, <3>3 DEF Suspended, Missing, shards
    <3>4. QED
      BY <1>a, <2>3, <3>1, <3>2, <3>3 DEF CoverInv
  <2>5. \A q \in job'.gone : q \in present' /\ Matches(cursors'[q], content'[q]) => cursors'[q] = <<>>
    BY <1>a, <2>1, <2>2 DEF CoverInv, shards
  <2>6. QED
    BY <2>2, <2>4, <2>5 DEF CoverInv, Ingesting
<1>10. CASE SweepCursors
  <2>1. /\ UNCHANGED <<shards, rows>> /\ job.step = "delete" /\ job' = NoJob
        /\ cursors' = [p \in Paths |-> IF Missing(p) THEN <<>> ELSE cursors[p]]
    BY <1>10 DEF SweepCursors
  <2>2. up
    BY <1>a, <2>1 DEF JobInv
  <2>3. ASSUME NEW q \in Paths PROVE Supported(q)'
    <3>1. CASE Missing(q)
      BY <2>1, <3>1, EmptySeq DEF Supported, Covered
    <3>2. CASE ~Missing(q)
      BY <1>a, <2>1, <2>2, <3>2 DEF CoverInv, Suspended, Supported, Covered, shards
    <3>3. QED
      BY <3>1, <3>2
  <2>4. QED
    BY <1>a, <1>f, <2>1, <2>3
<1>11. CASE SweepFails \/ Crash
  <2>1. /\ UNCHANGED <<shards, rows, cursors>> /\ job' = NoJob /\ faults'.n > 0 /\ up
    BY <1>11, <1>a, <1>b DEF SweepFails, Crash, Stop, JobInv
  <2>2. ~(\E q \in Paths : Suspended(q))
    BY <1>d, <2>1 DEF Suspended
  <2>3. \A q \in Paths : Supported(q)'
    BY <1>a, <2>1, <2>2 DEF CoverInv, Supported, Covered, shards
  <2>4. QED
    BY <1>a, <1>f, <2>1, <2>3
<1>12. CASE PowerLoss
  BY <1>12, <1>b DEF PowerLoss, Sound, Hiding
<1>13. CASE DeleteDB
  <2>1. ~up' /\ rows' = NoRows /\ job' = job /\ job = NoJob
    BY <1>13, <1>a DEF DeleteDB, JobInv
  <2>2. QED
    BY <1>a, <2>1 DEF CoverInv, Ingesting
<1>14. CASE Restart
  <2>1. /\ UNCHANGED <<shards, rows, job, pass, faults>> /\ ~up /\ cursors' = Reconciled
        /\ job = NoJob
    BY <1>14, <1>a DEF Restart, JobInv
  <2>2. ASSUME NEW q \in Paths PROVE Supported(q)'
    <3>1. CASE rows = NoRows
      BY <2>1, <3>1, EmptySeq DEF Reconciled, NoCursors, Supported, Covered
    <3>2. CASE rows # NoRows
      BY <1>a, <2>1, <3>2 DEF Reconciled, CoverInv, Suspended, Supported, Covered, shards
    <3>3. QED
      BY <3>1, <3>2
  <2>3. QED
    BY <1>a, <1>f, <2>1, <2>2
<1>15. CASE Checkpoint \/ UNCHANGED vars
  BY <1>15, <1>a
  DEF Checkpoint, vars, shards, CoverInv, Ingesting, Supported, Covered, Suspended, Missing
<1>16. QED
  BY <1>1, <1>2, <1>3, <1>4, <1>5, <1>6, <1>7, <1>8, <1>9, <1>10, <1>11, <1>12,
     <1>13, <1>14, <1>15
  DEF Next, Change, ChangeOf, IngestStep, PassStep, PassIngest

-------------------------------------------------------------------------------
(* A pass without errors and changes leaves every line with its row. *)

Freshness == Sound => FreshInv

LEMMA FreshInit == Init => FreshInv
BY NoJobFacts DEF Init, FreshInv, Ingesting

\* What is true of a job whose shard has not changed since it was read.
LEMMA FreshCommit ==
  ASSUME Base, CoverInv, Commit, job.snap = content[job.path], NEW q \in Paths, AllRows(q)
  PROVE  AllRows(q)'
<1> DEFINE s == job.snap  pj == job.path
<1>1. /\ TypeOK /\ ShardInv /\ JobInv /\ UNCHANGED content /\ pj \in Paths
      /\ s \in Seq(Line) /\ content[q] \in Seq(Line) /\ job.start \in Nat /\ Ingesting
      /\ job.step = "commit"
  BY DEF Base, TypeOK, JobInv, Commit, Ingesting, shards
<1>2. SUFFICES ASSUME NEW k \in 1..Len(content[q])
               PROVE  rows'[content[q][k].id] = Place(content[q], q, k)
  BY <1>1 DEF AllRows, Covered
<1>3. rows[content[q][k].id] = Place(content[q], q, k) /\ content[q][k].id \in Ids
  BY <1>1, LineFacts DEF AllRows, Covered
<1>4. CASE q = pj
  <2>1. rows'[s[k].id] = IF k > job.start THEN Place(s, pj, k) ELSE rows[s[k].id]
    BY <1>1, <1>2, <1>4, CommitEffect
  <2>2. QED
    BY <1>3, <1>4, <2>1
<1>5. CASE q # pj
  <2>1. Has(content[q], content[q][k].id)
    BY <1>1, HasFacts
  <2>2. ~Has(s, content[q][k].id)
    BY <1>1, <1>3, <1>5, <2>1 DEF ShardInv
  <2>3. rows[content[q][k].id].path # pj
    BY <1>3, <1>5 DEF Place
  <2>4. QED
    BY <1>1, <1>3, <2>2, <2>3, CommitEffect
<1>6. QED
  BY <1>4, <1>5

LEMMA FreshStep == Base /\ Covering /\ Freshness /\ [Next]_vars => Freshness'
<1> SUFFICES ASSUME Base, Covering, Freshness, [Next]_vars, Sound' PROVE FreshInv'
  BY DEF Freshness
<1>a. /\ TypeOK /\ ShardInv /\ JobInv /\ Sound /\ CoverInv /\ FreshInv
      /\ content \in [Paths -> Seq(Line)] /\ cursors \in [Paths -> Seq(Line)]
      /\ rows \in TableType /\ job \in JobType /\ pass \in PassType
      /\ present \subseteq Paths /\ pass.known \subseteq Paths
      /\ NoJob.step = "idle" /\ NoPass.on = FALSE
  BY FaultsGrow, NoJobFacts
  DEF Base, TypeOK, TableType, JobType, PassType, Covering, Freshness, Sound
<1>b. up /\ job.step # "delete" => \A p \in Paths : Supported(p)
  BY <1>a DEF CoverInv, Suspended
<1>1. ASSUME NEW p \in Paths, ChangeOf(p) PROVE FreshInv'
  <2>1. settled' = FALSE /\ pass'.good = FALSE
    BY <1>1, <1>a, ChangeShifts, ChangedEffect DEF Shifts, Changed
  <2>2. QED
    BY <2>1 DEF FreshInv
<1>2. ASSUME NEW who \in {"one", "dir"}, NEW p \in Paths, Begin(who, p) PROVE FreshInv'
  <2>1. /\ job'.path = p /\ job'.snap = content[p] /\ p \in present
        /\ UNCHANGED <<shards, rows, pass, settled>>
    BY <1>2, <1>a, BeginEffect DEF Begin
  <2>2. QED
    BY <1>a, <2>1 DEF FreshInv, Done, AllRows, Covered, shards
<1>3. CASE Commit
  <2>1. /\ UNCHANGED <<shards, pass, settled>> /\ Ingesting
        /\ job'.path = job.path /\ job'.snap = job.snap /\ job'.who = job.who
    BY <1>3, <1>a, CommitEffect DEF Commit, Ingesting
  <2>2. job.snap = content[job.path] => \A q \in Paths : AllRows(q) => AllRows(q)'
    BY <1>3, <1>a, FreshCommit
  <2>3. pass.on /\ pass.good => \A q \in Done : AllRows(q)'
    BY <1>a, <2>1, <2>2 DEF FreshInv, Done
  <2>4. settled => \A q \in present : AllRows(q)'
    BY <1>a, <2>1, <2>2 DEF FreshInv
  <2>5. QED
    BY <1>a, <2>1, <2>3, <2>4 DEF FreshInv, Done, shards
<1>4. CASE SaveCursor
  <2>1. /\ UNCHANGED <<shards, rows, settled>> /\ job' = NoJob /\ Ingesting
        /\ Covered(job.snap, job.path, Len(job.snap))
        /\ pass' = PassAfter(job, TRUE) /\ job.path \in Paths
    BY <1>4, <1>a DEF SaveCursor, CoverInv, Ingesting, JobInv
  <2>2. /\ pass'.on = pass.on /\ pass'.known = pass.known
        /\ job.who = "dir" => /\ pass'.todo = pass.todo \ {job.path}
                              /\ pass'.good <=> pass.good
        /\ job.who # "dir" => pass' = pass
    BY <1>a, <2>1, PassAfterEffect
  <2>3. ~Ingesting'
    BY <1>a, <2>1 DEF Ingesting
  <2>4. ASSUME pass'.on, pass'.good PROVE pass'.known = present /\ \A q \in Done' : AllRows(q)
    <3>1. pass.on /\ pass.good /\ pass.known = present
      BY <1>a, <2>2, <2>4 DEF FreshInv
    <3>2. \A q \in Done : AllRows(q)
      BY <1>a, <3>1 DEF FreshInv
    <3>3. CASE job.who = "dir"
      <4>1. AllRows(job.path)
        BY <1>a, <2>1, <3>1, <3>3 DEF FreshInv, AllRows
      <4>2. \A q \in Done' : q \in Done \/ q = job.path
        BY <2>2, <3>3 DEF Done
      <4>3. QED
        BY <2>2, <3>1, <3>2, <4>1, <4>2
    <3>4. CASE job.who # "dir"
      BY <2>2, <3>1, <3>2, <3>4 DEF Done
    <3>5. QED
      BY <3>3, <3>4
  <2>5. \A q : AllRows(q) => AllRows(q)'
    BY <2>1 DEF AllRows, Covered, shards
  <2>6. QED
    BY <1>a, <2>1, <2>2, <2>3, <2>4, <2>5 DEF FreshInv, shards
<1>5. CASE IngestFails
  <2>1. /\ UNCHANGED <<shards, rows, settled>> /\ job' = NoJob
        /\ pass' = PassAfter(job, FALSE)
    BY <1>5 DEF IngestFails
  <2>2. /\ pass'.on = pass.on /\ pass'.known = pass.known
        /\ job.who = "dir" => ~pass'.good
        /\ job.who # "dir" => pass' = pass
    BY <1>a, <2>1, PassAfterEffect
  <2>3. ~Ingesting'
    BY <1>a, <2>1 DEF Ingesting
  <2>4. QED
    BY <1>a, <2>1, <2>2, <2>3 DEF FreshInv, Done, AllRows, Covered, shards
<1>6. CASE PassStart
  <2>1. /\ UNCHANGED <<shards, rows, job, settled>> /\ ~pass.on
        /\ pass' = [on |-> TRUE, known |-> present, todo |-> present, good |-> TRUE]
    BY <1>6 DEF PassStart
  <2>2. Done' = {} /\ job.who # "dir" /\ pass'.known = present
    BY <1>a, <2>1 DEF Done, JobInv
  <2>3. QED
    BY <1>a, <2>1, <2>2 DEF FreshInv, Ingesting, AllRows, Covered, shards
<1>7. ASSUME NEW p \in Paths, PassSkip(p) PROVE FreshInv'
  <2>1. /\ UNCHANGED <<shards, rows, job, settled>> /\ job = NoJob /\ up /\ pass.on
        /\ p \notin present \/ CaughtUp(p)
        /\ pass' = [pass EXCEPT !.todo = @ \ {p}, !.good = @ /\ p \in present]
    BY <1>7 DEF PassSkip
  <2>2. /\ pass'.on = pass.on /\ pass'.known = pass.known /\ pass'.todo = pass.todo \ {p}
        /\ pass'.good <=> (pass.good /\ p \in present)
    BY <1>a, <2>1 DEF PassType
  <2>3. ~Ingesting'
    BY <1>a, <2>1 DEF Ingesting
  <2>4. CaughtUp(p) => AllRows(p)
    <3>1. SUFFICES ASSUME CaughtUp(p) PROVE AllRows(p)
      OBVIOUS
    <3>2. Matches(cursors[p], content[p]) /\ Len(cursors[p]) = Len(content[p])
      BY <1>a, <3>1, LineFacts DEF CaughtUp, ResumeAt
    <3>3. Covered(cursors[p], p, Len(cursors[p]))
      BY <1>a, <1>b, <2>1, <3>2 DEF Supported
    <3>4. QED
      BY <3>2, <3>3 DEF AllRows, Covered, Matches, Place
  <2>5. Done' \subseteq Done \cup {p}
    BY <2>2 DEF Done
  <2>6. \A q : AllRows(q) => AllRows(q)'
    BY <2>1 DEF AllRows, Covered, shards
  <2>7. pass'.on /\ pass'.good => pass'.known = present /\ \A q \in Done' : AllRows(q)
    BY <1>a, <2>1, <2>2, <2>4, <2>5 DEF FreshInv
  <2>8. QED
    BY <1>a, <2>1, <2>2, <2>3, <2>6, <2>7 DEF FreshInv, shards
<1>8. CASE SweepFind
  <2>1. UNCHANGED <<shards, rows, pass, settled>> /\ job'.step = "delete"
    BY <1>8 DEF SweepFind, NoJob
  <2>2. QED
    BY <1>a, <2>1 DEF FreshInv, Ingesting, Done, AllRows, Covered, shards
<1>9. ASSUME NEW p \in Paths, SweepDelete(p) PROVE FreshInv'
  <2>1. /\ UNCHANGED <<shards, pass, settled>> /\ job'.step = "delete"
        /\ p \notin pass.known /\ pass.on
        /\ rows' = [i \in Ids |-> IF rows[i].path = p THEN NoRow ELSE rows[i]]
    BY <1>9, <1>a DEF SweepDelete, JobType, JobInv
  <2>2. ASSUME NEW q \in Paths, q # p, AllRows(q) PROVE AllRows(q)'
    <3>1. SUFFICES ASSUME NEW k \in 1..Len(content[q])
                   PROVE  rows'[content[q][k].id] = Place(content[q], q, k)
      BY <2>1 DEF AllRows, Covered, shards
    <3>2. /\ rows[content[q][k].id] = Place(content[q], q, k) /\ content[q][k].id \in Ids
          /\ rows[content[q][k].id].path # p
      BY <1>a, <2>2, LineFacts DEF AllRows, Covered, Place
    <3>3. QED
      BY <2>1, <3>2
  <2>3. pass.good => \A q \in Done : AllRows(q)'
    BY <1>a, <2>1, <2>2 DEF FreshInv, Done
  <2>4. settled => \A q \in present : AllRows(q)'
    BY <1>a, <2>1, <2>2 DEF FreshInv
  <2>5. QED
    BY <1>a, <2>1, <2>3, <2>4 DEF FreshInv, Ingesting, Done, shards
<1>10. CASE SweepCursors
  <2>1. /\ UNCHANGED <<shards, rows>> /\ job.step = "delete" /\ job' = NoJob /\ pass' = NoPass
        /\ settled' = pass.good
    BY <1>10 DEF SweepCursors
  <2>2. pass.good => pass.known = present /\ Done = pass.known /\ \A q \in Done : AllRows(q)
    BY <1>a, <2>1 DEF FreshInv, JobInv, Done
  <2>3. QED
    BY <1>a, <2>1, <2>2 DEF FreshInv, Ingesting, AllRows, Covered, shards
<1>11. CASE SweepFails
  <2>1. /\ UNCHANGED <<shards, rows, settled>> /\ job' = NoJob /\ pass' = NoPass
    BY <1>11 DEF SweepFails
  <2>2. QED
    BY <1>a, <2>1 DEF FreshInv, Ingesting, AllRows, Covered, shards
<1>12. CASE Crash \/ PowerLoss
  BY <1>12, <1>a DEF Crash, PowerLoss, Stop, FreshInv
<1>13. CASE DeleteDB
  BY <1>13, <1>a DEF DeleteDB, JobInv, FreshInv
<1>14. CASE Restart \/ Checkpoint \/ UNCHANGED vars
  BY <1>14, <1>a DEF Restart, Checkpoint, vars, shards, FreshInv, Ingesting, Done, AllRows, Covered
<1>15. QED
  BY <1>1, <1>2, <1>3, <1>4, <1>5, <1>6, <1>7, <1>8, <1>9, <1>10, <1>11, <1>12,
     <1>13, <1>14
  DEF Next, Change, ChangeOf, IngestStep, PassStep, PassIngest

-------------------------------------------------------------------------------
(* Where nothing has failed, no row is left over. *)

Exactness == faults.n = 0 => ExactInv

LEMMA ExactInit == Init => ExactInv
<1>1. SUFFICES ASSUME Init PROVE ExactInv
  OBVIOUS
<1>2. \A p \in Paths : cursors[p] = <<>>
  BY <1>1 DEF Init, NoCursors
<1>3. job.step = "idle" /\ ~pass.on /\ ~settled
  BY <1>1, NoJobFacts DEF Init
<1>4. QED
  BY <1>2, <1>3 DEF ExactInv, Exact

LEMMA HasPrefix ==
  ASSUME NEW c \in Seq(Line), NEW t \in Seq(Line), Matches(c, t), NEW p, Only(p, c)
  PROVE  Only(p, t)
<1>1. ASSUME NEW i \in Ids, Has(c, i) PROVE Has(t, i)
  <2>1. PICK k \in 1..Len(c) : c[k].id = i
    BY <1>1, HasFacts
  <2>2. k \in 1..Len(t) /\ t[k] = c[k]
    BY LineFacts DEF Matches
  <2>3. QED
    BY <2>1, <2>2, HasFacts
<1>2. QED
  BY <1>1 DEF Only, RowsOf

LEMMA ExactStep ==
  Base /\ Covering /\ Freshness /\ Exactness /\ [Next]_vars => Exactness'
<1> SUFFICES ASSUME Base, Covering, Freshness, Exactness, [Next]_vars, faults'.n = 0
             PROVE  ExactInv'
  BY DEF Exactness
<1>a. /\ TypeOK /\ ShardInv /\ JobInv /\ CoverInv /\ FreshInv /\ ExactInv /\ faults.n = 0
      /\ content \in [Paths -> Seq(Line)] /\ cursors \in [Paths -> Seq(Line)]
      /\ rows \in TableType /\ job \in JobType /\ pass \in PassType
      /\ present \subseteq Paths /\ pass.known \subseteq Paths
      /\ NoJob.step = "idle" /\ NoPass.on = FALSE /\ NoRow.path = 0 /\ 0 \notin Paths
  BY FaultsGrow, NoJobFacts, IdFacts
  DEF Base, TypeOK, TableType, JobType, PassType, Covering, Freshness, Exactness, Sound, NoRow
<1>b. up
  BY <1>a DEF JobInv
<1>c. \A kind : ~Fault(kind)
  BY <1>a, FaultCounts
<1>d. \A p \in Paths : Exact(p) \/ (job.step = "save" /\ job.path = p)
  BY <1>a DEF ExactInv
<1>e. job.step # "save" => \A p \in Paths : Exact(p)
  BY <1>d
<1>1. ASSUME NEW p \in Paths, ChangeOf(p) PROVE ExactInv'
  <2>1. /\ settled' = FALSE /\ pass'.good = FALSE /\ UNCHANGED <<rows, cursors, job>>
        /\ \A q \in Paths : Evolves(content[q], content'[q], born)
    BY <1>1, <1>a, ChangeShifts, ChangedEffect DEF Shifts, Changed
  <2>2. \A q \in Paths : Matches(cursors[q], content'[q]) => Matches(cursors[q], content[q])
    BY <1>a, <2>1 DEF Evolves, ShardInv, Written
  <2>3. \A q \in Paths : Exact(q) => Exact(q)'
    BY <2>1, <2>2 DEF Exact, Only, RowsOf
  <2>4. QED
    BY <1>a, <2>1, <2>3 DEF ExactInv, Only, RowsOf
<1>2. ASSUME NEW who \in {"one", "dir"}, NEW p \in Paths, Begin(who, p) PROVE ExactInv'
  <2>1. /\ job'.step = "commit" /\ job'.path = p /\ job'.snap = content[p]
        /\ job'.start = ResumeAt(p) /\ job = NoJob
        /\ UNCHANGED <<shards, rows, cursors, pass, settled>>
    BY <1>2, <1>a, BeginEffect DEF Begin
  <2>2. \A q \in Paths : Exact(q)'
    BY <1>a, <1>e, <2>1 DEF Exact, Only, RowsOf, shards
  <2>3. ResumeAt(p) > 0 => Only(p, content[p])
    <3>1. SUFFICES ASSUME ResumeAt(p) > 0 PROVE Only(p, content[p])
      OBVIOUS
    <3>2. Matches(cursors[p], content[p]) /\ cursors[p] # <<>>
      BY <1>a, <3>1, EmptySeq DEF ResumeAt
    <3>3. Only(p, cursors[p])
      BY <1>a, <1>e, <2>1, <3>2 DEF Exact
    <3>4. QED
      BY <1>a, <3>2, <3>3, HasPrefix
  <2>4. QED
    BY <1>a, <2>1, <2>2, <2>3 DEF ExactInv, Only, RowsOf, Done, shards
<1>3. CASE Commit
  <2> DEFINE s == job.snap  pj == job.path
  <2>1. /\ UNCHANGED <<shards, cursors, pass, settled>> /\ job.step = "commit" /\ Ingesting
        /\ job'.step = "save" /\ job'.path = pj /\ job'.snap = s /\ job'.start = job.start
        /\ pj \in Paths /\ s \in Seq(Line) /\ job.start \in Nat
    BY <1>3, <1>a, CommitEffect DEF Commit, Ingesting, JobInv, JobType
  <2>2. ASSUME NEW i \in Ids
        PROVE  \/ Has(s, i) /\ rows'[i].path \in {pj, rows[i].path}
               \/ ~Has(s, i) /\ rows'[i] = IF job.start = 0 /\ rows[i].path = pj
                                             THEN NoRow ELSE rows[i]
    <3>1. CASE Has(s, i)
      <4>1. PICK k \in 1..Len(s) : s[k].id = i
        BY <2>1, <3>1, HasFacts
      <4>2. rows'[i] \in {Place(s, pj, k), rows[i]}
        BY <1>3, <1>a, <4>1, CommitEffect
      <4>3. QED
        BY <3>1, <4>2 DEF Place
    <3>2. CASE ~Has(s, i)
      BY <1>3, <1>a, <3>2, CommitEffect
    <3>3. QED
      BY <3>1, <3>2
  <2>3. \A q \in Paths : q # pj => RowsOf(q)' \subseteq RowsOf(q)
    BY <1>a, <2>2 DEF RowsOf
  <2>4. Only(pj, s)'
    <3>1. SUFFICES ASSUME NEW i \in Ids, rows'[i].path = pj PROVE Has(s, i)
      BY <2>1 DEF Only, RowsOf
    <3>2. SUFFICES ASSUME ~Has(s, i) PROVE FALSE
      OBVIOUS
    <3>3. rows[i].path = pj /\ job.start # 0
      BY <1>a, <2>1, <2>2, <3>1, <3>2
    <3>4. job.start > 0
      BY <2>1, <3>3
    <3>5. QED
      BY <1>a, <2>1, <3>2, <3>3, <3>4 DEF ExactInv, Only, RowsOf
  <2>5. \A q \in Paths : Exact(q)' \/ (job'.step = "save" /\ job'.path = q)
    BY <1>e, <2>1, <2>3 DEF Exact, Only, shards
  <2>6. ASSUME s = content[pj], NEW q \in Paths, Only(q, content[q]) PROVE Only(q, content[q])'
    BY <2>1, <2>3, <2>4, <2>6 DEF Only, shards
  <2>7. pass.on /\ pass.good => \A q \in Done : Only(q, content[q])'
    BY <1>a, <2>1, <2>6 DEF ExactInv, FreshInv, Done
  <2>8. settled => /\ \A q \in present : Only(q, content[q])'
                   /\ \A q \in Paths \ present : RowsOf(q)' = {}
    BY <1>a, <2>1, <2>3, <2>6 DEF ExactInv, FreshInv
  <2>9. QED
    BY <2>1, <2>4, <2>5, <2>7, <2>8 DEF ExactInv, Done, shards
<1>4. CASE SaveCursor
  <2>1. /\ UNCHANGED <<shards, rows, settled>> /\ job' = NoJob /\ Ingesting /\ job.step = "save"
        /\ cursors' = [cursors EXCEPT ![job.path] = job.snap]
        /\ pass' = PassAfter(job, TRUE) /\ job.path \in Paths /\ Only(job.path, job.snap)
    BY <1>4, <1>a DEF SaveCursor, ExactInv, Ingesting, JobInv
  <2>2. /\ pass'.on = pass.on /\ pass'.known = pass.known
        /\ job.who = "dir" => /\ pass'.todo = pass.todo \ {job.path}
                              /\ pass'.good <=> pass.good
        /\ job.who # "dir" => pass' = pass
    BY <1>a, <2>1, PassAfterEffect
  <2>3. \A q \in Paths : Exact(q)'
    BY <1>a, <1>d, <2>1 DEF Exact, Only, RowsOf, shards
  <2>4. ASSUME pass'.on, pass'.good, NEW q \in Done' PROVE Only(q, content[q])
    <3>1. pass.on /\ pass.good
      BY <2>2, <2>4
    <3>2. CASE job.who = "dir"
      <4>1. Only(job.path, content[job.path])
        BY <1>a, <2>1, <3>1, <3>2 DEF FreshInv
      <4>2. q \in Done \/ q = job.path
        BY <2>2, <2>4, <3>2 DEF Done
      <4>3. QED
        BY <1>a, <3>1, <4>1, <4>2 DEF ExactInv
    <3>3. CASE job.who # "dir"
      BY <1>a, <2>2, <2>4, <3>1, <3>3 DEF ExactInv, Done
    <3>4. QED
      BY <3>2, <3>3
  <2>5. QED
    BY <1>a, <2>1, <2>3, <2>4 DEF ExactInv, Only, RowsOf, shards
<1>5. CASE PassStart
  <2>1. /\ UNCHANGED <<shards, rows, cursors, job, settled>> /\ ~pass.on
        /\ pass' = [on |-> TRUE, known |-> present, todo |-> present, good |-> TRUE]
    BY <1>5 DEF PassStart
  <2>2. Done' = {} /\ job.step # "delete"
    BY <1>a, <2>1 DEF Done, JobInv
  <2>3. QED
    BY <1>a, <2>1, <2>2 DEF ExactInv, Exact, Only, RowsOf, shards
<1>6. ASSUME NEW p \in Paths, PassSkip(p) PROVE ExactInv'
  <2>1. /\ UNCHANGED <<shards, rows, cursors, job, settled>> /\ job = NoJob /\ pass.on
        /\ p \notin present \/ CaughtUp(p)
        /\ pass' = [pass EXCEPT !.todo = @ \ {p}, !.good = @ /\ p \in present]
    BY <1>6 DEF PassSkip
  <2>2. /\ pass'.todo = pass.todo \ {p} /\ pass'.known = pass.known
        /\ pass'.good <=> (pass.good /\ p \in present)
    BY <1>a, <2>1 DEF PassType
  <2>3. CaughtUp(p) => Only(p, content[p])
    <3>1. SUFFICES ASSUME CaughtUp(p) PROVE Only(p, content[p])
      OBVIOUS
    <3>2. Matches(cursors[p], content[p]) /\ cursors[p] # <<>>
      BY <1>a, <3>1, EmptySeq DEF CaughtUp, ResumeAt
    <3>3. Only(p, cursors[p])
      BY <1>a, <1>e, <2>1, <3>2 DEF Exact
    <3>4. QED
      BY <1>a, <3>2, <3>3, HasPrefix
  <2>4. Done' \subseteq Done \cup {p}
    BY <2>2 DEF Done
  <2>5. pass'.good => \A q \in Done' : Only(q, content[q])
    BY <1>a, <2>1, <2>2, <2>3, <2>4 DEF ExactInv
  <2>6. QED
    BY <1>a, <2>1, <2>5 DEF ExactInv, Exact, Only, RowsOf, shards
<1>7. CASE SweepFind
  <2> DEFINE gone == {p \in Paths : (\E i \in Ids : rows[i].path = p) /\ Missing(p)}
  <2>1. /\ UNCHANGED <<shards, rows, cursors, pass, settled>> /\ job = NoJob /\ pass.on
        /\ job' = [NoJob EXCEPT !.who = "dir", !.step = "delete", !.gone = gone]
    BY <1>7 DEF SweepFind
  <2>2. job'.step = "delete" /\ job'.gone = gone
    <3> HIDE DEF gone
    <3>1. QED
      BY <2>1 DEF NoJob
  <2>3. pass.good => \A p \in Paths \ pass.known : RowsOf(p) # {} => p \in gone
    BY <1>a, <2>1 DEF FreshInv, Missing, RowsOf
  <2> HIDE DEF gone
  <2>4. \A q \in Paths : Exact(q)'
    BY <1>a, <1>e, <2>1 DEF Exact, Only, RowsOf, shards
  <2>5. QED
    BY <1>a, <2>1, <2>2, <2>3, <2>4 DEF ExactInv, Only, RowsOf, Done, shards
<1>8. ASSUME NEW p \in Paths, SweepDelete(p) PROVE ExactInv'
  <2>1. /\ UNCHANGED <<shards, cursors, pass, settled>> /\ job.step = "delete"
        /\ job'.step = "delete" /\ job'.gone = job.gone \ {p}
        /\ rows' = [i \in Ids |-> IF rows[i].path = p THEN NoRow ELSE rows[i]]
    BY <1>8, <1>a DEF SweepDelete, JobType
  <2>2. /\ RowsOf(p)' = {}
        /\ \A q \in Paths : RowsOf(q)' \subseteq RowsOf(q)
    BY <1>a, <2>1 DEF RowsOf
  <2>3. \A q \in Paths : Exact(q)'
    BY <1>a, <1>e, <2>1, <2>2 DEF Exact, Only, shards
  <2>4. pass.good => \A q \in Paths \ pass.known : RowsOf(q)' # {} => q \in job'.gone
    BY <1>a, <2>1, <2>2 DEF ExactInv
  <2>5. /\ pass.on /\ pass.good => \A q \in Done : Only(q, content[q])'
        /\ settled => /\ \A q \in present : Only(q, content[q])'
                      /\ \A q \in Paths \ present : RowsOf(q)' = {}
    BY <1>a, <2>1, <2>2 DEF ExactInv, Only, Done, shards
  <2>6. QED
    BY <1>a, <2>1, <2>3, <2>4, <2>5 DEF ExactInv, Done, shards
<1>9. CASE SweepCursors
  <2>1. /\ UNCHANGED <<shards, rows>> /\ job.step = "delete" /\ job' = NoJob /\ pass' = NoPass
        /\ settled' = pass.good /\ job.gone = {} /\ pass.on
        /\ cursors' = [p \in Paths |-> IF Missing(p) THEN <<>> ELSE cursors[p]]
    BY <1>9, <1>a DEF SweepCursors, JobInv
  <2>2. \A q \in Paths : Exact(q)'
    BY <1>e, <2>1 DEF Exact, Only, RowsOf, shards
  <2>3. pass.good => pass.known = present /\ Done = pass.known
    BY <1>a, <2>1 DEF FreshInv, JobInv, Done
  <2>4. pass.good => /\ \A q \in present : Only(q, content[q])
                     /\ \A q \in Paths \ present : RowsOf(q) = {}
    BY <1>a, <2>1, <2>3 DEF ExactInv
  <2>5. QED
    BY <1>a, <2>1, <2>2, <2>4 DEF ExactInv, Only, RowsOf, shards
<1>10. CASE Restart
  BY <1>10, <1>b DEF Restart
<1>11. CASE Checkpoint \/ UNCHANGED vars
  BY <1>11, <1>a DEF Checkpoint, vars, shards, ExactInv, Exact, Only, RowsOf, Done
<1>12. QED
  BY <1>c, <1>1, <1>2, <1>3, <1>4, <1>5, <1>6, <1>7, <1>8, <1>9, <1>10, <1>11
  DEF Next, Change, ChangeOf, IngestStep, PassStep, PassIngest, IngestFails, SweepFails,
      Crash, PowerLoss, DeleteDB
-------------------------------------------------------------------------------
(* The properties. *)

AllInv == Base /\ Still /\ Covering /\ Freshness /\ Exactness

LEMMA AlwaysAllInv == Spec => []AllInv
<1>1. Init => AllInv
  BY BaseInit, StillInit, CoverInit, FreshInit, ExactInit
  DEF AllInv, Covering, Freshness, Exactness
<1>2. AllInv /\ [Next]_vars => AllInv'
  BY BaseStep, StillStep, CoverStep, FreshStep, ExactStep DEF AllInv
<1>3. QED
  BY <1>1, <1>2, PTL DEF Spec

(* Whatever crashes, errors and deleted tables there were, between ingests  *)
(* a cursor that still matches its shard has the row of every line under it *)
(* (IngestJSONL saves the cursor after the commit; NewIndex drops cursors   *)
(* that outlived the table).                                                *)
THEOREM CursorsCover == Spec => []CursorCovers
<1>1. ASSUME AllInv, job = NoJob, up, faults.kinds = {}, NEW p \in present,
             Matches(cursors[p], content[p]), NEW k \in 1..Len(cursors[p])
      PROVE  rows[content[p][k].id] = [path |-> p, off |-> k, ver |-> content[p][k].ver]
  <2>1. CoverInv /\ p \in Paths
    BY <1>1 DEF AllInv, Base, TypeOK, Covering, Sound
  <2>2. Supported(p) \/ Suspended(p)
    BY <1>1, <2>1 DEF CoverInv
  <2>3. ~Suspended(p)
    BY <1>1 DEF Suspended
  <2>4. rows[cursors[p][k].id] = Place(cursors[p], p, k)
    BY <1>1, <2>2, <2>3 DEF Supported, Covered
  <2>5. cursors[p][k] = content[p][k]
    BY <1>1 DEF Matches
  <2>6. QED
    BY <2>4, <2>5 DEF Place
<1>2. AllInv => CursorCovers
  BY <1>1 DEF CursorCovers
<1>3. QED
  BY <1>2, AlwaysAllInv, PTL

\* A line's row is the rebuilt one: an event has one line, in one shard.
LEMMA RebuiltAt ==
  ASSUME Base, NEW p \in present, NEW i \in Ids, Has(content[p], i)
  PROVE  /\ Rebuilt[i] = Place(content[p], p, LastAt(content[p], i))
         /\ LastAt(content[p], i) \in 1..Len(content[p])
         /\ content[p][LastAt(content[p], i)].id = i
         /\ Rebuilt[i] # NoRow
<1>1. p \in Paths /\ content[p] \in Seq(Line) /\ Distinct(content[p]) /\ Paths \subseteq Nat
      /\ 0 \notin Paths
  BY IdFacts DEF Base, TypeOK, ShardInv
<1>2. \A q \in Paths : HasIn(q, i) <=> q = p
  BY <1>1 DEF Base, ShardInv, HasIn
<1>3. (CHOOSE q \in Paths : HasIn(q, i) /\ \A r \in Paths : HasIn(r, i) => r <= q) = p
  <2>1. \A q \in Paths : (HasIn(q, i) /\ \A r \in Paths : HasIn(r, i) => r <= q) <=> q = p
    BY <1>1, <1>2
  <2>2. QED
    BY <1>1, <2>1
<1>4. Rebuilt[i] = RowOf(content[p], p, i)
  BY <1>1, <1>2, <1>3 DEF Rebuilt
<1>5. QED
  BY <1>1, <1>4, RowOfType DEF RowOf, Place, NoRow

\* An event that no shard has is not in what a rebuild gives.
LEMMA NotRebuilt ==
  ASSUME NEW i \in Ids, \A p \in Paths : ~HasIn(p, i)
  PROVE  Rebuilt[i] = NoRow
BY DEF Rebuilt

LEMMA CompleteWhenSettled == AllInv /\ settled /\ Sound => Complete
<1>1. SUFFICES ASSUME AllInv, settled, Sound, NEW i \in Ids, Rebuilt[i] # NoRow
               PROVE  rows[i] = Rebuilt[i]
  BY DEF Complete
<1>2. PICK p \in Paths : HasIn(p, i)
  BY <1>1, NotRebuilt
<1>3. p \in present /\ Has(content[p], i) /\ Base
  BY <1>1, <1>2 DEF HasIn, AllInv
<1>4. AllRows(p)
  BY <1>1, <1>3 DEF AllInv, Freshness, FreshInv
<1>5. QED
  BY <1>3, <1>4, RebuiltAt DEF AllRows, Covered

(* After a pass that saw no error and no change, every event of the shards  *)
(* has its row, at its place and with its present payload, whatever         *)
(* crashed, failed or was deleted before (as long as no power loss and no   *)
(* vanished shard).                                                         *)
THEOREM NothingIsMissing == Spec => []NothingMissing
<1>1. AllInv => NothingMissing
  BY CompleteWhenSettled DEF NothingMissing, Sound
<1>2. QED
  BY <1>1, AlwaysAllInv, PTL

(* "An existing index always converges to what a fresh rebuild would        *)
(* produce" (README.md), as long as nothing has failed: after a pass that   *)
(* saw no change the table is what a rebuild of the shards gives.           *)
THEOREM PassConverges == Spec => []Converged
<1>1. ASSUME AllInv, faults.n = 0, settled PROVE rows = Rebuilt
  <2>1. /\ Sound /\ Complete /\ Base /\ ExactInv /\ rows \in TableType
        /\ Rebuilt = [i \in Ids |-> Rebuilt[i]]
    BY <1>1, CompleteWhenSettled
    DEF Sound, AllInv, Base, TypeOK, TableType, Exactness, Rebuilt
  <2>2. ASSUME NEW i \in Ids PROVE rows[i] = Rebuilt[i]
    <3>1. CASE Rebuilt[i] # NoRow
      BY <2>1, <3>1 DEF Complete
    <3>2. CASE Rebuilt[i] = NoRow /\ rows[i] # NoRow
      <4>1. rows[i].path \in Paths /\ i \in RowsOf(rows[i].path)
        BY <2>1, <3>2 DEF TableType, Row, RowsOf
      <4>2. rows[i].path \in present /\ Has(content[rows[i].path], i)
        BY <1>1, <2>1, <4>1 DEF ExactInv, Only
      <4>3. QED
        BY <2>1, <3>2, <4>2, RebuiltAt
    <3>3. QED
      BY <3>1, <3>2
  <2>3. QED
    BY <2>1, <2>2 DEF TableType
<1>2. AllInv => Converged
  BY <1>1 DEF Converged, AlwaysConverged
<1>3. QED
  BY <1>2, AlwaysAllInv, PTL
===============================================================================
