--------------------------- MODULE RegistryGateProofs ---------------------------
(***************************************************************************)
(* The gate holds, and the types, for every set of names, writers and      *)
(* runs of refresh-caches, every published registry and every bound.       *)
(*                                                                         *)
(* The argument for the gate: a registry the code lets a writer past is    *)
(* open on the disk (KindSound, ScopeSound; in a registry that loads a     *)
(* name is declared once, so no declaration hides another), and a writer   *)
(* has seen every gate that has been open since it began (Watching).       *)
(***************************************************************************)
EXTENDS RegistryGate, SequenceTheorems, TLAPS

-------------------------------------------------------------------------------
(* Types. *)

LEMMA FilesType ==
  ASSUME FilesOK(files), NEW reg \in DOMAIN Names
  PROVE  /\ FileOK(reg, files[reg])
         /\ files = [r \in DOMAIN Names |-> files[r]]
BY DEF FilesOK

\* One registry becomes another that is in order.
LEMMA EditedType ==
  ASSUME TypeOK, NEW reg \in DOMAIN Names, NEW f, FileOK(reg, f), Edited(reg, f)
  PROVE  TypeOK'
<1>1. FilesOK(files')
  BY FilesType DEF TypeOK, FilesOK, Edited, Became
<1>2. edits' \in 0..MaxEdits
  BY GateAssumption DEF TypeOK, Edited, Became
<1>3. open' \in [Writers -> SUBSET {"kind", "scope"}]
  BY DEF TypeOK, Edited, OpenGates
<1>4. QED
  BY <1>1, <1>2, <1>3 DEF TypeOK, Edited, caches

\* A declaration is restated or struck.
LEMMA DeclarationsType ==
  ASSUME NEW reg \in DOMAIN Names, NEW f, FileOK(reg, f), NEW i \in DOMAIN f.decl
  PROVE  /\ \A st \in Statuses[reg] :
              FileOK(reg, Text([f.decl EXCEPT ![i].status = st]))
         /\ FileOK(reg, Text(RemoveAt(f.decl, i)))
<1> DEFINE D == [name : Names[reg], status : Statuses[reg]]
<1>1. /\ f.decl \in Seq(D) /\ Len(f.decl) \in Nat /\ Len(f.decl) <= MaxDeclared
      /\ i \in 1..Len(f.decl) /\ MaxDeclared \in Nat
  BY GateAssumption DEF FileOK
<1>a. \A j \in 1..Len(f.decl) : f.decl[j] \in D
  <2> HIDE DEF D
  <2>1. QED BY <1>1, ElementOfSeq
<1>2. ASSUME NEW st \in Statuses[reg]
      PROVE  /\ [f.decl EXCEPT ![i].status = st] \in Seq(D)
             /\ Len([f.decl EXCEPT ![i].status = st]) = Len(f.decl)
  <2> DEFINE e == [f.decl[i] EXCEPT !.status = st]
  <2>1. e \in D
    BY <1>1, <1>a
  <2>2. [f.decl EXCEPT ![i].status = st] = [f.decl EXCEPT ![i] = e]
    OBVIOUS
  <2> HIDE DEF D, e
  <2>3. QED BY <1>1, <2>1, <2>2, ExceptSeq
<1>4. /\ SubSeq(f.decl, 1, i - 1) \in Seq(D)
      /\ Len(SubSeq(f.decl, 1, i - 1)) = i - 1
      /\ SubSeq(f.decl, i + 1, Len(f.decl)) \in Seq(D)
      /\ Len(SubSeq(f.decl, i + 1, Len(f.decl))) = Len(f.decl) - i
  <2> HIDE DEF D
  <2>1. \A j \in 1..(i - 1) : f.decl[j] \in D
    BY <1>1, <1>a
  <2>2. \A j \in (i + 1)..Len(f.decl) : f.decl[j] \in D
    BY <1>1, <1>a
  <2>3. QED BY <1>1, <2>1, <2>2, SubSeqProperties
<1>5. RemoveAt(f.decl, i) \in Seq(D) /\ Len(RemoveAt(f.decl, i)) <= MaxDeclared
  BY <1>1, <1>4, ConcatProperties DEF RemoveAt
<1>6. QED BY <1>1, <1>2, <1>5 DEF FileOK, Text

LEMMA DeclareType ==
  ASSUME NEW reg \in DOMAIN Names, NEW f, FileOK(reg, f), Len(f.decl) < MaxDeclared,
         NEW n \in Names[reg], NEW st \in Statuses[reg]
  PROVE  FileOK(reg, Text(Append(f.decl, [name |-> n, status |-> st])))
BY AppendProperties, GateAssumption DEF FileOK, Text

LEMMA EditType ==
  ASSUME TypeOK, NEW reg \in DOMAIN Names,
         \/ Declare(reg) \/ Restate(reg) \/ Strike(reg)
         \/ Damage(reg) \/ Withdraw(reg) \/ Publish(reg)
  PROVE  TypeOK'
<1>1. FileOK(reg, files[reg])
  BY FilesType DEF TypeOK
<1>2. CASE Declare(reg)
  <2>1. PICK n \in Names[reg], st \in Statuses[reg] :
          Edited(reg, Text(Append(files[reg].decl, [name |-> n, status |-> st])))
    BY <1>2 DEF Declare
  <2>2. FileOK(reg, Text(Append(files[reg].decl, [name |-> n, status |-> st])))
    BY <1>1, <1>2, DeclareType DEF Declare
  <2>3. QED BY <2>1, <2>2, EditedType
<1>3. CASE Restate(reg)
  <2>1. PICK i \in DOMAIN files[reg].decl, st \in Statuses[reg] :
          Edited(reg, Text([files[reg].decl EXCEPT ![i].status = st]))
    BY <1>3 DEF Restate
  <2>2. FileOK(reg, Text([files[reg].decl EXCEPT ![i].status = st]))
    BY <1>1, DeclarationsType
  <2>3. QED BY <2>1, <2>2, EditedType
<1>4. CASE Strike(reg)
  <2>1. PICK i \in DOMAIN files[reg].decl : Edited(reg, Text(RemoveAt(files[reg].decl, i)))
    BY <1>4 DEF Strike
  <2>2. FileOK(reg, Text(RemoveAt(files[reg].decl, i)))
    BY <1>1, DeclarationsType
  <2>3. QED BY <2>1, <2>2, EditedType
<1>5. FileOK(reg, Garbled) /\ FileOK(reg, Absent)
  BY GateAssumption, EmptySeq DEF FileOK, Garbled, Absent
<1>6. CASE Damage(reg) \/ Withdraw(reg)
  BY <1>5, <1>6, EditedType DEF Damage, Withdraw
<1>7. CASE Publish(reg)
  BY <1>7, EditedType, GateAssumption DEF Publish, FilesOK
<1>8. QED BY <1>2, <1>3, <1>4, <1>6, <1>7

\* What refresh-caches takes from a registry are names.
LEMMA NamesType ==
  ASSUME TypeOK
  PROVE  RouterScopes(files.scopes) \subseteq Scopes /\ ActiveAgents(files.agents) \subseteq Agents
<1>1. FileOK("scopes", files.scopes) /\ FileOK("agents", files.agents)
  BY FilesType DEF TypeOK, Names
<1>2. ASSUME NEW reg \in DOMAIN Names, NEW f, FileOK(reg, f)
      PROVE  Declared(f) \subseteq Names[reg]
  <2> DEFINE D == [name : Names[reg], status : Statuses[reg]]
  <2>1. f.decl \in Seq(D)
    BY <1>2 DEF FileOK
  <2>2. \A i \in DOMAIN f.decl : f.decl[i] \in D
    <3> HIDE DEF D
    <3>1. QED BY <2>1, LenProperties, ElementOfSeq
  <2>3. QED BY <2>2 DEF Declared
<1>3. Declared(files.scopes) \subseteq Scopes /\ Declared(files.agents) \subseteq Agents
  BY <1>1, <1>2 DEF Names
<1>4. QED BY <1>3 DEF RouterScopes, ActiveAgents

LEMMA InitType == Init => TypeOK
BY GateAssumption DEF Init, TypeOK, Outside, Rest

LEMMA WriterType ==
  ASSUME TypeOK, NEW w \in Writers, Begin(w) \/ CheckKind(w) \/ CheckScope(w) \/ WriteEvent(w)
  PROVE  TypeOK'
<1>1. CASE Begin(w)
  BY <1>1 DEF TypeOK, Begin, OpenGates, caches
<1>2. CASE CheckKind(w)
  BY <1>2 DEF TypeOK, CheckKind, Leave, Outside, caches
<1>3. CASE CheckScope(w)
  BY <1>3 DEF TypeOK, CheckScope, Leave, Outside, caches
<1>4. CASE WriteEvent(w)
  BY <1>4 DEF TypeOK, WriteEvent, Leave, Outside, caches
<1>5. QED BY <1>1, <1>2, <1>3, <1>4

LEMMA RefreshType ==
  ASSUME TypeOK, NEW r \in Refreshers, Refresh(r) \/ RefreshDies(r)
  PROVE  TypeOK'
<1>1. CASE ReadScopes(r)
  BY <1>1, NamesType DEF TypeOK, ReadScopes, RefreshGoes, gate
<1>2. CASE SaveScopes(r)
  BY <1>2 DEF TypeOK, SaveScopes, RefreshGoes, Replaced, gate
<1>3. CASE ReadAgents(r)
  BY <1>3, NamesType DEF TypeOK, ReadAgents, RefreshGoes, Rest, gate
<1>4. CASE SaveAgents(r)
  BY <1>4 DEF TypeOK, SaveAgents, RefreshGoes, Replaced, Rest, gate
<1>5. CASE RefreshDies(r)
  BY <1>5, GateAssumption DEF TypeOK, RefreshDies, Rest, gate
<1>6. QED BY <1>1, <1>2, <1>3, <1>4, <1>5 DEF Refresh

LEMMA StepType == TypeOK /\ [Next]_vars => TypeOK'
<1> SUFFICES ASSUME TypeOK, [Next]_vars PROVE TypeOK'
  OBVIOUS
<1>1. CASE UNCHANGED vars
  BY <1>1 DEF TypeOK, vars, gate, caches
<1>2. CASE Next
  BY <1>2, EditType, WriterType, RefreshType DEF Next
<1>3. QED BY <1>1, <1>2

(* The registries, the gate and the caches keep their types. *)
THEOREM TypesKept == Spec => []TypeOK
BY InitType, StepType, PTL DEF Spec

-------------------------------------------------------------------------------
(* The gate. *)

LEMMA KindSound ==
  ASSUME NEW w \in Writers, KindAllowed(w)
  PROVE  KindOpen(files.kinds, writer[w].kind)
BY DEF KindAllowed, KindOpen, Loads, Absent

(* In a registry that loads, the declaration buildIndexes keeps of a scope  *)
(* is its only one: if one archives the scope, that is the one.             *)
LEMMA OneDeclaration ==
  ASSUME NEW f, NEW D, f.decl \in Seq(D), Loads(f), NEW i \in DOMAIN f.decl
  PROVE  StatusOf(f, f.decl[i].name) = f.decl[i].status
<1>1. {j \in DOMAIN f.decl : f.decl[j].name = f.decl[i].name} = {i}
  BY DEF Loads
<1>2. i \in Int
  BY LenProperties
<1>3. Max({i}) = i
  BY <1>2 DEF Max
<1>4. QED BY <1>1, <1>3 DEF StatusOf

LEMMA ScopeSound ==
  ASSUME TypeOK, NEW w \in Writers, ScopeAllowed(w)
  PROVE  ScopeOpen(files.scopes, writer[w].scope)
<1> DEFINE f == files.scopes
           s == writer[w].scope
<1>1. CASE f = Absent
  BY <1>1 DEF ScopeOpen, Absent
<1>2. CASE Loads(f) /\ CanEmitToScope(f, s)
  <2>1. PICK D : f.decl \in Seq(D)
    BY FilesType DEF TypeOK, FileOK, Names
  <2>2. ASSUME NEW i \in DOMAIN f.decl, f.decl[i] = [name |-> s, status |-> "archived"]
        PROVE  FALSE
    <3>1. f.decl[i].name = s /\ f.decl[i].status = "archived"
      BY <2>2
    <3>2. StatusOf(f, s) = "archived"
      BY <1>2, <2>1, <3>1, OneDeclaration
    <3>3. s \in Declared(f)
      BY <3>1 DEF Declared
    <3>4. QED BY <1>2, <3>2, <3>3 DEF CanEmitToScope
  <2>3. QED BY <1>2, <2>2 DEF ScopeOpen, Loads
<1>3. QED BY <1>1, <1>2 DEF ScopeAllowed

(* A writer has seen the gates that are open now, and those it has passed.  *)
Watching ==
  \A w \in Writers :
    /\ writer[w].at # "outside" => OpenGates(files, writer[w].kind, writer[w].scope) \subseteq open[w]
    /\ writer[w].at \in {"scope", "passed"} => "kind" \in open[w]
    /\ writer[w].at = "passed" => "scope" \in open[w]

LEMMA WatchingInit == Init => Watching
BY DEF Init, Watching, Outside

LEMMA WatchingStep == TypeOK /\ Watching /\ [Next]_vars => Watching'
<1> SUFFICES ASSUME TypeOK, Watching, [Next]_vars PROVE Watching'
  OBVIOUS
<1>1. CASE UNCHANGED vars
  BY <1>1 DEF Watching, OpenGates, vars, gate
<1>2. ASSUME NEW reg \in DOMAIN Names, NEW f, Edited(reg, f)
      PROVE  Watching'
  <2>1. writer' = writer /\ \A w \in Writers :
          open'[w] = IF writer[w].at = "outside" THEN open[w]
                     ELSE open[w] \cup OpenGates(files', writer[w].kind, writer[w].scope)
    BY <1>2 DEF Edited
  <2>2. QED BY <2>1 DEF Watching
<1>3. CASE \E reg \in DOMAIN Names :
             \/ Declare(reg) \/ Restate(reg) \/ Strike(reg)
             \/ Damage(reg) \/ Withdraw(reg) \/ Publish(reg)
  BY <1>2, <1>3 DEF Declare, Restate, Strike, Damage, Withdraw, Publish
<1>4. ASSUME NEW w \in Writers, Begin(w) PROVE Watching'
  BY <1>4 DEF Watching, Begin, TypeOK
<1>5. ASSUME NEW w \in Writers, CheckKind(w) PROVE Watching'
  <2>1. CASE KindAllowed(w)
    <3>1. "kind" \in open[w]
      BY <1>5, <2>1, KindSound DEF Watching, CheckKind, OpenGates
    <3>2. /\ writer'[w].at = "scope" /\ open' = open /\ files' = files
          /\ writer'[w].kind = writer[w].kind /\ writer'[w].scope = writer[w].scope
          /\ \A v \in Writers \ {w} : writer'[v] = writer[v]
      BY <1>5, <2>1 DEF CheckKind, TypeOK, Outside
    <3>3. writer[w].at # "outside" /\ ("scope" = "passed" => "kind" \in open[w])
      BY <1>5 DEF CheckKind, Watching
    <3>4. QED BY <3>1, <3>2, <3>3 DEF Watching
  <2>2. CASE ~KindAllowed(w)
    BY <1>5, <2>2 DEF Watching, CheckKind, Leave, Outside, TypeOK
  <2>3. QED BY <2>1, <2>2
<1>6. ASSUME NEW w \in Writers, CheckScope(w) PROVE Watching'
  <2>1. CASE ScopeAllowed(w)
    <3>1. "scope" \in open[w]
      BY <1>6, <2>1, ScopeSound DEF Watching, CheckScope, OpenGates
    <3>2. /\ writer'[w].at = "passed" /\ open' = open /\ files' = files
          /\ writer'[w].kind = writer[w].kind /\ writer'[w].scope = writer[w].scope
          /\ \A v \in Writers \ {w} : writer'[v] = writer[v]
      BY <1>6, <2>1 DEF CheckScope, TypeOK, Outside
    <3>3. writer[w].at # "outside" /\ ("passed" = "passed" => "kind" \in open[w])
      BY <1>6 DEF CheckScope, Watching
    <3>4. QED BY <3>1, <3>2, <3>3 DEF Watching
  <2>2. CASE ~ScopeAllowed(w)
    BY <1>6, <2>2 DEF Watching, CheckScope, Leave, Outside, TypeOK
  <2>3. QED BY <2>1, <2>2
<1>7. ASSUME NEW w \in Writers, WriteEvent(w) PROVE Watching'
  BY <1>7 DEF Watching, WriteEvent, Leave, Outside, TypeOK
<1>8. ASSUME NEW r \in Refreshers, Refresh(r) \/ RefreshDies(r) PROVE Watching'
  <2>1. UNCHANGED <<files, gate>>
    BY <1>8 DEF Refresh, ReadScopes, SaveScopes, ReadAgents, SaveAgents, RefreshGoes, RefreshDies
  <2>2. QED BY <2>1 DEF Watching, OpenGates, gate
<1>9. QED BY <1>1, <1>3, <1>4, <1>5, <1>6, <1>7, <1>8 DEF Next

(* A writer passes only gates that were open on the disk since it began,    *)
(* for every edit of the registries in between.                             *)
THEOREM GateAlwaysHolds == Spec => []GateHolds
<1>1. TypeOK /\ Watching => GateHolds
  BY DEF TypeOK, Watching, GateHolds
<1>2. QED
  BY <1>1, InitType, StepType, WatchingInit, WatchingStep, PTL DEF Spec
===============================================================================
