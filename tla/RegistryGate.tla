------------------------------ MODULE RegistryGate ------------------------------
(***************************************************************************)
(* The registries in the synced directory (kinds.yaml, scopes.yaml,        *)
(* agents.yaml), which people edit on any host while two things read them: *)
(* the gate every emit and push passes before it waits for the host lock   *)
(* (registry.EnforceEmit), and refresh-caches, which rewrites the prompt   *)
(* router's scopes-cache and agents-cache (refreshscopes.go).  What the    *)
(* daemon and the command do with their events is in ShardWriters.         *)
(*                                                                         *)
(* Abstractions.  A file is absent, garbled (unreadable, no YAML, or of    *)
(* another schema_version), or a sequence of declarations; an empty file   *)
(* declares nothing.  A declaration is a name and a status: "unrouted" is  *)
(* active with `router: false', "bogus" any status (or severity) that is   *)
(* not a legal one.  Core kinds and extensions are declarations alike.  Of *)
(* the caches the names are kept, not the aliases.                         *)
(***************************************************************************)
EXTENDS Naturals, Sequences, SequencesExt

CONSTANTS
  Writers,      \* emits and pushes
  Refreshers,   \* runs of refresh-caches that may overlap
  Kinds, Scopes, Agents,  \* the names that can be declared
  OrgKinds,     \* namespaced kinds (org/name)
  Published,    \* the registries at the beginning
  MaxDeclared,  \* bound: declarations in a file
  MaxEdits,     \* bound: edits of the registries
  MaxKilled     \* bound: runs of refresh-caches that fail or are killed

Statuses == [kinds |-> {"active", "bogus"},
             scopes |-> {"active", "unrouted", "deprecated", "archived", "bogus"},
             agents |-> {"active", "deprecated", "archived", "bogus"}]
Names == [kinds |-> Kinds, scopes |-> Scopes, agents |-> Agents]
Absent == [form |-> "absent", decl |-> <<>>]
Garbled == [form |-> "garbled", decl |-> <<>>]
Text(decl) == [form |-> "text", decl |-> decl]

FileOK(reg, f) ==
  /\ f \in [form : {"absent", "garbled", "text"},
            decl : Seq([name : Names[reg], status : Statuses[reg]])]
  /\ Len(f.decl) <= MaxDeclared
FilesOK(fs) ==
  fs = [reg \in DOMAIN Names |-> fs[reg]] /\ \A reg \in DOMAIN Names : FileOK(reg, fs[reg])

ASSUME GateAssumption ==
  /\ MaxDeclared \in Nat /\ MaxEdits \in Nat /\ MaxKilled \in Nat
  /\ \A p \in Published : FilesOK(p)

VARIABLES
  files,        \* the registries
  edits,        \* edits so far
  writer,       \* writer[w]: the gate's step, [at, kind, scope]
  open,         \* history: which gates have been open since w began
  refresher,    \* refresher[r]: [at, names]
  killed,       \* refreshers that failed or were killed so far
  scopesCache, agentsCache

gate == <<writer, open>>
caches == <<refresher, killed, scopesCache, agentsCache>>
vars == <<files, edits, gate, caches>>

Outside == [at |-> "outside"]
Rest == [at |-> "rest", names |-> {}]

Init ==
  /\ files \in Published /\ edits = 0
  /\ writer = [w \in Writers |-> Outside]
  /\ open = [w \in Writers |-> {}]
  /\ refresher = [r \in Refreshers |-> Rest] /\ killed = 0
  /\ scopesCache = {} /\ agentsCache = {}

-------------------------------------------------------------------------------
(* pkg/registry. *)

\* The last declaration of a name wins, as in a map that is filled in order.
LastWinsBug(f) == f.form = "text" /\ \A i \in DOMAIN f.decl : f.decl[i].status # "bogus"

\* LoadFromBytes and validate: legal statuses, and no name twice.
Loads(f) ==
  /\ f.form = "text"
  /\ \A i \in DOMAIN f.decl :
       /\ f.decl[i].status # "bogus"
       /\ \A j \in DOMAIN f.decl : f.decl[i].name = f.decl[j].name => i = j

Declared(f) == {f.decl[i].name : i \in DOMAIN f.decl}

\* buildIndexes: the last declaration of a name.
StatusOf(f, n) == f.decl[Max({i \in DOMAIN f.decl : f.decl[i].name = n})].status

IsValidKind(f, k) == k \in Declared(f) \cup OrgKinds
CanEmitToScope(f, s) == s \notin Declared(f) \/ StatusOf(f, s) # "archived"

RouterScopes(f) == {s \in Declared(f) : StatusOf(f, s) = "active"}
ActiveAgents(f) == {a \in Declared(f) : StatusOf(f, a) = "active"}

-------------------------------------------------------------------------------
(* External: the registries are edited here, or the sync brings an edit.    *)

Became(reg, f) ==
  /\ edits < MaxEdits /\ edits' = edits + 1
  /\ files' = [files EXCEPT ![reg] = f]

\* The gates that are open on the disk, whatever the code makes of it: there
\* is no registry, or no declaration in it shuts the gate.
KindOpen(f, k) ==
  f.form = "absent" \/ (f.form = "text" /\ IsValidKind(f, k))
ScopeOpen(f, s) ==
  \/ f.form = "absent"
  \/ /\ f.form = "text"
     /\ [name |-> s, status |-> "archived"] \notin {f.decl[i] : i \in DOMAIN f.decl}

OpenGates(fs, kind, scope) ==
  {g \in {"kind", "scope"} : \/ g = "kind" /\ KindOpen(fs.kinds, kind)
                             \/ g = "scope" /\ ScopeOpen(fs.scopes, scope)}

\* What is waiting at the gates sees them as they are after the edit.
Edited(reg, f) ==
  /\ Became(reg, f)
  /\ open' = [w \in Writers |->
       IF writer[w].at = "outside" THEN open[w]
       ELSE open[w] \cup OpenGates(files', writer[w].kind, writer[w].scope)]
  /\ UNCHANGED <<writer, caches>>

\* A declaration is added: to the end, where a merge may repeat a name.
Declare(reg) ==
  /\ files[reg].form = "text" /\ Len(files[reg].decl) < MaxDeclared
  /\ \E n \in Names[reg], st \in Statuses[reg] :
       Edited(reg, Text(Append(files[reg].decl, [name |-> n, status |-> st])))

Restate(reg) ==
  /\ files[reg].form = "text"
  /\ \E i \in DOMAIN files[reg].decl, st \in Statuses[reg] :
       Edited(reg, Text([files[reg].decl EXCEPT ![i].status = st]))

Strike(reg) ==
  /\ files[reg].form = "text"
  /\ \E i \in DOMAIN files[reg].decl : Edited(reg, Text(RemoveAt(files[reg].decl, i)))

Damage(reg) == files[reg] # Garbled /\ Edited(reg, Garbled)
Withdraw(reg) == files[reg] # Absent /\ Edited(reg, Absent)
Publish(reg) == \E p \in Published : files[reg] # p[reg] /\ Edited(reg, p[reg])

-------------------------------------------------------------------------------
(* EnforceEmit, for an emit or a push. *)

Begin(w) ==
  /\ writer[w] = Outside
  /\ \E k \in Kinds \cup OrgKinds, s \in Scopes :
       /\ writer' = [writer EXCEPT ![w] = [at |-> "kind", kind |-> k, scope |-> s]]
       /\ open' = [open EXCEPT ![w] = OpenGates(files, k, s)]
  /\ UNCHANGED <<files, edits, caches>>

\* An absent registry shuts nothing; one that does not load shuts everything.
KindAllowed(w) ==
  \/ files.kinds = Absent
  \/ Loads(files.kinds) /\ IsValidKind(files.kinds, writer[w].kind)

\* A registry that does not load is taken for none.
FailsOpenBug(w) ==
  Loads(files.scopes) => CanEmitToScope(files.scopes, writer[w].scope)
ScopeAllowed(w) ==
  \/ files.scopes = Absent
  \/ Loads(files.scopes) /\ CanEmitToScope(files.scopes, writer[w].scope)

Leave(w) ==
  /\ writer' = [writer EXCEPT ![w] = Outside]
  /\ open' = [open EXCEPT ![w] = {}]

CheckKind(w) ==
  /\ writer[w].at = "kind"
  /\ IF KindAllowed(w)
       THEN writer' = [writer EXCEPT ![w].at = "scope"] /\ UNCHANGED open
       ELSE Leave(w)
  /\ UNCHANGED <<files, edits, caches>>

CheckScope(w) ==
  /\ writer[w].at = "scope"
  /\ IF ScopeAllowed(w)
       THEN writer' = [writer EXCEPT ![w].at = "passed"] /\ UNCHANGED open
       ELSE Leave(w)
  /\ UNCHANGED <<files, edits, caches>>

\* It gets the host lock and appends, without another look at the registries.
WriteEvent(w) ==
  /\ writer[w].at = "passed"
  /\ Leave(w)
  /\ UNCHANGED <<files, edits, caches>>

-------------------------------------------------------------------------------
(* refresh-caches: first the scopes, then the agents. *)

RefreshGoes(r, to) ==
  /\ refresher' = [refresher EXCEPT ![r] = to]
  /\ UNCHANGED <<files, edits, gate, killed>>

\* A registry that is not there, or does not load, ends the run.
ReadScopes(r) ==
  /\ refresher[r] = Rest /\ Loads(files.scopes)
  /\ RefreshGoes(r, [at |-> "saveScopes", names |-> RouterScopes(files.scopes)])
  /\ UNCHANGED <<scopesCache, agentsCache>>

\* Nothing to list is taken for nothing to do.
KeepsLastBug(cache, names) == IF names = {} THEN cache ELSE names
\* atomicWriteFile: the old list or the new one.
Replaced(cache, names) == names

SaveScopes(r) ==
  /\ refresher[r].at = "saveScopes"
  /\ scopesCache' = Replaced(scopesCache, refresher[r].names)
  /\ RefreshGoes(r, [at |-> "readAgents", names |-> {}])
  /\ UNCHANGED agentsCache

ReadAgents(r) ==
  /\ refresher[r].at = "readAgents"
  /\ RefreshGoes(r, IF Loads(files.agents)
                      THEN [at |-> "saveAgents", names |-> ActiveAgents(files.agents)]
                      ELSE Rest)
  /\ UNCHANGED <<scopesCache, agentsCache>>

SaveAgents(r) ==
  /\ refresher[r].at = "saveAgents"
  /\ agentsCache' = Replaced(agentsCache, refresher[r].names)
  /\ RefreshGoes(r, Rest)
  /\ UNCHANGED scopesCache

\* A write fails or the process is killed: the temporary file is never renamed.
RefreshDies(r) ==
  /\ refresher[r] # Rest
  /\ killed < MaxKilled /\ killed' = killed + 1
  /\ refresher' = [refresher EXCEPT ![r] = Rest]
  /\ UNCHANGED <<files, edits, gate, scopesCache, agentsCache>>

Refresh(r) == ReadScopes(r) \/ SaveScopes(r) \/ ReadAgents(r) \/ SaveAgents(r)

-------------------------------------------------------------------------------

Next ==
  \/ \E reg \in DOMAIN Names :
       \/ Declare(reg) \/ Restate(reg) \/ Strike(reg)
       \/ Damage(reg) \/ Withdraw(reg) \/ Publish(reg)
  \/ \E w \in Writers : Begin(w) \/ CheckKind(w) \/ CheckScope(w) \/ WriteEvent(w)
  \/ \E r \in Refreshers : Refresh(r) \/ RefreshDies(r)

Spec == Init /\ [][Next]_vars

\* The heartbeat runs refresh-caches every hour (dead-man-heartbeat.sh:88).
FairSpec == Spec /\ \A r \in Refreshers : WF_vars(Refresh(r))

-------------------------------------------------------------------------------
(* Properties. *)

TypeOK ==
  /\ FilesOK(files)
  /\ edits \in 0..MaxEdits
  /\ writer \in [Writers -> {Outside} \cup
       [at : {"kind", "scope", "passed"}, kind : Kinds \cup OrgKinds, scope : Scopes]]
  /\ open \in [Writers -> SUBSET {"kind", "scope"}]
  /\ refresher \in [Refreshers ->
       [at : {"rest", "readAgents"}, names : {{}}]
       \cup [at : {"saveScopes"}, names : SUBSET Scopes]
       \cup [at : {"saveAgents"}, names : SUBSET Agents]]
  /\ killed \in 0..MaxKilled
  /\ scopesCache \subseteq Scopes /\ agentsCache \subseteq Agents

(* A writer gets past the gates only if each was open on the disk at some   *)
(* moment since it began: not while the registry is garbled, nor while any  *)
(* of its declarations archives the scope, whatever a merge or an edit      *)
(* between the two checks puts beside it (registry.go:192-204, 373-414).    *)
GateHolds ==
  \A w \in Writers :
    writer[w].at = "passed" => open[w] = {"kind", "scope"}

(* Once the edits end, the router's caches are what the registries say: the *)
(* scopes' if scopes.yaml is valid, and the agents' if both are -- also     *)
(* when runs overlap, an older one saves last, or one dies half way         *)
(* (refreshscopes.go:31-36).                                                *)
CachesConverge ==
  <>[](Loads(files.scopes) =>
         /\ scopesCache = RouterScopes(files.scopes)
         /\ Loads(files.agents) => agentsCache = ActiveAgents(files.agents))
===============================================================================
