--------------------------- MODULE WatcherTreeProofs ---------------------------
(***************************************************************************)
(* That the watcher reports nothing of what left with a root that was      *)
(* moved away, for every bound on directories, changes and watches that    *)
(* fail.                                                                   *)
(*                                                                         *)
(* The argument: the event that says that the root has gone is queued      *)
(* before every event of the tree that went, because a watcher that has no *)
(* such event in its queue watches the root that is there, and no inode    *)
(* that left with another (Alert).  This is so of the watcher the loop reads   *)
(* unless it has read that event, and of the fresh one from the moment its *)
(* root is added, whatever happens to the tree between the steps of a      *)
(* re-attachment.                                                          *)
(***************************************************************************)
EXTENDS WatcherTree, SequenceTheorems, TLAPS

HasRoot(ws) == \E j \in DOMAIN ws.events : ws.events[j].of = "root"

\* No event of a tree that was moved away comes before that of its going.
Warned(ws) ==
  \A k \in DOMAIN ws.events : ws.events[k].stale =>
    \E j \in DOMAIN ws.events : j < k /\ ws.events[j].of = "root"

\* It knows that its root went, or watches the root r and nothing of a.
AlertOf(ws, r, a) ==
  /\ Warned(ws)
  /\ HasRoot(ws) \/ (r # NoDir /\ r \in ws.dirs /\ ws.dirs \cap a = {})

Alert(ws) == AlertOf(ws, root, away)

\* An inode is used once: what was moved is neither the root nor in it.
TreeInv ==
  /\ made <= MaxInodes /\ root <= made /\ d <= made
  /\ \A ino \in out \cup away : ino # NoDir /\ ino <= made
  /\ root \notin away /\ d \notin away
  /\ d # NoDir => root # NoDir /\ root # d

WatchInv ==
  /\ ~rootGone => Alert(w)
  /\ pc \in {"tree", "subtree", "swap"} => Alert(fresh)
  /\ pc = "fresh" => fresh = NoWatcher
  /\ NoEcho

EchoInv == TypeOK /\ TreeInv /\ WatchInv

-------------------------------------------------------------------------------
(* What the steps do to a watcher. *)

LEMMA WatcherFields ==
  ASSUME NEW ws \in Watcher
  PROVE  /\ ws.dirs \subseteq Inodes /\ ws.events \in Seq(Event)
         /\ Len(ws.events) \in Nat /\ DOMAIN ws.events = 1..Len(ws.events)
BY LenProperties DEF Watcher

LEMMA NoWatcherFacts ==
  NoWatcher \in Watcher /\ NoWatcher.dirs = {} /\ NoWatcher.events = <<>>
BY EmptySeq DEF NoWatcher, Watcher

LEMMA HearsFacts ==
  ASSUME NEW ws \in Watcher, NEW ino,
         NEW name \in Named, NEW stale \in BOOLEAN
  PROVE  /\ Hears(ws, ino, name, stale) \in Watcher
         /\ Hears(ws, ino, name, stale).dirs = ws.dirs
         /\ ino \notin ws.dirs => Hears(ws, ino, name, stale) = ws
         /\ HasRoot(ws) => HasRoot(Hears(ws, ino, name, stale))
         /\ ino \in ws.dirs /\ name = "root" => HasRoot(Hears(ws, ino, name, stale))
         /\ Warned(ws) /\ (stale /\ ino \in ws.dirs => HasRoot(ws))
              => Warned(Hears(ws, ino, name, stale))
<1> DEFINE e == [of |-> name, stale |-> stale]
           h == Hears(ws, ino, name, stale)
<1>1. CASE ino \notin ws.dirs
  BY <1>1 DEF Hears
<1>2. CASE ino \in ws.dirs
  <2>1. e \in Event /\ e.of = name /\ e.stale = stale
    BY DEF Event
  <2>2. h.dirs = ws.dirs /\ h.events = Append(ws.events, e) /\ h \in Watcher
    <3>1. h = [ws EXCEPT !.events = Append(@, e)]
      BY <1>2 DEF Hears
    <3>2. Append(ws.events, e) \in Seq(Event)
      BY <2>1, WatcherFields, AppendProperties
    <3>3. QED
      BY <3>1, <3>2 DEF Watcher
  <2>3. /\ Len(h.events) = Len(ws.events) + 1
        /\ DOMAIN h.events = 1..(Len(ws.events) + 1)
        /\ h.events[Len(ws.events) + 1] = e
        /\ \A k \in 1..Len(ws.events) : h.events[k] = ws.events[k]
    BY <2>1, <2>2, WatcherFields, AppendProperties, LenProperties
  <2>4. HasRoot(ws) => HasRoot(h)
    BY <2>3, WatcherFields DEF HasRoot
  <2>5. name = "root" => HasRoot(h)
    BY <2>1, <2>3, WatcherFields DEF HasRoot
  <2>6. ASSUME Warned(ws), stale => HasRoot(ws) PROVE Warned(h)
    <3>1. SUFFICES ASSUME NEW k \in DOMAIN h.events, h.events[k].stale
                   PROVE  \E j \in DOMAIN h.events : j < k /\ h.events[j].of = "root"
      BY DEF Warned
    <3>2. CASE k = Len(ws.events) + 1
      <4>1. PICK j \in DOMAIN ws.events : ws.events[j].of = "root"
        BY <2>1, <2>3, <2>6, <3>1, <3>2 DEF HasRoot
      <4>2. j \in 1..Len(ws.events) /\ h.events[j].of = "root"
        BY <2>3, <4>1, WatcherFields
      <4>3. j < k /\ j \in DOMAIN h.events
        BY <2>3, <3>2, <4>2, WatcherFields
      <4>4. QED
        BY <4>2, <4>3
    <3>3. CASE k # Len(ws.events) + 1
      <4>1. k \in 1..Len(ws.events) /\ ws.events[k].stale
        BY <2>3, <3>1, <3>3, WatcherFields
      <4>2. PICK j \in DOMAIN ws.events : j < k /\ ws.events[j].of = "root"
        BY <2>6, <4>1, WatcherFields DEF Warned
      <4>3. QED
        BY <2>3, <4>2, WatcherFields
    <3>4. QED
      BY <3>2, <3>3
  <2>7. QED
    BY <1>2, <2>2, <2>4, <2>5, <2>6
<1>3. QED
  BY <1>1, <1>2

LEMMA ConsumeFacts ==
  ASSUME w \in Watcher, w.events # <<>>, Consume
  PROVE  /\ w' \in Watcher /\ w'.dirs = w.dirs
         /\ Event1 \in Event
         /\ Warned(w) => ~Event1.stale
         /\ Event1.of # "root" /\ Warned(w) => Warned(w')
         /\ Event1.of # "root" /\ HasRoot(w) => HasRoot(w')
<1> DEFINE n == Len(w.events)
<1>1. w.events \in Seq(Event) /\ n \in Nat /\ DOMAIN w.events = 1..n
  BY WatcherFields
<1>2. /\ n # 0 /\ Event1 = w.events[1] /\ Event1 \in Event
      /\ Tail(w.events) \in Seq(Event) /\ Len(Tail(w.events)) = n - 1
      /\ \A k \in 1..(n - 1) : Tail(w.events)[k] = w.events[k + 1]
  BY <1>1, HeadTailProperties, EmptySeq DEF Event1
<1>3. w' \in Watcher /\ w'.dirs = w.dirs /\ w'.events = Tail(w.events)
  BY <1>2 DEF Consume, Watcher
<1>4. DOMAIN w'.events = 1..(n - 1)
  BY <1>1, <1>2, <1>3, LenProperties
<1>5. Warned(w) => ~Event1.stale
  BY <1>1, <1>2 DEF Warned
<1>6. ASSUME Event1.of # "root", Warned(w) PROVE Warned(w')
  <2>1. SUFFICES ASSUME NEW k \in 1..(n - 1), w'.events[k].stale
                 PROVE  \E j \in 1..(n - 1) : j < k /\ w'.events[j].of = "root"
    BY <1>4 DEF Warned
  <2>2. k + 1 \in DOMAIN w.events /\ w.events[k + 1].stale
    BY <1>1, <1>2, <1>3, <2>1
  <2>3. PICK j \in 1..n : j < k + 1 /\ w.events[j].of = "root"
    BY <1>1, <1>6, <2>2 DEF Warned
  <2>4. j # 1
    BY <1>2, <1>6, <2>3
  <2>5. j - 1 \in 1..(n - 1) /\ w'.events[j - 1] = w.events[j] /\ j - 1 < k
    BY <1>1, <1>2, <1>3, <2>3, <2>4
  <2>6. QED
    BY <2>3, <2>5
<1>7. ASSUME Event1.of # "root", HasRoot(w) PROVE HasRoot(w')
  <2>1. PICK j \in 1..n : w.events[j].of = "root"
    BY <1>1, <1>7 DEF HasRoot
  <2>2. j # 1
    BY <1>2, <1>7, <2>1
  <2>3. j - 1 \in 1..(n - 1) /\ w'.events[j - 1] = w.events[j]
    BY <1>1, <1>2, <1>3, <2>1, <2>2
  <2>4. QED
    BY <1>4, <2>1, <2>3 DEF HasRoot
<1>8. QED
  BY <1>2, <1>3, <1>5, <1>6, <1>7

LEMMA DirsFacts ==
  ASSUME NEW ws \in Watcher, NEW ino \in Inodes
  PROVE  /\ Watched(ws, ino) \in Watcher /\ Watched(ws, ino).events = ws.events
         /\ ws.dirs \subseteq Watched(ws, ino).dirs
         /\ Watched(ws, ino).dirs \subseteq ws.dirs \cup {ino}
         /\ Unwatched(ws, ino) \in Watcher /\ Unwatched(ws, ino).events = ws.events
         /\ Unwatched(ws, ino).dirs = ws.dirs \ {ino}
         /\ ws = NoWatcher => Unwatched(ws, ino) = NoWatcher
<1>1. ws = [dirs |-> ws.dirs, events |-> ws.events]
      /\ ws.dirs \in SUBSET Inodes /\ ws.events \in Seq(Event)
  BY DEF Watcher
<1>2. Unwatched(ws, ino) = [dirs |-> ws.dirs \ {ino}, events |-> ws.events]
  <2>1. \A D, E : [[dirs |-> D, events |-> E] EXCEPT !.dirs = @ \ {ino}]
                  = [dirs |-> D \ {ino}, events |-> E]
    OBVIOUS
  <2>2. Unwatched(ws, ino) = [[dirs |-> ws.dirs, events |-> ws.events] EXCEPT !.dirs = @ \ {ino}]
    BY <1>1 DEF Unwatched
  <2>3. QED
    BY <2>1, <2>2
<1>3. ws = NoWatcher => Unwatched(ws, ino) = NoWatcher
  <2>1. ws = NoWatcher => ws.dirs \ {ino} = {} /\ ws.events = <<>>
    BY NoWatcherFacts
  <2>2. QED
    BY <1>2, <2>1 DEF NoWatcher
<1>4. CASE ino = NoDir
  BY <1>1, <1>2, <1>3, <1>4 DEF Watched, Watcher
<1>5. CASE ino # NoDir
  <2>1. Watched(ws, ino) = [dirs |-> ws.dirs \cup {ino}, events |-> ws.events]
    BY <1>1, <1>5 DEF Watched
  <2>2. QED
    BY <1>1, <1>2, <1>3, <2>1 DEF Watcher
<1>6. QED
  BY <1>4, <1>5

-------------------------------------------------------------------------------
(* What becomes of a watcher that is alert. *)

\* Something is heard; the root and what is away stay.
LEMMA AlertHears ==
  ASSUME NEW ws \in Watcher, NEW r, NEW a, AlertOf(ws, r, a), NEW ino,
         NEW name \in Named, NEW stale \in BOOLEAN, stale => ino \in a
  PROVE  AlertOf(Hears(ws, ino, name, stale), r, a)
<1>1. stale /\ ino \in ws.dirs => HasRoot(ws)
  BY DEF AlertOf
<1>2. QED
  BY <1>1, HearsFacts DEF AlertOf

\* The root it watches goes.
LEMMA AlertLeaves ==
  ASSUME NEW ws \in Watcher, NEW r, NEW a, AlertOf(ws, r, a), NEW r2, NEW a2
  PROVE  AlertOf(Hears(ws, r, "root", FALSE), r2, a2)
<1>1. "root" \in Named /\ FALSE \in BOOLEAN
  BY DEF Named
<1>2. HasRoot(ws) \/ r \in ws.dirs
  BY DEF AlertOf
<1>3. Warned(ws)
  BY DEF AlertOf
<1>4. QED
  BY <1>1, <1>2, <1>3, HearsFacts DEF AlertOf

\* Another directory of the tree is watched, or one is not any more.
LEMMA AlertDirs ==
  ASSUME NEW ws \in Watcher, NEW r, NEW a, AlertOf(ws, r, a), NEW ino \in Inodes,
         ino \notin a
  PROVE  /\ AlertOf(Watched(ws, ino), r, a)
         /\ ino # r => AlertOf(Unwatched(ws, ino), r, a)
<1>1. /\ Watched(ws, ino).events = ws.events /\ Unwatched(ws, ino).events = ws.events
      /\ Watched(ws, ino).dirs \subseteq ws.dirs \cup {ino} /\ ws.dirs \subseteq Watched(ws, ino).dirs
      /\ Unwatched(ws, ino).dirs = ws.dirs \ {ino}
  BY DirsFacts
<1>2. /\ Warned(Watched(ws, ino)) <=> Warned(ws)
      /\ Warned(Unwatched(ws, ino)) <=> Warned(ws)
  BY <1>1 DEF Warned
<1>3. /\ HasRoot(Watched(ws, ino)) <=> HasRoot(ws)
      /\ HasRoot(Unwatched(ws, ino)) <=> HasRoot(ws)
  BY <1>1 DEF HasRoot
<1>4. AlertOf(Watched(ws, ino), r, a)
  <2>1. ws.dirs \cap a = {} => Watched(ws, ino).dirs \cap a = {}
    BY <1>1
  <2>2. QED
    BY <1>1, <1>2, <1>3, <2>1 DEF AlertOf
<1>5. ino # r => AlertOf(Unwatched(ws, ino), r, a)
  <2>1. ws.dirs \cap a = {} => Unwatched(ws, ino).dirs \cap a = {}
    BY <1>1
  <2>2. ino # r /\ r \in ws.dirs => r \in Unwatched(ws, ino).dirs
    BY <1>1
  <2>3. QED
    BY <1>2, <1>3, <2>1, <2>2 DEF AlertOf
<1>6. QED
  BY <1>4, <1>5

\* A watcher whose first watch is the root.
LEMMA AlertFresh ==
  ASSUME NEW r \in Inodes, r # NoDir, NEW a, r \notin a
  PROVE  AlertOf(Watched(NoWatcher, r), r, a)
<1>1. /\ Watched(NoWatcher, r).events = <<>> /\ Watched(NoWatcher, r).dirs = {r}
  BY DEF Watched, NoWatcher
<1>2. QED
  BY <1>1, EmptySeq DEF AlertOf, Warned, HasRoot

\* An event that is not that of the root's going is read.
LEMMA AlertConsumes ==
  ASSUME w \in Watcher, w.events # <<>>, Consume, Event1.of # "root", NEW r, NEW a,
         AlertOf(w, r, a)
  PROVE  AlertOf(w', r, a)
BY ConsumeFacts DEF AlertOf

-------------------------------------------------------------------------------
(* Every step keeps the invariant: first the types, then the rest. *)

LEMMA EchoInit == Init => EchoInv
<1> SUFFICES ASSUME Init PROVE EchoInv
  OBVIOUS
<1>1. /\ w \in Watcher /\ w.dirs = {1} /\ w.events = <<>> /\ 1 \in Inodes /\ 0 \in Inodes
  BY TreeAssumption, EmptySeq DEF Init, Watcher, Inodes
<1>2. TypeOK
  BY <1>1, NoWatcherFacts, TreeAssumption DEF Init, TypeOK, PCs, Attaching, NoDir, Inodes
<1>3. TreeInv
  BY TreeAssumption DEF Init, TreeInv, NoDir
<1>4. Alert(w)
  BY <1>1, EmptySeq DEF Init, Alert, AlertOf, Warned, HasRoot, NoDir
<1>5. QED
  BY <1>2, <1>3, <1>4 DEF Init, EchoInv, WatchInv, NoEcho

LEMMA InodeFacts ==
  ASSUME TypeOK, TreeInv
  PROVE  /\ MaxInodes \in Nat /\ made \in Nat /\ NoDir = 0 /\ NoDir \in Inodes
         /\ \A i \in Int : 0 <= i /\ i <= MaxInodes => i \in Inodes
         /\ \A i \in Inodes : i \in Nat
         /\ root \in Inodes /\ d \in Inodes 
         /\ out \subseteq Inodes /\ away \subseteq Inodes
         /\ w \in Watcher /\ fresh \in Watcher
         /\ changes \in Nat /\ faults \in Nat
BY TreeAssumption DEF TypeOK, TreeInv, Inodes, NoDir

\* Where the loop is.
LEMMA PCFacts ==
  /\ PCs = {"select", "add", "announce", "walk", "walkdir", "fresh", "tree", "subtree", "swap"}
  /\ Attaching = {"fresh", "tree", "subtree", "swap"}
BY DEF PCs, Attaching

LEMMA NotifyFacts ==
  ASSUME TypeOK, NEW ino, NEW name \in Named, NEW stale \in BOOLEAN,
         Notify(ino, name, stale)
  PROVE  /\ w' \in Watcher /\ fresh' \in Watcher
         /\ fresh = NoWatcher => fresh' = NoWatcher
<1>1. w' \in Watcher /\ fresh' \in Watcher
  BY HearsFacts DEF Notify, TypeOK
<1>2. fresh = NoWatcher => fresh' = NoWatcher
  <2>1. ino \notin NoWatcher.dirs
    BY NoWatcherFacts
  <2>2. QED
    BY <2>1 DEF Notify, Hears
<1>3. QED
  BY <1>1, <1>2

\* The tree changes: types and inodes.
LEMMA ChangeKeepsTree ==
  ASSUME TypeOK, TreeInv, Change
  PROVE  TypeOK' /\ TreeInv'
<1> USE DEF TypeOK, TreeInv
<1>a. /\ MaxInodes \in Nat /\ made \in Nat /\ NoDir = 0 /\ NoDir \in Inodes
      /\ \A i \in Int : 0 <= i /\ i <= MaxInodes => i \in Inodes
      /\ \A i \in Inodes : i \in Nat
  BY InodeFacts
<1>b. /\ "root" \in Named /\ "d" \in Named /\ "other" \in Named
      /\ Files \subseteq Named
  BY DEF Named
<1>1. ASSUME NEW f \in Files, Write(f) PROVE TypeOK' /\ TreeInv'
  <2>1. w' \in Watcher /\ fresh' \in Watcher /\ (fresh = NoWatcher => fresh' = NoWatcher)
    BY <1>1, <1>b, NotifyFacts DEF Write
  <2>2. QED
    BY <1>1, <2>1 DEF Write
<1>2. ASSUME NEW f \in Files, Delete(f) PROVE TypeOK' /\ TreeInv'
  BY <1>2 DEF Delete
<1>3. ASSUME NEW held \in {{}, {"g"}}, MakeDir(held) PROVE TypeOK' /\ TreeInv'
  <2>1. w' \in Watcher /\ fresh' \in Watcher /\ (fresh = NoWatcher => fresh' = NoWatcher)
    BY <1>3, <1>b, NotifyFacts DEF MakeDir
  <2>2. made + 1 \in Inodes /\ made + 1 # root /\ made + 1 # 0 /\ made + 1 \notin away
    BY <1>3, <1>a DEF MakeDir
  <2>3. files' \subseteq Files /\ due' \subseteq files'
    BY <1>3 DEF MakeDir, Files
  <2>4. TypeOK'
    BY <1>3, <2>1, <2>2, <2>3 DEF MakeDir, counts
  <2>5. TreeInv'
    BY <1>3, <1>a, <2>2 DEF MakeDir
  <2>6. QED
    BY <2>4, <2>5
<1>4. CASE RemoveDir
  <2>1. w' \in Watcher /\ fresh' \in Watcher
    BY <1>4, DirsFacts DEF RemoveDir
  <2>2. fresh = NoWatcher => fresh' = NoWatcher
    BY <1>4, DirsFacts DEF RemoveDir
  <2>3. TypeOK'
    BY <1>4, <1>a, <2>1, <2>2 DEF RemoveDir, DirLeaves, counts
  <2>4. TreeInv'
    BY <1>4, <1>a DEF RemoveDir, DirLeaves
  <2>5. QED
    BY <2>3, <2>4
<1>9. CASE MoveDirOut
  <2>1. out' = out \cup {d} /\ d \in Inodes /\ d # NoDir /\ d <= made
    BY <1>9 DEF MoveDirOut, DirLeaves
  <2>2. TypeOK'
    BY <1>9, <1>a, <2>1 DEF MoveDirOut, DirLeaves, counts
  <2>3. TreeInv'
    BY <1>9, <1>a, <2>1 DEF MoveDirOut, DirLeaves
  <2>4. QED
    BY <2>2, <2>3
<1>5. CASE MoveRootAway
  <2>1. w' \in Watcher /\ fresh' \in Watcher /\ (fresh = NoWatcher => fresh' = NoWatcher)
    BY <1>5, <1>b, NotifyFacts DEF MoveRootAway
  <2>2. TypeOK'
    BY <1>5, <1>a, <2>1 DEF MoveRootAway, counts
  <2>3. /\ root' = 0 /\ d' = 0 /\ made' = made /\ out' = {} /\ root \in Nat /\ d \in Nat
        /\ \A ino \in away' : ino \in out \cup away \/ ino \in {root, d} \ {0}
    BY <1>5, <1>a DEF MoveRootAway
  <2>4. \A ino \in away' : ino # 0 /\ ino <= made
    <3>1. /\ root <= made /\ d <= made
          /\ \A ino \in out \cup away : ino # 0 /\ ino <= made
      BY <1>a
    <3>2. QED
      BY <2>3, <3>1
  <2>5. /\ made' <= MaxInodes /\ root' <= made' /\ d' <= made'
        /\ root' \notin away' /\ d' \notin away'
    BY <1>a, <2>3, <2>4
  <2>6. TreeInv'
    BY <1>a, <2>3, <2>4, <2>5
  <2>7. QED
    BY <2>2, <2>6
<1>6. ASSUME NEW held \in SUBSET Files, NewRoot(held) PROVE TypeOK' /\ TreeInv'
  <2>1. CASE "g" \in held
    <3>1. root' = made + 1 /\ d' = made + 2 /\ made' = made + 2 /\ made + 2 <= MaxInodes
          /\ away' = away /\ out' = out
      BY <1>6, <2>1 DEF NewRoot
    <3>2. made + 1 \in Inodes /\ made + 2 \in Inodes
      BY <1>a, <3>1
    <3>3. TypeOK'
      BY <1>6, <3>1, <3>2 DEF NewRoot, counts
    <3>4. TreeInv'
      BY <1>a, <3>1, <3>2
    <3>5. QED
      BY <3>3, <3>4
  <2>2. CASE "g" \notin held
    <3>1. root' = made + 1 /\ d' = 0 /\ made' = made + 1 /\ made + 1 <= MaxInodes
          /\ away' = away /\ out' = out
      BY <1>6, <1>a, <2>2 DEF NewRoot
    <3>2. made + 1 \in Inodes
      BY <1>a, <3>1
    <3>3. TypeOK'
      BY <1>6, <1>a, <3>1, <3>2 DEF NewRoot, counts
    <3>4. TreeInv'
      BY <1>a, <3>1, <3>2
    <3>5. QED
      BY <3>3, <3>4
  <2>3. QED
    BY <2>1, <2>2
<1>7. ASSUME NEW ino \in Inodes, WriteElsewhere(ino) PROVE TypeOK' /\ TreeInv'
  <2>1. w' \in Watcher /\ fresh' \in Watcher /\ (fresh = NoWatcher => fresh' = NoWatcher)
    <3>1. (ino \in away) \in BOOLEAN
      OBVIOUS
    <3>2. QED
      BY <1>7, <1>b, <3>1, NotifyFacts DEF WriteElsewhere
  <2>2. QED
    BY <1>7, <2>1 DEF WriteElsewhere, tree, loop
<1>8. QED
  BY <1>1, <1>2, <1>3, <1>4, <1>5, <1>6, <1>7, <1>9 DEF Change

\* The loop takes a step: types and inodes.
LEMMA LoopKeepsTree ==
  ASSUME TypeOK, TreeInv, WatchInv, LoopStep \/ Poll
  PROVE  TypeOK' /\ TreeInv'
<1> DEFINE TreeSame == UNCHANGED tree
<1>1. TreeSame /\ changes' = changes
  BY DEF LoopStep, Poll, DropEvent, RootWentAway, FileEvent, DirEvent, Receive, AddDir,
     AnnounceDir, AttachRoot, AttachTree, AttachDirs, Swap, AnnounceRoot, AnnounceRest, counts
<1>2. /\ root' = root /\ d' = d /\ files' = files /\ away' = away /\ out' = out /\ made' = made
  BY <1>1 DEF tree
<1>3. TreeInv'
  BY <1>2 DEF TreeInv
<1>4. /\ root \in Inodes /\ d \in Inodes /\ w \in Watcher /\ fresh \in Watcher
      /\ NoWatcher \in Watcher
  BY InodeFacts, NoWatcherFacts
<1>5. faults' \in Nat
  BY <1>1, InodeFacts
     DEF LoopStep, Poll, DropEvent, RootWentAway, FileEvent, DirEvent, Receive, AddDir,
     AnnounceDir, AttachRoot, AttachTree, AttachDirs, Swap, AnnounceRoot, AnnounceRest,
     CannotWatch, counts
<1>w. \A ws \in Watcher : Watched(ws, root) \in Watcher /\ Watched(ws, d) \in Watcher
  BY <1>4, DirsFacts
<1>6. Receive => w' \in Watcher /\ fresh' = fresh /\ pc = "select"
                 /\ Event1 \in Event
  BY <1>4, ConsumeFacts DEF Receive
<1> DEFINE Rest == /\ due' \subseteq files /\ w' \in Watcher /\ fresh' \in Watcher
                   /\ pc' \in PCs /\ (pc' \in Attaching => rootGone')
                   /\ (pc' \notin Attaching => fresh' = NoWatcher)
                   /\ rootGone' \in BOOLEAN /\ listed' \in BOOLEAN /\ deaf' \in BOOLEAN
                   /\ echoed' \in BOOLEAN
<1>7. Rest
  <2> USE DEF TypeOK
  <2>1. CASE DropEvent
    BY <2>1, <1>6 DEF DropEvent, loop
  <2>2. CASE RootWentAway
    BY <2>2, <1>6 DEF RootWentAway
  <2>3. CASE FileEvent
    BY <2>3, <1>6 DEF FileEvent, Handle, Event
  <2>4. CASE DirEvent
    BY <2>4, <1>6, PCFacts DEF DirEvent
  <2>5. CASE AddDir
    BY <2>5, <1>4, <1>w, PCFacts DEF AddDir, CannotWatch
  <2>6. CASE AnnounceDir
    BY <2>6, PCFacts DEF AnnounceDir
  <2>7. CASE Poll
    BY <2>7, <1>4, PCFacts DEF Poll
  <2>8. CASE AttachRoot
    <3>1. pc = "fresh" /\ pc' \in {"tree", "select"} /\ rootGone /\ rootGone' = rootGone
      BY <2>8, PCFacts DEF AttachRoot
    <3>2. fresh' \in Watcher
      BY <2>8, <1>4, <1>w DEF AttachRoot
    <3>3. pc' # "tree" => fresh' = NoWatcher
      BY <2>8, <3>1 DEF AttachRoot, WatchInv
    <3>4. QED
      BY <2>8, <3>1, <3>2, <3>3, PCFacts DEF AttachRoot
  <2>9. CASE AttachTree
    <3>1. fresh' \in Watcher /\ deaf' \in BOOLEAN
      BY <2>9, <1>4, <1>w DEF AttachTree
    <3>2. pc = "tree" /\ pc' \in {"subtree", "swap"} /\ rootGone
      BY <2>9, PCFacts DEF AttachTree
    <3>3. /\ pc' \in PCs /\ pc' \in Attaching /\ rootGone' = rootGone
      BY <2>9, <3>2, PCFacts DEF AttachTree
    <3>4. QED
      BY <2>9, <3>1, <3>2, <3>3 DEF AttachTree
  <2>10. CASE AttachDirs
    BY <2>10, <1>4, <1>w, PCFacts DEF AttachDirs, CannotWatch
  <2>11. CASE Swap
    BY <2>11, <1>4, PCFacts DEF Swap
  <2>12. CASE AnnounceRoot
    BY <2>12, PCFacts DEF AnnounceRoot
  <2>13. CASE AnnounceRest
    BY <2>13, PCFacts DEF AnnounceRest
  <2>14. QED
    BY <2>1, <2>2, <2>3, <2>4, <2>5, <2>6, <2>7, <2>8, <2>9, <2>10, <2>11, <2>12, <2>13
       DEF LoopStep
<1>8. TypeOK'
  BY <1>1, <1>2, <1>5, <1>7 DEF TypeOK
<1>9. QED
  BY <1>3, <1>8

\* The tree changes: the watchers stay alert.
LEMMA ChangeKeepsAlert ==
  ASSUME EchoInv, Change
  PROVE  WatchInv'
<1>0. /\ TypeOK /\ TreeInv /\ WatchInv /\ w \in Watcher /\ fresh \in Watcher
      /\ root \in Inodes /\ d \in Inodes
  BY InodeFacts DEF EchoInv
<1>a. /\ "root" \in Named /\ "d" \in Named /\ "other" \in Named
      /\ Files \subseteq Named
  BY DEF Named
\* What follows when both watchers stay alert and the loop stands still.
<1>b. ASSUME rootGone' = rootGone, pc' = pc, echoed' = echoed,
             Alert(w) => Alert(w)', Alert(fresh) => Alert(fresh)',
             fresh = NoWatcher => fresh' = NoWatcher
      PROVE  WatchInv'
  BY <1>0, <1>b DEF WatchInv, NoEcho
<1>1. ASSUME NEW f \in Files, Write(f) PROVE WatchInv'
  <2>1. fresh = NoWatcher => fresh' = NoWatcher
    BY <1>0, <1>1, <1>a, NotifyFacts DEF Write
  <2>2. /\ w' = Hears(w, DirOf(f), f, FALSE) /\ fresh' = Hears(fresh, DirOf(f), f, FALSE)
        /\ root' = root /\ away' = away
    BY <1>1 DEF Write, Notify
  <2>3. (Alert(w) => Alert(w)') /\ (Alert(fresh) => Alert(fresh)')
    BY <1>0, <1>a, <2>2, AlertHears DEF Alert
  <2>4. QED
    BY <1>1, <1>b, <2>1, <2>3 DEF Write
<1>2. ASSUME NEW f \in Files, Delete(f) PROVE WatchInv'
  <2>1. w' = w /\ fresh' = fresh /\ root' = root /\ away' = away
    BY <1>2 DEF Delete
  <2>2. (Alert(w) => Alert(w)') /\ (Alert(fresh) => Alert(fresh)')
    BY <2>1 DEF Alert
  <2>3. QED
    BY <1>2, <1>b, <2>1, <2>2 DEF Delete
<1>3. ASSUME NEW held \in {{}, {"g"}}, MakeDir(held) PROVE WatchInv'
  <2>1. fresh = NoWatcher => fresh' = NoWatcher
    BY <1>0, <1>3, <1>a, NotifyFacts DEF MakeDir
  <2>2. /\ w' = Hears(w, root, "d", FALSE) /\ fresh' = Hears(fresh, root, "d", FALSE)
        /\ root' = root /\ away' = away
    BY <1>3 DEF MakeDir, Notify
  <2>3. (Alert(w) => Alert(w)') /\ (Alert(fresh) => Alert(fresh)')
    BY <1>0, <1>a, <2>2, AlertHears DEF Alert
  <2>4. QED
    BY <1>3, <1>b, <2>1, <2>3 DEF MakeDir
<1>4. CASE RemoveDir
  <2>1. /\ w' = Unwatched(w, d) /\ fresh' = Unwatched(fresh, d)
        /\ root' = root /\ away' = away /\ d # root /\ d \notin away
    BY <1>0, <1>4 DEF RemoveDir, DirLeaves, TreeInv
  <2>2. fresh = NoWatcher => fresh' = NoWatcher
    BY <1>0, <2>1, DirsFacts
  <2>3. (Alert(w) => Alert(w)') /\ (Alert(fresh) => Alert(fresh)')
    BY <1>0, <2>1, AlertDirs DEF Alert
  <2>4. QED
    BY <1>4, <1>b, <2>2, <2>3 DEF RemoveDir, DirLeaves
<1>9. CASE MoveDirOut
  <2>1. w' = w /\ fresh' = fresh /\ root' = root /\ away' = away
    BY <1>9 DEF MoveDirOut, DirLeaves
  <2>2. (Alert(w) => Alert(w)') /\ (Alert(fresh) => Alert(fresh)')
    BY <2>1 DEF Alert
  <2>3. QED
    BY <1>9, <1>b, <2>1, <2>2 DEF MoveDirOut, DirLeaves
<1>5. CASE MoveRootAway
  <2>1. fresh = NoWatcher => fresh' = NoWatcher
    BY <1>0, <1>5, <1>a, NotifyFacts DEF MoveRootAway
  <2>2. w' = Hears(w, root, "root", FALSE) /\ fresh' = Hears(fresh, root, "root", FALSE)
    BY <1>5 DEF MoveRootAway, Notify
  <2>3. (Alert(w) => Alert(w)') /\ (Alert(fresh) => Alert(fresh)')
    BY <1>0, <2>2, AlertLeaves DEF Alert
  <2>4. QED
    BY <1>5, <1>b, <2>1, <2>3 DEF MoveRootAway
<1>6. ASSUME NEW held \in SUBSET Files, NewRoot(held) PROVE WatchInv'
  <2>1. w' = w /\ fresh' = fresh /\ away' = away /\ root = NoDir
    BY <1>6 DEF NewRoot
  <2>2. (Alert(w) => Alert(w)') /\ (Alert(fresh) => Alert(fresh)')
    BY <2>1 DEF Alert, AlertOf
  <2>3. QED
    BY <1>6, <1>b, <2>1, <2>2 DEF NewRoot
<1>7. ASSUME NEW ino \in Inodes, WriteElsewhere(ino) PROVE WatchInv'
  <2> DEFINE stale == ino \in away
  <2>0. stale \in BOOLEAN
    OBVIOUS
  <2>1. fresh = NoWatcher => fresh' = NoWatcher
    BY <1>0, <1>7, <1>a, <2>0, NotifyFacts DEF WriteElsewhere
  <2>2. /\ w' = Hears(w, ino, "other", stale) /\ fresh' = Hears(fresh, ino, "other", stale)
        /\ root' = root /\ away' = away /\ (stale => ino \in away)
    BY <1>7 DEF WriteElsewhere, Notify, tree
  <2> HIDE DEF stale
  <2>5. ASSUME NEW ws \in Watcher, AlertOf(ws, root, away)
        PROVE  AlertOf(Hears(ws, ino, "other", stale), root, away)
    BY <1>a, <2>0, <2>2, <2>5, AlertHears
  <2>3. (Alert(w) => Alert(w)') /\ (Alert(fresh) => Alert(fresh)')
    BY <1>0, <2>2, <2>5 DEF Alert
  <2>4. QED
    BY <1>7, <1>b, <2>1, <2>3 DEF WriteElsewhere, loop
<1>8. QED
  BY <1>1, <1>2, <1>3, <1>4, <1>5, <1>6, <1>7, <1>9 DEF Change

\* The loop takes a step: what it reads is not stale, and its watchers stay alert.
LEMMA LoopKeepsAlert ==
  ASSUME EchoInv, LoopStep \/ Poll
  PROVE  WatchInv'
<1>0. /\ TypeOK /\ TreeInv /\ WatchInv /\ w \in Watcher /\ fresh \in Watcher
      /\ root \in Inodes /\ d \in Inodes /\ root \notin away /\ d \notin away
  BY InodeFacts DEF EchoInv, TreeInv
<1>1. root' = root /\ away' = away
  BY DEF LoopStep, Poll, DropEvent, RootWentAway, FileEvent, DirEvent, Receive, AddDir,
     AnnounceDir, AttachRoot, AttachTree, AttachDirs, Swap, AnnounceRoot, AnnounceRest, tree
<1>2. ASSUME Receive, Event1.of # "root"
      PROVE  Alert(w) => Alert(w)' /\ ~Event1.stale
  <2>1. Alert(w) => AlertOf(w', root, away)
    BY <1>0, <1>2, AlertConsumes DEF Alert, Receive
  <2>2. Alert(w) => ~Event1.stale
    BY <1>0, <1>2, ConsumeFacts DEF Alert, AlertOf, Receive
  <2>3. QED
    BY <1>1, <2>1, <2>2 DEF Alert
<1>3. Receive => pc = "select" /\ fresh' = fresh
  BY DEF Receive
<1>4. (w' = w => (Alert(w) => Alert(w)')) /\ (fresh' = fresh => (Alert(fresh) => Alert(fresh)'))
  BY <1>1 DEF Alert
<1> USE DEF WatchInv, NoEcho
<1>5. CASE DropEvent
  BY <1>0, <1>3, <1>5 DEF DropEvent, loop
<1>6. CASE RootWentAway
  BY <1>0, <1>3, <1>6 DEF RootWentAway
<1>7. CASE FileEvent
  <2>1. Event1.of # "root" /\ ~rootGone /\ Receive
    BY <1>7 DEF FileEvent, Files
  <2>2. Alert(w)' /\ ~Event1.stale
    BY <1>0, <1>2, <2>1
  <2>3. QED
    BY <1>0, <1>3, <1>7, <2>1, <2>2 DEF FileEvent, Handle
<1>8. CASE DirEvent
  <2>1. Event1.of # "root" /\ ~rootGone /\ Receive
    BY <1>8 DEF DirEvent
  <2>2. Alert(w)'
    BY <1>0, <1>2, <2>1
  <2>3. QED
    BY <1>0, <1>8, <2>2 DEF DirEvent
<1>9. CASE AddDir
  <2>1. Alert(w) => Alert(w)'
    <3>1. CASE w' = Watched(w, d)
      BY <1>0, <1>1, <3>1, AlertDirs DEF Alert
    <3>2. QED
      BY <1>4, <1>9, <3>1 DEF AddDir
  <2>2. QED
    BY <1>0, <1>9, <2>1 DEF AddDir
<1>10. CASE AnnounceDir
  BY <1>0, <1>4, <1>10 DEF AnnounceDir
<1>11. CASE Poll
  BY <1>0, <1>4, <1>11 DEF Poll
<1>12. CASE AttachRoot
  <2>1. pc = "fresh" /\ w' = w /\ rootGone' = rootGone /\ echoed' = echoed
    BY <1>12 DEF AttachRoot
  <2>2. CASE root # NoDir /\ fresh' = Watched(fresh, root) /\ pc' = "tree"
    <3>1. Alert(fresh)'
      BY <1>0, <1>1, <2>1, <2>2, AlertFresh DEF Alert
    <3>2. QED
      BY <1>0, <1>4, <2>1, <2>2, <3>1
  <2>3. CASE pc' = "select"
    BY <1>0, <1>4, <2>1, <2>3
  <2>4. QED
    BY <1>12, <2>2, <2>3 DEF AttachRoot
<1>13. CASE AttachTree
  <2>1. pc = "tree" /\ w' = w /\ rootGone' = rootGone /\ echoed' = echoed
        /\ pc' \in {"subtree", "swap"}
    BY <1>13 DEF AttachTree
  <2>2. Alert(fresh)'
    <3>1. CASE fresh' = Watched(fresh, root)
      BY <1>0, <1>1, <2>1, <3>1, AlertDirs DEF Alert
    <3>2. QED
      BY <1>0, <1>4, <1>13, <2>1, <3>1 DEF AttachTree
  <2>3. QED
    BY <1>0, <1>4, <2>1, <2>2
<1>14. CASE AttachDirs
  <2>1. pc = "subtree" /\ w' = w /\ rootGone' = rootGone /\ echoed' = echoed /\ pc' = "swap"
    BY <1>14 DEF AttachDirs
  <2>2. Alert(fresh)'
    <3>1. CASE fresh' = Watched(fresh, d)
      BY <1>0, <1>1, <2>1, <3>1, AlertDirs DEF Alert
    <3>2. QED
      BY <1>0, <1>4, <1>14, <2>1, <3>1 DEF AttachDirs
  <2>3. QED
    BY <1>0, <1>4, <2>1, <2>2
<1>15. CASE Swap
  <2>1. Alert(w)'
    BY <1>0, <1>1, <1>15 DEF Swap, Alert
  <2>2. QED
    BY <1>0, <1>15, <2>1 DEF Swap
<1>16. CASE AnnounceRoot
  BY <1>0, <1>4, <1>16 DEF AnnounceRoot
<1>17. CASE AnnounceRest
  BY <1>0, <1>4, <1>17 DEF AnnounceRest
<1>18. QED
  BY <1>5, <1>6, <1>7, <1>8, <1>9, <1>10, <1>11, <1>12, <1>13, <1>14, <1>15, <1>16, <1>17
     DEF LoopStep

LEMMA EchoStep == EchoInv /\ [Next]_vars => EchoInv'
<1> SUFFICES ASSUME EchoInv, [Next]_vars PROVE EchoInv'
  OBVIOUS
<1>1. CASE Change
  BY <1>1, ChangeKeepsTree, ChangeKeepsAlert DEF EchoInv
<1>2. CASE LoopStep \/ Poll
  BY <1>2, LoopKeepsTree, LoopKeepsAlert DEF EchoInv
<1>3. CASE UNCHANGED vars
  <2>1. TypeOK' /\ TreeInv'
    BY <1>3 DEF EchoInv, TypeOK, TreeInv, vars
  <2>2. WatchInv'
    BY <1>3 DEF EchoInv, WatchInv, Alert, NoEcho, vars
  <2>3. QED
    BY <2>1, <2>2 DEF EchoInv
<1>4. QED
  BY <1>1, <1>2, <1>3 DEF Next

LEMMA EchoHolds == Spec => []EchoInv
BY EchoInit, EchoStep, PTL DEF Spec

(* The types, and that a fresh watcher is open only while it is set up,     *)
(* with the root gone (addTree and the re-attachment in watchSource).       *)
THEOREM TypesKept == Spec => []TypeOK
<1>1. EchoInv => TypeOK
  BY DEF EchoInv
<1>2. QED
  BY <1>1, EchoHolds, PTL

(* A change in what left with a root, or had been moved out of it before,   *)
(* is not reported under the root's path, whatever becomes of the tree      *)
(* between the steps of the loop.                                           *)
THEOREM NothingEchoes == Spec => []NoEcho
<1>1. EchoInv => NoEcho
  BY DEF EchoInv, WatchInv
<1>2. QED
  BY <1>1, EchoHolds, PTL
===============================================================================
