------------------------------ MODULE WatcherTree ------------------------------
(***************************************************************************)
(* How a recursive source of the activity watcher hears of files           *)
(* (cmd/activity-watcher/main.go addTree, announce and the event loop of   *)
(* watchSource): it watches every directory of its tree, adds directories  *)
(* as they appear, announces what they arrive with, and when its root is   *)
(* replaced waits for it and attaches a fresh fsnotify watcher.  The tree  *)
(* changes between any two of these steps.                                 *)
(*                                                                         *)
(* Abstractions.  The tree is a root that holds the file "f" and the       *)
(* directory "d", which holds the file "g": deeper trees repeat the step   *)
(* from the root to d, and d and "g" stand for what is beneath d as well.  *)
(* Directories are inodes, numbered as they are made, because a watch      *)
(* follows the inode and a path may lead to another one.                   *)
(* A file is written or deleted; what happens to a report (debounce,       *)
(* budget, queue) is WatcherSource.  The source reports creations and       *)
(* modifications; links, skipped directories and patterns are left out.    *)
(*                                                                         *)
(* External: fsnotify queues, in order, an event for each change of a file *)
(* or directory in a watched directory, and one for the root itself when   *)
(* it is removed or renamed.  The watch of a directory that is removed or  *)
(* moved is dropped; those of the directories beneath a moved one are not, *)
(* and what happens there is heard under the path it had.  (A root that    *)
(* moved keeps its own watch here: more is heard than fsnotify tells.)     *)
(***************************************************************************)
EXTENDS Integers, Sequences

CONSTANTS
  MaxInodes,    \* bound: directories made
  MaxChanges,   \* bound: changes of files
  MaxFaults     \* bound: watches that cannot be added

ASSUME TreeAssumption ==
  MaxInodes \in Nat \ {0} /\ MaxChanges \in Nat /\ MaxFaults \in Nat

Files == {"f", "g"}
Inodes == 0..MaxInodes
NoDir == 0

(* An event names a file, the directory d, the root that went away, or some *)
(* other file, in a directory that was moved; it is stale when that left    *)
(* with a root, or before a root that left.                                 *)
Named == Files \cup {"d", "root", "other"}
Event == [of : Named, stale : BOOLEAN]
Watcher == [dirs : SUBSET Inodes, events : Seq(Event)]
NoWatcher == [dirs |-> {}, events |-> <<>>]

VARIABLES
  root,         \* the inode at the root's path, or NoDir
  d,            \* the inode of the directory d in it, or NoDir
  files,        \* the files that exist
  out,          \* directories moved out of the root that is (or was) there
  away,         \* the inodes of roots that were moved away, of what was in
                \* them and of what had been moved out of them before
  made,         \* inodes made so far
  w,            \* the watcher the loop reads
  fresh,        \* the watcher being set up by a re-attachment
  rootGone,     \* the loop waits for the root to come back
  pc,           \* where the loop is
  listed,       \* the walk of announce(addRoot) found d
  deaf,         \* d was not watched because a watch failed (it is in the log)
  due,          \* files written and not yet reported
  echoed,       \* a change was reported that was made, after the root had gone,
                \* in what was in it
  changes, faults

tree == <<root, d, files, out, away, made>>
counts == <<changes, faults>>
loop == <<rootGone, pc, listed, deaf, due, echoed>>
vars == <<root, d, files, out, away, made, w, fresh, rootGone, pc, listed, deaf,
          due, echoed, changes, faults>>

\* The source has started: an empty root is watched.
Init ==
  /\ root = 1 /\ d = NoDir /\ files = {} /\ made = 1
  /\ out = {} /\ away = {}
  /\ w = [dirs |-> {1}, events |-> <<>>] /\ fresh = NoWatcher
  /\ rootGone = FALSE /\ pc = "select" /\ listed = FALSE
  /\ deaf = FALSE /\ due = {} /\ echoed = FALSE
  /\ changes = 0 /\ faults = 0

-------------------------------------------------------------------------------
(* The tree changes. *)

Hears(ws, ino, name, stale) ==
  IF ino \in ws.dirs
    THEN [ws EXCEPT !.events = Append(@, [of |-> name, stale |-> stale])]
    ELSE ws

Notify(ino, name, stale) ==
  /\ w' = Hears(w, ino, name, stale)
  /\ fresh' = Hears(fresh, ino, name, stale)

DirOf(f) == IF f = "f" THEN root ELSE d

Write(f) ==
  /\ changes < MaxChanges /\ changes' = changes + 1
  /\ DirOf(f) # NoDir
  /\ files' = files \cup {f}
  /\ due' = due \cup {f}
  /\ Notify(DirOf(f), f, FALSE)
  /\ UNCHANGED <<root, d, out, away, made, rootGone, pc, listed, deaf, echoed, faults>>

\* A file that is gone need not be reported.
Delete(f) ==
  /\ changes < MaxChanges /\ changes' = changes + 1
  /\ f \in files
  /\ files' = files \ {f} /\ due' = due \ {f}
  /\ UNCHANGED <<root, d, out, away, made, w, fresh, rootGone, pc, listed, deaf, echoed,
                 faults>>

\* d is made, or moved in with its file.
MakeDir(held) ==
  /\ root # NoDir /\ d = NoDir /\ made < MaxInodes
  /\ made' = made + 1 /\ d' = made + 1
  /\ files' = files \cup held /\ due' = due \cup held
  /\ Notify(root, "d", FALSE)
  /\ UNCHANGED <<root, out, away, rootGone, pc, listed, deaf, echoed, counts>>

Unwatched(ws, ino) == [ws EXCEPT !.dirs = @ \ {ino}]

DirLeaves ==
  /\ d # NoDir
  /\ d' = NoDir
  /\ files' = files \ {"g"} /\ due' = due \ {"g"}
  /\ UNCHANGED <<root, away, made, rootGone, pc, listed, deaf, echoed, counts>>

\* d is removed, or moved out of the root with no directory beneath it.
RemoveDir ==
  /\ DirLeaves
  /\ w' = Unwatched(w, d) /\ fresh' = Unwatched(fresh, d)
  /\ UNCHANGED out

\* d is moved out of the root with the directories beneath it.
MoveDirOut ==
  /\ DirLeaves
  /\ out' = out \cup {d}
  /\ UNCHANGED <<w, fresh>>

\* The root is renamed (or removed), with all it holds.
MoveRootAway ==
  /\ root # NoDir
  /\ root' = NoDir /\ d' = NoDir
  /\ away' = away \cup out \cup ({root, d} \ {NoDir}) /\ out' = {}
  /\ files' = {} /\ due' = {}
  /\ Notify(root, "root", FALSE)
  /\ UNCHANGED <<made, rootGone, pc, listed, deaf, echoed, counts>>

\* A directory appears at the root's path, with what it holds.
NewRoot(held) ==
  /\ root = NoDir
  /\ made + (IF "g" \in held THEN 2 ELSE 1) <= MaxInodes
  /\ root' = made + 1
  /\ d' = IF "g" \in held THEN made + 2 ELSE NoDir
  /\ made' = made + (IF "g" \in held THEN 2 ELSE 1)
  /\ files' = held /\ due' = held
  /\ UNCHANGED <<out, away, w, fresh, rootGone, pc, listed, deaf, echoed, counts>>

\* Somebody writes in a directory that was moved, and a watcher hears it.
WriteElsewhere(ino) ==
  /\ changes < MaxChanges /\ changes' = changes + 1
  /\ ino \in out \cup away /\ ino \in w.dirs \cup fresh.dirs
  /\ Notify(ino, "other", ino \in away)
  /\ UNCHANGED <<tree, loop, faults>>

-------------------------------------------------------------------------------
(* The event loop. *)

(* Seeded bugs: definitions named ..Bug are variants of the definition that *)
(* follows them, each with one plausible mistake.  Nothing here uses them;  *)
(* substituted one at a time they show that the properties notice.          *)

Event1 == Head(w.events)
Consume == w' = [w EXCEPT !.events = Tail(@)]
Receive == pc = "select" /\ w.events # <<>> /\ Consume /\ UNCHANGED <<tree, fresh, counts>>

\* What the old watcher still says while the root is gone is dropped.
DropEvent ==
  /\ Receive /\ rootGone
  /\ UNCHANGED loop

\* The loop does not notice that its root has gone.
IgnoresRootBug ==
  /\ Receive /\ ~rootGone /\ Event1.of = "root"
  /\ UNCHANGED loop

RootWentAway ==
  /\ Receive /\ ~rootGone /\ Event1.of = "root"
  /\ rootGone' = TRUE
  /\ UNCHANGED <<pc, listed, deaf, due, echoed>>

\* handle(f): whatever was written to f by now is reported.
Handle(f, stale) ==
  /\ due' = due \ {f}
  /\ echoed' = (echoed \/ stale)

FileEvent ==
  /\ Receive /\ ~rootGone /\ Event1.of \in Files \cup {"other"}
  /\ Handle(Event1.of, Event1.stale)
  /\ UNCHANGED <<rootGone, pc, listed, deaf>>

\* A new directory: the loop looks whether it is (still) there.  If not, the
\* event is handled as that of a file.
DirEvent ==
  /\ Receive /\ ~rootGone /\ Event1.of = "d"
  /\ pc' = IF d # NoDir THEN "add" ELSE "select"
  /\ UNCHANGED <<rootGone, listed, deaf, due, echoed>>

CannotWatch == faults < MaxFaults /\ faults' = faults + 1

Watched(ws, ino) == IF ino = NoDir THEN ws ELSE [ws EXCEPT !.dirs = @ \cup {ino}]

\* The directory is announced first and watched afterwards.
AnnounceFirstBug ==
  /\ pc = "add"
  /\ IF listed
       THEN /\ w' = Watched(w, d) /\ listed' = FALSE /\ pc' = "select"
            /\ UNCHANGED due
       ELSE /\ due' = due \ ({"g"} \cap files) /\ listed' = TRUE
            /\ UNCHANGED <<w, pc>>
  /\ UNCHANGED <<tree, fresh, rootGone, deaf, echoed, counts>>

\* addTree(w, d): d may be another directory by now, or none.
AddDir ==
  /\ pc = "add"
  /\ \/ w' = Watched(w, d) /\ UNCHANGED <<deaf, faults>>
     \/ CannotWatch /\ deaf' = TRUE /\ UNCHANGED w
  /\ pc' = "announce"
  /\ UNCHANGED <<tree, fresh, rootGone, listed, due, echoed, changes>>

\* announce(d).
AnnounceDir ==
  /\ pc = "announce"
  /\ due' = due \ ({"g"} \cap files)
  /\ pc' = "select"
  /\ UNCHANGED <<tree, w, fresh, rootGone, listed, deaf, echoed, counts>>

-------------------------------------------------------------------------------
(* Re-attachment. *)

\* The poll timer: os.Stat finds a directory at the root's path.
Poll ==
  /\ pc = "select" /\ rootGone /\ root # NoDir
  /\ pc' = "fresh" /\ fresh' = NoWatcher
  /\ UNCHANGED <<tree, w, rootGone, listed, deaf, due, echoed, counts>>

\* fresh.Add(addRoot): it may be gone again, or fail; the next poll tries again.
AttachRoot ==
  /\ pc = "fresh"
  /\ \/ /\ root # NoDir
        /\ fresh' = Watched(fresh, root) /\ pc' = "tree"
        /\ UNCHANGED faults
     \/ /\ root = NoDir /\ pc' = "select"
        /\ UNCHANGED <<fresh, faults>>
     \/ /\ CannotWatch /\ pc' = "select"
        /\ UNCHANGED fresh
  /\ UNCHANGED <<tree, w, rootGone, listed, deaf, due, echoed, changes>>

\* When the root is gone again the poll goes on, and the fresh watcher stays open.
LeaksWatcherBug ==
  /\ pc = "tree"
  /\ \/ root # NoDir /\ fresh' = Watched(fresh, root) /\ pc' = "subtree"
     \/ root = NoDir /\ pc' = "select" /\ UNCHANGED fresh
  /\ UNCHANGED <<tree, w, rootGone, listed, deaf, due, echoed, counts>>

\* addTree(fresh, addRoot): the root once more, whatever is there by now ...
AttachTree ==
  /\ pc = "tree"
  /\ \/ /\ root # NoDir /\ fresh' = Watched(fresh, root)
        /\ pc' = "subtree" /\ UNCHANGED <<deaf, faults>>
     \/ root = NoDir /\ pc' = "swap" /\ UNCHANGED <<fresh, deaf, faults>>
     \/ CannotWatch /\ pc' = "swap" /\ deaf' = TRUE /\ UNCHANGED fresh
  /\ UNCHANGED <<tree, w, rootGone, listed, due, echoed, changes>>

\* ... and its directories.
AttachDirs ==
  /\ pc = "subtree"
  /\ \/ fresh' = Watched(fresh, d) /\ deaf' = FALSE /\ UNCHANGED faults
     \/ CannotWatch /\ deaf' = TRUE /\ UNCHANGED fresh
  /\ pc' = "swap"
  /\ UNCHANGED <<tree, w, rootGone, listed, due, echoed, changes>>

\* The fresh watches are added to those of the old watcher.
KeepsOldWatcherBug ==
  /\ pc = "swap"
  /\ w' = [w EXCEPT !.dirs = @ \cup fresh.dirs]
  /\ fresh' = NoWatcher
  /\ rootGone' = FALSE /\ pc' = "walk"
  /\ UNCHANGED <<tree, listed, deaf, due, echoed, counts>>

\* The old watcher is closed: what it had queued is not read any more.
Swap ==
  /\ pc = "swap"
  /\ w' = fresh /\ fresh' = NoWatcher
  /\ rootGone' = FALSE /\ pc' = "walk"
  /\ UNCHANGED <<tree, listed, deaf, due, echoed, counts>>

\* announce(addRoot): the root is listed and its files are reported ...
AnnounceRoot ==
  /\ pc = "walk"
  /\ due' = due \ ({"f"} \cap files)
  /\ listed' = (d # NoDir)
  /\ pc' = "walkdir"
  /\ UNCHANGED <<tree, w, fresh, rootGone, deaf, echoed, counts>>

\* ... and then the directories that were in the listing.
AnnounceRest ==
  /\ pc = "walkdir"
  /\ due' = IF listed THEN due \ ({"g"} \cap files) ELSE due
  /\ listed' = FALSE
  /\ pc' = "select"
  /\ UNCHANGED <<tree, w, fresh, rootGone, deaf, echoed, counts>>

-------------------------------------------------------------------------------
Change ==
  \/ \E f \in Files : Write(f) \/ Delete(f)
  \/ \E held \in {{}, {"g"}} : MakeDir(held)
  \/ RemoveDir \/ MoveDirOut \/ MoveRootAway
  \/ \E held \in SUBSET Files : NewRoot(held)
  \/ \E ino \in Inodes : WriteElsewhere(ino)

LoopStep ==
  \/ DropEvent \/ RootWentAway \/ FileEvent \/ DirEvent
  \/ AddDir \/ AnnounceDir
  \/ AttachRoot \/ AttachTree \/ AttachDirs \/ Swap \/ AnnounceRoot \/ AnnounceRest

Next == Change \/ LoopStep \/ Poll

Spec == Init /\ [][Next]_vars

\* The loop runs on, and its select takes a poll timer that is due.
FairSpec == Spec /\ WF_vars(LoopStep) /\ SF_vars(Poll)

-------------------------------------------------------------------------------
(* Properties. *)

Attaching == {"fresh", "tree", "subtree", "swap"}
PCs == {"select", "add", "announce", "walk", "walkdir"} \cup Attaching

(* Types; and a fresh watcher is open only while it is being set up, which  *)
(* happens only while the root is gone.                                     *)
TypeOK ==
  /\ root \in Inodes /\ d \in Inodes /\ made \in Inodes
  /\ out \subseteq Inodes /\ away \subseteq Inodes
  /\ files \subseteq Files /\ due \subseteq files
  /\ w \in Watcher /\ fresh \in Watcher
  /\ pc \in PCs
  /\ pc \in Attaching => rootGone
  /\ pc \notin Attaching => fresh = NoWatcher
  /\ rootGone \in BOOLEAN /\ listed \in BOOLEAN /\ deaf \in BOOLEAN
  /\ echoed \in BOOLEAN
  /\ changes \in Nat /\ faults \in Nat

(* "A source keeps reporting after its root is replaced" and "Files inside  *)
(* a moved-in or copied-in directory are reported" (CHANGELOG.md): however  *)
(* the tree changes while directories are added, announced and re-attached, *)
(* each file that was written is reported in the end -- but for those in a  *)
(* directory of which the log says that it could not be watched.            *)
EveryFileHeard == <>[](root # NoDir => due \subseteq (IF deaf THEN {"g"} ELSE {}))

(* A source whose root is there in the end watches it, and not another that *)
(* was there before.                                                        *)
RootWatched == <>[](root # NoDir => ~rootGone /\ root \in w.dirs)

(* A change inside a root that was moved away, or inside a directory that   *)
(* had been moved out of it before, is not reported under the root's path:  *)
(* the loop learns first that the root has gone, and no event of the old    *)
(* watcher outlives the re-attachment.  While its root stays, a directory   *)
(* that was moved out does echo: the loop asks of the root's name only.     *)
NoEcho == ~echoed
===============================================================================
