-------------------------- MODULE SnapshotIndexer --------------------------
(***************************************************************************)
(* One moduleIndex of internal/server/snapshot_indexer.go: the index of a  *)
(* module's tree that sessions take their snapshots from, built before the *)
(* server answers and rebuilt by the goroutine watch() when fsnotify       *)
(* reports a change.                                                       *)
(*                                                                         *)
(* The tree changes at any time, also in the middle of a scan, which walks *)
(* it one entry at a time and reads a file's metadata and its contents at  *)
(* two moments.  A file's state is one value; an index entry holds the     *)
(* value its metadata came from and the value its checksum came from.      *)
(***************************************************************************)
EXTENDS Integers, Sequences

CONSTANTS
  Files,         \* the paths a regular file may have
  Root,          \* the module root
  SubDirs,       \* the directories below it
  DirOf,         \* the directory of each file
  FirstDirs,     \* the subdirectories there are when the server starts
  Contents,      \* the states of a file that exists
  Absent,        \* the state of one that does not
  MaxChanges,    \* bound on the changes of the tree
  QueueLimit,    \* how many events the kernel keeps for the watcher
  EarlyChanges,  \* may the tree change before the watches are in place?
  NewDirs,       \* may directories be made while the server runs?
  WatchFaults,   \* may watcher.Add fail (no watch left)?
  ScanFaults     \* may a scan, or making the watcher, fail by itself?

Dirs == {Root} \cup SubDirs

ASSUME IndexerConstants ==
  /\ DirOf \in [Files -> Dirs]
  /\ Root \notin SubDirs /\ FirstDirs \subseteq SubDirs
  /\ Absent \notin Contents
  /\ Files \cap Dirs = {}
  /\ MaxChanges \in Nat /\ QueueLimit \in Nat \ {0}
  /\ EarlyChanges \in BOOLEAN /\ NewDirs \in BOOLEAN
  /\ WatchFaults \in BOOLEAN /\ ScanFaults \in BOOLEAN

VARIABLES
  tree,     \* the state of every file
  dirs,     \* the subdirectories that exist
  changes,  \* how often the tree changed
  phase,    \* "initial" rebuild, "adding" watches, "watching", or the ends
            \* "unwatched" (watch() returned) and "down" (New failed)
  todo,     \* the names the walk has listed and not yet visited
  half,     \* the file whose metadata was read and its checksum was not
  info,     \* the state that metadata was read from
  got,      \* the entries of the scan so far
  scanning, \* is a scan going on?
  watched,  \* the directories with a watch
  unadded,  \* the directories addRecursiveWatches has yet to add at the start
  queue,    \* events not yet received: a new directory, or AnyEvent
  pending,  \* the flag of the same name
  timer,    \* is the debounce timer running?
  index     \* m.data: a set of entries, one per path

source   == <<tree, dirs, changes>>
scan     == <<todo, half, info, got, scanning>>
watcher  == <<watched, unadded, queue>>
debounce == <<pending, timer>>
vars     == <<source, phase, scan, watcher, debounce, index>>

NoFile   == Root        \* no file is half read
AnyEvent == Root        \* an event that names no new directory

Entry(f, meta, sum) == [path |-> f, meta |-> meta, sum |-> sum]
Exists(f) == tree[f] # Absent

\* The index a scan of a tree that stands still would make.
View == {Entry(f, tree[f], tree[f]) : f \in {g \in Files : Exists(g)}}

ListDir(d) == {f \in Files : DirOf[f] = d /\ Exists(f)}
                \cup (IF d = Root THEN dirs ELSE {})

Init ==
  /\ tree \in [Files -> Contents \cup {Absent}]
  /\ \A f \in Files : Exists(f) => DirOf[f] \in FirstDirs \cup {Root}
  /\ dirs = FirstDirs
  /\ changes = 0
  /\ phase = "initial"
  /\ todo = ListDir(Root) /\ half = NoFile /\ info = Absent /\ got = {}
  /\ scanning = TRUE
  /\ watched = {} /\ unadded = {} /\ queue = << >>
  /\ pending = FALSE /\ timer = FALSE
  /\ index = {}
-----------------------------------------------------------------------------
(***************************************************************************)
(* The tree changes.  The kernel queues an event when the directory of the *)
(* change is watched, and drops it when the queue is full.                 *)
(***************************************************************************)
Notify(dir, event) ==
  queue' = IF dir \in watched /\ Len(queue) < QueueLimit
           THEN Append(queue, event) ELSE queue

MayChange ==
  /\ changes < MaxChanges
  /\ EarlyChanges \/ phase \notin {"initial", "adding"}
  /\ changes' = changes + 1
  /\ UNCHANGED <<phase, scan, unadded, debounce, index>>

\* A file is created or written (DirOf exists), removed, or renamed: that is
\* a removal here and a creation there.
ChangeFile(f, state) ==
  /\ MayChange
  /\ DirOf[f] \in dirs \cup {Root}
  /\ state # tree[f]
  /\ tree' = [tree EXCEPT ![f] = state]
  /\ Notify(DirOf[f], AnyEvent)
  /\ UNCHANGED <<dirs, watched>>

MakeDir(d) ==
  /\ MayChange
  /\ NewDirs /\ d \notin dirs
  /\ dirs' = dirs \cup {d}
  /\ Notify(Root, d)
  /\ UNCHANGED <<tree, watched>>

\* With an empty directory goes the watch on it.
RemoveDir(d) ==
  /\ MayChange
  /\ d \in dirs /\ ListDir(d) = {}
  /\ dirs' = dirs \ {d}
  /\ watched' = watched \ {d}
  /\ Notify(Root, AnyEvent)
  /\ UNCHANGED tree
-----------------------------------------------------------------------------
(***************************************************************************)
(* scanModuleSnapshot, and what rebuild() does with its result.            *)
(***************************************************************************)
ScanDir(d) ==
  /\ scanning /\ half = NoFile
  /\ d \in todo \cap dirs
  /\ todo' = (todo \ {d}) \cup ListDir(d)
  /\ UNCHANGED <<source, phase, half, info, got, scanning, watcher, debounce, index>>

ScanInfo(f) ==
  /\ scanning /\ half = NoFile
  /\ f \in todo /\ f \in Files /\ Exists(f)
  /\ todo' = todo \ {f}
  /\ half' = f /\ info' = tree[f]
  /\ UNCHANGED <<source, phase, got, scanning, watcher, debounce, index>>

ScanChecksum ==
  /\ scanning /\ half # NoFile
  /\ Exists(half)
  /\ got' = got \cup {Entry(half, info, tree[half])}
  /\ half' = NoFile /\ info' = Absent
  /\ UNCHANGED <<source, phase, todo, scanning, watcher, debounce, index>>

ScanOver ==
  /\ scanning' = FALSE
  /\ todo' = {} /\ half' = NoFile /\ info' = Absent /\ got' = {}

\* A mutant: the flag stays set after a rebuild.
PendingStuck == TRUE
\* pending after m.rebuild() returned, with or without an error.
PendingAfter == FALSE

\* A mutant: the new entries are merged into the old ones.
Merge(new) == index \cup new
\* rebuild() replaces the whole index.
Publish(new) == new

\* The first rebuild ends and go mi.watch() starts; a later one returns to the
\* loop of watch().
Rebuilt ==
  /\ scanning /\ todo = {} /\ half = NoFile
  /\ index' = Publish(got)
  /\ ScanOver
  /\ phase' = IF phase = "initial" THEN "adding" ELSE phase
  /\ IF phase = "initial"
     THEN /\ unadded' = {Root}
          /\ UNCHANGED pending
     ELSE /\ pending' = PendingAfter
          /\ UNCHANGED unadded
  /\ UNCHANGED <<source, watched, queue, timer>>

\* Something listed is gone when the walk gets there, or I/O fails: the first
\* rebuild makes New fail, a later one leaves the old index in place.
RebuildFailed ==
  /\ scanning
  /\ \/ half # NoFile /\ ~Exists(half)
     \/ half = NoFile /\ \E f \in todo \cap Files : ~Exists(f)
     \/ half = NoFile /\ \E d \in todo \ Files : d \notin dirs
     \/ ScanFaults
  /\ ScanOver
  /\ phase' = IF phase = "initial" THEN "down" ELSE phase
  /\ pending' = PendingAfter
  /\ UNCHANGED <<source, watcher, timer, index>>
-----------------------------------------------------------------------------
(***************************************************************************)
(* watch()                                                                 *)
(***************************************************************************)
\* addRecursiveWatches on the root: the errors of watcher.Add are dropped.
AddWatch(d) ==
  /\ phase = "adding"
  /\ d \in unadded
  /\ unadded' = IF d = Root THEN dirs ELSE unadded \ {d}
  /\ \/ watched' = watched \cup ({d} \cap (dirs \cup {Root}))
     \/ WatchFaults /\ UNCHANGED watched
  /\ UNCHANGED <<source, phase, scan, queue, debounce, index>>

Watching ==
  /\ phase = "adding" /\ unadded = {}
  /\ phase' = "watching"
  /\ UNCHANGED <<source, scan, watcher, debounce, index>>

\* fsnotify.NewWatcher or the first os.Stat fails: the goroutine ends.
WatchFailed ==
  /\ ScanFaults
  /\ phase = "adding" /\ unadded = {Root}
  /\ phase' = "unwatched"
  /\ UNCHANGED <<source, scan, watcher, debounce, index>>

\* A mutant: the watch on a new directory is forgotten.
NoNewWatch(event) == watched
\* addRecursiveWatches(watcher, ev.Name) for a Create event.
NewWatch(event) == watched \cup ({event} \cap dirs)

\* The goroutine sits in its select, not in rebuild().
AtSelect == phase = "watching" /\ ~scanning

ReceiveEvent ==
  /\ AtSelect
  /\ queue # << >>
  /\ queue' = Tail(queue)
  /\ \/ watched' = NewWatch(Head(queue))
     \/ WatchFaults /\ UNCHANGED watched
  /\ pending' = TRUE
  /\ timer' = (timer \/ ~pending)
  /\ UNCHANGED <<source, phase, scan, unadded, index>>

\* The timer runs 1.2 s from the first event; any number of events may be
\* received before it fires.
TimerFires ==
  /\ AtSelect
  /\ timer
  /\ timer' = FALSE
  /\ scanning' = TRUE
  /\ todo' = ListDir(Root) /\ half' = NoFile /\ info' = Absent /\ got' = {}
  /\ UNCHANGED <<source, phase, watcher, pending, index>>
-----------------------------------------------------------------------------
SourceStep ==
  \/ \E f \in Files, state \in Contents \cup {Absent} : ChangeFile(f, state)
  \/ \E d \in SubDirs : MakeDir(d) \/ RemoveDir(d)

ScanStep ==
  \/ \E d \in SubDirs : ScanDir(d)
  \/ \E f \in Files : ScanInfo(f)
  \/ ScanChecksum
  \/ Rebuilt
  \/ RebuildFailed

WatchStep ==
  \/ \E d \in Dirs : AddWatch(d)
  \/ Watching
  \/ WatchFailed
  \/ ReceiveEvent
  \/ TimerFires

Next == SourceStep \/ ScanStep \/ WatchStep

Spec == Init /\ [][Next]_vars

\* The goroutines run; nobody makes the tree change.
FairSpec == Spec /\ WF_vars(ScanStep) /\ WF_vars(WatchStep)
-----------------------------------------------------------------------------
IsIndex(entries) ==
  /\ entries \subseteq [path : Files, meta : Contents, sum : Contents]
  /\ \A e1, e2 \in entries : e1.path = e2.path => e1 = e2

\* The index and the scan have one entry per path, as byPath does.
TypeOK ==
  /\ tree \in [Files -> Contents \cup {Absent}]
  /\ dirs \subseteq SubDirs /\ changes \in 0 .. MaxChanges
  /\ phase \in {"initial", "adding", "watching", "unwatched", "down"}
  /\ todo \subseteq Files \cup SubDirs
  /\ half \in Files \cup {NoFile} /\ info \in Contents \cup {Absent}
  /\ IsIndex(got) /\ IsIndex(index)
  /\ scanning \in BOOLEAN /\ pending \in BOOLEAN /\ timer \in BOOLEAN
  /\ watched \subseteq Dirs /\ unadded \subseteq Dirs
  /\ queue \in Seq(SubDirs \cup {AnyEvent}) /\ Len(queue) <= QueueLimit

\* "Rebuilt at the start and when files change" (README.md:18): an index that
\* does not describe the tree never goes unnoticed; an event waits, or the
\* timer runs, or a rebuild is under way (snapshot_indexer.go:141-167).
RestIsFresh ==
  AtSelect /\ queue = << >> /\ ~timer => index = View

Promise == INSTANCE IndexPromise WITH
  view <- View, dirty <- timer \/ queue # << >>, scan <- scanning

\* Changes anywhere between the steps of a scan, of the watcher and of the timer
\* are all answered: a scan that none of them overtook publishes exactly the tree
\* there is, one that fails or publishes anything else has a change waiting, and
\* nothing else touches the index (snapshot_indexer.go:49-67, 121-167).
ImplementsIndex == Promise!Spec

\* However rebuilds end and watches fail, an event that waits is followed by
\* another scan: the loop never loses its timer (snapshot_indexer.go:153-161).
EventsRescan == AtSelect /\ queue # << >> ~> scanning

\* When the tree stops changing the index comes to describe it, and stays so.
FreshEventually == <>[](index = View)
=============================================================================
