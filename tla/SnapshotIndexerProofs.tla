----------------------- MODULE SnapshotIndexerProofs -----------------------
(***************************************************************************)
(* A rebuild follows every change of the tree: RestIsFresh for every tree, *)
(* every number of changes and every interleaving of changes, scan steps   *)
(* and events, when the watches are in place before the first change; and  *)
(* step by step the promise of IndexPromise.                               *)
(***************************************************************************)
EXTENDS SnapshotIndexer, TLAPS

(***************************************************************************)
(* Type correctness.  That a scan makes one entry per path needs that the  *)
(* walk visits nothing twice.                                              *)
(***************************************************************************)
VisitedOnce ==
  /\ half # NoFile => info \in Contents /\ half \notin todo /\ DirOf[half] \notin todo
  /\ \A e \in got : e.path # half /\ e.path \notin todo /\ DirOf[e.path] \notin todo
  /\ \A f \in todo \cap Files : DirOf[f] \notin todo

TypeInv == TypeOK /\ VisitedOnce

LEMMA NamesDistinct ==
  /\ NoFile \notin Files /\ NoFile \notin SubDirs
  /\ \A f \in Files : DirOf[f] \in Dirs /\ DirOf[f] \notin Files
  BY IndexerConstants DEF Dirs, NoFile

LEMMA ListDirType ==
  ASSUME TypeOK, NEW d \in Dirs
  PROVE  /\ ListDir(d) \subseteq Files \cup SubDirs
         /\ d \notin ListDir(d)
         /\ \A f \in ListDir(d) \cap Files : DirOf[f] = d
         /\ d # Root => ListDir(d) \subseteq Files
  BY IndexerConstants DEF ListDir, Dirs, TypeOK

LEMMA ScanOverType ==
  ASSUME TypeInv, ScanOver
  PROVE  /\ todo' \subseteq Files \cup SubDirs /\ half' \in Files \cup {NoFile}
         /\ info' \in Contents \cup {Absent} /\ IsIndex(got') /\ scanning' \in BOOLEAN
         /\ VisitedOnce'
  BY DEF ScanOver, VisitedOnce, IsIndex

LEMMA SourceTypeInv ==
  ASSUME TypeInv, SourceStep
  PROVE  TypeInv'
<1> USE DEF TypeInv, scan
<1>1. UNCHANGED <<phase, scan, unadded, debounce, index>> /\ changes' \in 0 .. MaxChanges
  BY IndexerConstants DEF SourceStep, ChangeFile, MakeDir, RemoveDir, MayChange, TypeOK
<1>2. VisitedOnce'
  BY <1>1 DEF VisitedOnce
<1>3. /\ tree' \in [Files -> Contents \cup {Absent}]
      /\ dirs' \subseteq SubDirs /\ watched' \subseteq Dirs
  BY DEF SourceStep, ChangeFile, MakeDir, RemoveDir, TypeOK
<1>4. ASSUME NEW dir \in Dirs, NEW event \in SubDirs \cup {AnyEvent}, Notify(dir, event)
      PROVE  queue' \in Seq(SubDirs \cup {AnyEvent}) /\ Len(queue') <= QueueLimit
  BY <1>4, IndexerConstants DEF Notify, TypeOK
<1>5. queue' \in Seq(SubDirs \cup {AnyEvent}) /\ Len(queue') <= QueueLimit
  BY <1>4, IndexerConstants DEF SourceStep, ChangeFile, MakeDir, RemoveDir, Dirs
<1> QED
  BY <1>1, <1>2, <1>3, <1>5 DEF TypeOK, debounce

LEMMA ScanTypeInv ==
  ASSUME TypeInv, ScanStep
  PROVE  TypeInv'
<1> USE DEF TypeInv, source, watcher, debounce
<1>1. ASSUME NEW d \in SubDirs, ScanDir(d)
      PROVE  TypeInv'
  <2>1. /\ ListDir(d) \subseteq Files \cup SubDirs /\ d \notin ListDir(d)
        /\ \A f \in ListDir(d) : f \in Files /\ DirOf[f] = d
    BY ListDirType, IndexerConstants DEF Dirs
  <2>2. d \in todo /\ todo' = (todo \ {d}) \cup ListDir(d) /\ half = NoFile
    BY <1>1 DEF ScanDir
  <2>3. \A e \in got : /\ e.path \in Files /\ e.path \notin todo
                        /\ DirOf[e.path] \notin todo
    BY DEF TypeOK, VisitedOnce, IsIndex
  <2>4. \A e \in got : e.path \notin todo' /\ DirOf[e.path] \notin todo'
    BY <2>1, <2>2, <2>3, NamesDistinct
  <2>5. UNCHANGED <<got, half, info>>
    BY <1>1 DEF ScanDir
  <2>6. \A f \in todo' \cap Files : DirOf[f] \notin todo'
    BY <2>1, <2>2, NamesDistinct DEF VisitedOnce
  <2>7. VisitedOnce'
    BY <2>2, <2>4, <2>5, <2>6 DEF VisitedOnce
  <2> QED
    BY <1>1, <2>1, <2>2, <2>7 DEF ScanDir, TypeOK, IsIndex
<1>2. ASSUME NEW f \in Files, ScanInfo(f)
      PROVE  TypeInv'
  <2>1. tree[f] \in Contents
    BY <1>2 DEF ScanInfo, Exists, TypeOK
  <2>2. half = NoFile /\ f \in todo /\ todo' = todo \ {f} /\ half' = f /\ info' = tree[f]
    BY <1>2 DEF ScanInfo
  <2>3. UNCHANGED got /\ \A e \in got : e.path # f
    BY <1>2, <2>2 DEF ScanInfo, VisitedOnce
  <2>4. DirOf[f] \notin todo
    BY <2>2 DEF VisitedOnce
  <2>5. VisitedOnce'
    BY <2>1, <2>2, <2>3, <2>4 DEF VisitedOnce
  <2> QED
    BY <1>2, <2>1, <2>2, <2>5 DEF ScanInfo, TypeOK, IsIndex
<1>3. CASE ScanChecksum
  <2> DEFINE new == Entry(half, info, tree[half])
  <2>1. /\ got' = got \cup {new} /\ half' = NoFile /\ info' = Absent
        /\ UNCHANGED <<todo, scanning>>
    BY <1>3 DEF ScanChecksum
  <2>2. half \in Files /\ info \in Contents /\ tree[half] \in Contents
    BY <1>3 DEF ScanChecksum, Exists, TypeOK, VisitedOnce
  <2>3. new \in [path : Files, meta : Contents, sum : Contents] /\ new.path = half
    BY <2>2 DEF Entry
  <2>4. \A e \in got : e.path # new.path /\ e.path \in Files
    BY <2>3 DEF VisitedOnce, TypeOK, IsIndex
  <2>5. IsIndex(got')
    BY <2>1, <2>3, <2>4 DEF TypeOK, IsIndex
  <2>6. half \notin todo /\ DirOf[half] \notin todo
    BY <1>3 DEF ScanChecksum, VisitedOnce
  <2>7. VisitedOnce'
    BY <2>1, <2>2, <2>3, <2>4, <2>6, NamesDistinct DEF VisitedOnce
  <2> QED
    BY <1>3, <2>1, <2>5, <2>7 DEF ScanChecksum, TypeOK, NoFile, IsIndex
<1>4. CASE Rebuilt
  BY <1>4, ScanOverType DEF Rebuilt, Publish, PendingAfter, TypeOK, Dirs, IsIndex
<1>5. CASE RebuildFailed
  BY <1>5, ScanOverType DEF RebuildFailed, PendingAfter, TypeOK, IsIndex
<1> QED
  BY <1>1, <1>2, <1>3, <1>4, <1>5 DEF ScanStep

LEMMA WatchTypeInv ==
  ASSUME TypeInv, WatchStep
  PROVE  TypeInv'
<1> USE DEF TypeInv, source, scan, watcher, debounce
<1>1. ASSUME NEW d \in Dirs, AddWatch(d)
      PROVE  TypeInv'
  BY <1>1 DEF AddWatch, TypeOK, VisitedOnce, Dirs, IsIndex
<1>2. CASE Watching \/ WatchFailed
  BY <1>2 DEF Watching, WatchFailed, TypeOK, VisitedOnce, IsIndex
<1>3. CASE ReceiveEvent
  <2>1. queue' \in Seq(SubDirs \cup {AnyEvent}) /\ Len(queue') <= QueueLimit
    BY <1>3, IndexerConstants DEF ReceiveEvent, TypeOK
  <2>2. watched' \subseteq Dirs
    BY <1>3 DEF ReceiveEvent, NewWatch, TypeOK, Dirs
  <2> QED
    BY <1>3, <2>1, <2>2 DEF ReceiveEvent, TypeOK, VisitedOnce, IsIndex
<1>4. CASE TimerFires
  <2>1. /\ todo' = ListDir(Root) /\ half' = NoFile /\ info' = Absent /\ got' = {}
        /\ scanning' = TRUE /\ timer' = FALSE
    BY <1>4 DEF TimerFires
  <2>2. VisitedOnce'
    BY <2>1, ListDirType DEF VisitedOnce, Dirs
  <2>3. IsIndex(got')
    BY <2>1 DEF IsIndex
  <2> QED
    BY <1>4, <2>1, <2>2, <2>3, ListDirType DEF TimerFires, TypeOK, Dirs, IsIndex
<1> QED
  BY <1>1, <1>2, <1>3, <1>4 DEF WatchStep

LEMMA InitTypeInv == Init => TypeInv
<1> SUFFICES ASSUME Init
             PROVE  TypeInv
  OBVIOUS
<1>1. /\ todo \subseteq Files \cup SubDirs
      /\ \A f \in todo \cap Files : DirOf[f] = Root
      /\ Root \notin todo
  BY IndexerConstants DEF Init, ListDir, Dirs
<1>2. VisitedOnce
  BY <1>1 DEF Init, VisitedOnce
<1>3. IsIndex(got) /\ IsIndex(index)
  BY DEF Init, IsIndex
<1>4. queue \in Seq(SubDirs \cup {AnyEvent}) /\ Len(queue) <= QueueLimit
  BY IndexerConstants DEF Init
<1>5. changes \in 0 .. MaxChanges /\ dirs \subseteq SubDirs
  BY IndexerConstants DEF Init
<1> QED
  BY <1>1, <1>2, <1>3, <1>4, <1>5 DEF Init, TypeInv, TypeOK

\* The index and every scan have one entry per path, whatever changes and
\* fails meanwhile.
THEOREM IndexerTypeCorrect == Spec => []TypeOK
<1>1. TypeInv /\ [Next]_vars => TypeInv'
  <2> SUFFICES ASSUME TypeInv, [Next]_vars
               PROVE  TypeInv'
    OBVIOUS
  <2>1. CASE UNCHANGED vars
    BY <2>1 DEF vars, source, scan, watcher, debounce, TypeInv, TypeOK, VisitedOnce
  <2> QED
    BY <2>1, SourceTypeInv, ScanTypeInv, WatchTypeInv DEF Next
<1>2. TypeInv => TypeOK
  BY DEF TypeInv
<1> QED
  BY <1>1, <1>2, InitTypeInv, PTL DEF Spec
-----------------------------------------------------------------------------
(***************************************************************************)
(* Freshness.                                                              *)
(***************************************************************************)
\* What the theorem assumes.  An event that is dropped does no harm unless it
\* is that of a new directory.
QuietStart ==
  /\ ~EarlyChanges /\ ~WatchFaults /\ ~ScanFaults
  /\ NewDirs => MaxChanges <= QueueLimit

\* What was scanned so far is still true, and the rest is yet to be visited.
ScanTrue ==
  /\ got \subseteq View
  /\ half # NoFile => Exists(half) /\ info = tree[half]
  /\ \A f \in todo \cap Files : Exists(f)
  /\ todo \ Files \subseteq dirs
  /\ \A f \in Files : Exists(f) => \/ f \in todo \/ DirOf[f] \in todo \/ half = f
                                  \/ Entry(f, tree[f], tree[f]) \in got

\* A change anywhere in the tree will be noticed: its directory is watched, or
\* the event that will make it so is in the queue.
Covered ==
  /\ Root \in watched
  /\ \A d \in dirs : d \in watched \/ \E i \in 1 .. Len(queue) : queue[i] = d

TreeOK == \A f \in Files : Exists(f) => DirOf[f] \in dirs \cup {Root}

InitialOK == scanning /\ ScanTrue /\ queue = << >> /\ ~timer /\ ~pending
AddingOK ==
  /\ ~scanning /\ index = View /\ queue = << >> /\ ~timer /\ ~pending
  /\ \/ unadded = {Root}
     \/ Root \in watched /\ Root \notin unadded /\ dirs \subseteq watched \cup unadded
WatchingOK ==
  /\ Covered
  /\ scanning => (queue # << >> \/ ScanTrue) /\ pending /\ ~timer
  /\ ~scanning => (queue # << >> \/ timer \/ index = View) /\ (pending <=> timer)

\* The inductive invariant: RestIsFresh says nothing of a scan under way or of
\* a directory not yet watched, and a step of either could break it.
IInv ==
  /\ TypeInv
  /\ TreeOK
  /\ Len(queue) <= changes
  /\ phase = "initial" => InitialOK
  /\ phase = "adding" => AddingOK
  /\ phase = "watching" => WatchingOK
  /\ phase \notin {"unwatched", "down"}

\* The listing of the root stands for all the files there are.
LEMMA RootListing ==
  ASSUME TypeOK, TreeOK
  PROVE  /\ \A f \in ListDir(Root) \cap Files : Exists(f)
         /\ ListDir(Root) \ Files \subseteq dirs
         /\ \A f \in Files : Exists(f) => f \in ListDir(Root) \/ DirOf[f] \in ListDir(Root)
<1>1. ListDir(Root) = {f \in Files : DirOf[f] = Root /\ Exists(f)} \cup dirs
  BY DEF ListDir
<1>2. dirs \cap Files = {}
  BY IndexerConstants DEF TypeOK, Dirs
<1> QED
  BY <1>1, <1>2 DEF TreeOK

\* The steps of a scan keep it true.
LEMMA ScanStepTrue ==
  ASSUME TypeInv, ScanTrue,
         \/ \E d \in SubDirs : ScanDir(d)
         \/ \E f \in Files : ScanInfo(f)
         \/ ScanChecksum
  PROVE  ScanTrue'
<1> USE DEF source
<1>1. UNCHANGED <<tree, dirs>> /\ View' = View
  BY DEF ScanDir, ScanInfo, ScanChecksum, View, Exists
<1>2. ASSUME NEW d \in SubDirs, ScanDir(d)
      PROVE  ScanTrue'
  <2>1. /\ todo' = (todo \ {d}) \cup ListDir(d) /\ half = NoFile
        /\ UNCHANGED <<half, info, got>>
    BY <1>2 DEF ScanDir
  <2>2. /\ ListDir(d) \subseteq Files /\ d \notin Files
        /\ \A f \in ListDir(d) : Exists(f)
        /\ \A f \in Files : Exists(f) /\ DirOf[f] = d => f \in ListDir(d)
    BY IndexerConstants DEF ListDir, Dirs
  <2> QED
    BY <1>1, <2>1, <2>2 DEF ScanTrue, Exists, Entry
<1>3. ASSUME NEW f \in Files, ScanInfo(f)
      PROVE  ScanTrue'
  <2>1. /\ todo' = todo \ {f} /\ half = NoFile /\ half' = f /\ info' = tree[f]
        /\ Exists(f) /\ UNCHANGED got
    BY <1>3 DEF ScanInfo
  <2>2. \A g \in Files : DirOf[g] # f
    BY NamesDistinct
  <2>3. f # NoFile /\ NoFile \notin Files
    BY NamesDistinct
  <2> QED
    BY <1>1, <2>1, <2>2, <2>3 DEF ScanTrue, Exists, Entry
<1>4. CASE ScanChecksum
  <2>1. /\ half # NoFile /\ Exists(half) /\ info = tree[half] /\ half' = NoFile
        /\ got' = got \cup {Entry(half, tree[half], tree[half])} /\ UNCHANGED todo
    BY <1>4 DEF ScanChecksum, ScanTrue
  <2>2. half \in Files
    BY <2>1 DEF TypeInv, TypeOK
  <2>3. Entry(half, tree[half], tree[half]) \in View
    BY <2>1, <2>2 DEF View
  <2> QED
    BY <1>1, <2>1, <2>2, <2>3 DEF ScanTrue, Exists, Entry
<1> QED
  BY <1>2, <1>3, <1>4

\* A scan that has visited everything has the view of the tree.
LEMMA ScanComplete ==
  ASSUME ScanTrue, todo = {}, half = NoFile
  PROVE  got = View
  BY NamesDistinct DEF ScanTrue, View

\* A true scan fails for no reason of the tree.
LEMMA TrueScanCannotFail ==
  ASSUME QuietStart, TypeInv, ScanTrue, RebuildFailed
  PROVE  FALSE
  BY DEF QuietStart, ScanTrue, RebuildFailed

\* A change in a directory that exists leaves an event in the queue, and every
\* event before it in its place.
LEMMA NotifyNoticed ==
  ASSUME QuietStart, TypeOK, Covered,
         NEW dir \in dirs \cup {Root}, NEW event \in SubDirs \cup {AnyEvent},
         Notify(dir, event)
  PROVE  /\ queue' # << >>
         /\ \A i \in 1 .. Len(queue) : i \in 1 .. Len(queue') /\ queue'[i] = queue[i]
<1>1. queue \in Seq(SubDirs \cup {AnyEvent})
  BY DEF TypeOK
<1>2. CASE dir \in watched /\ Len(queue) < QueueLimit
  BY <1>1, <1>2 DEF Notify
<1>3. CASE ~(dir \in watched /\ Len(queue) < QueueLimit)
  <2>1. queue' = queue
    BY <1>3 DEF Notify
  <2>2. Len(queue) >= 1
    <3>1. CASE dir \notin watched
      BY <1>1, <3>1 DEF Covered
    <3>2. CASE Len(queue) >= QueueLimit
      BY <1>1, <3>2, IndexerConstants
    <3> QED
      BY <1>1, <1>3, <3>1, <3>2, IndexerConstants
  <2> QED
    BY <1>1, <2>1, <2>2
<1> QED
  BY <1>2, <1>3

LEMMA SourceIInv ==
  ASSUME QuietStart, IInv, SourceStep
  PROVE  IInv'
<1> USE DEF scan, debounce
<1>1. TypeOK /\ TypeInv'
  BY SourceTypeInv DEF IInv, TypeInv
<1>2. /\ UNCHANGED <<phase, scan, unadded, debounce, index>>
      /\ changes' = changes + 1 /\ changes < MaxChanges
      /\ phase \notin {"initial", "adding"}
  BY DEF SourceStep, ChangeFile, MakeDir, RemoveDir, MayChange, QuietStart
<1>3. queue \in Seq(SubDirs \cup {AnyEvent}) /\ changes \in Nat /\ Len(queue) <= changes
  BY <1>1 DEF TypeOK, IInv
<1>4. ASSUME NEW dir, NEW event \in SubDirs \cup {AnyEvent}, Notify(dir, event)
      PROVE  Len(queue') <= changes'
  BY <1>2, <1>3, <1>4 DEF Notify
<1>5. ASSUME NEW f \in Files, NEW state \in Contents \cup {Absent}, ChangeFile(f, state)
      PROVE  IInv'
  <2>1. /\ DirOf[f] \in dirs \cup {Root} /\ Notify(DirOf[f], AnyEvent)
        /\ tree' = [tree EXCEPT ![f] = state] /\ UNCHANGED <<dirs, watched>>
    BY <1>5 DEF ChangeFile
  <2>2. TreeOK'
    BY <1>1, <2>1 DEF IInv, TreeOK, TypeOK, Exists
  <2>3. ASSUME phase = "watching"
        PROVE  WatchingOK'
    <3>1. WatchingOK
      BY <2>3 DEF IInv
    <3>2. /\ queue' # << >>
          /\ \A i \in 1 .. Len(queue) : i \in 1 .. Len(queue') /\ queue'[i] = queue[i]
      BY <1>1, <2>1, <3>1, NotifyNoticed DEF WatchingOK
    <3>3. Covered'
      BY <2>1, <3>1, <3>2 DEF WatchingOK, Covered
    <3> QED
      BY <1>2, <3>1, <3>2, <3>3 DEF WatchingOK
  <2> QED
    BY <1>1, <1>2, <1>4, <2>1, <2>2, <2>3 DEF IInv
<1>6. ASSUME NEW d \in SubDirs, MakeDir(d)
      PROVE  IInv'
  <2>1. /\ dirs' = dirs \cup {d} /\ Notify(Root, d) /\ NewDirs
        /\ UNCHANGED <<tree, watched>>
    BY <1>6 DEF MakeDir
  <2>2. TreeOK'
    BY <2>1 DEF IInv, TreeOK, Exists
  <2>3. ASSUME phase = "watching"
        PROVE  WatchingOK'
    <3>1. WatchingOK
      BY <2>3 DEF IInv
    <3>2. Len(queue) < QueueLimit
      BY <1>2, <1>3, <2>1, IndexerConstants DEF QuietStart
    <3>3. queue' = Append(queue, d)
      BY <2>1, <3>1, <3>2 DEF Notify, WatchingOK, Covered
    <3>4. /\ Len(queue') = Len(queue) + 1 /\ queue'[Len(queue) + 1] = d
          /\ \A i \in 1 .. Len(queue) : queue'[i] = queue[i]
          /\ queue' # << >>
      BY <1>3, <3>3
    <3>5. \A e \in dirs' : e \in watched' \/ \E i \in 1 .. Len(queue') : queue'[i] = e
      <4> TAKE e \in dirs'
      <4>1. CASE e = d
        BY <1>3, <3>4, <4>1
      <4>2. CASE e # d
        BY <1>3, <2>1, <3>1, <3>4, <4>2 DEF WatchingOK, Covered
      <4> QED
        BY <4>1, <4>2
    <3>6. Covered'
      BY <2>1, <3>1, <3>5 DEF WatchingOK, Covered
    <3> QED
      BY <1>2, <3>1, <3>4, <3>6 DEF WatchingOK
  <2> QED
    BY <1>1, <1>2, <1>4, <2>1, <2>2, <2>3 DEF IInv
<1>7. ASSUME NEW d \in SubDirs, RemoveDir(d)
      PROVE  IInv'
  <2>1. /\ dirs' = dirs \ {d} /\ watched' = watched \ {d} /\ Notify(Root, AnyEvent)
        /\ d \in dirs /\ ListDir(d) = {} /\ UNCHANGED tree
    BY <1>7 DEF RemoveDir
  <2>2. \A f \in Files : Exists(f) => DirOf[f] # d
    BY <2>1 DEF ListDir
  <2>3. TreeOK'
    BY <2>1, <2>2 DEF IInv, TreeOK, Exists
  <2>4. ASSUME phase = "watching"
        PROVE  WatchingOK'
    <3>1. WatchingOK
      BY <2>4 DEF IInv
    <3>2. /\ queue' # << >>
          /\ \A i \in 1 .. Len(queue) : i \in 1 .. Len(queue') /\ queue'[i] = queue[i]
      BY <1>1, <2>1, <3>1, NotifyNoticed DEF WatchingOK
    <3>3. Covered'
      BY <2>1, <3>1, <3>2, IndexerConstants DEF WatchingOK, Covered
    <3> QED
      BY <1>2, <3>1, <3>2, <3>3 DEF WatchingOK
  <2> QED
    BY <1>1, <1>2, <1>4, <2>1, <2>3, <2>4 DEF IInv
<1> QED
  BY <1>5, <1>6, <1>7 DEF SourceStep

LEMMA ScanIInv ==
  ASSUME QuietStart, IInv, ScanStep
  PROVE  IInv'
<1> USE DEF source, watcher, debounce
<1>1. TypeInv /\ TypeInv'
  BY ScanTypeInv DEF IInv
<1>2. UNCHANGED <<tree, dirs, changes, watched, queue>> /\ scanning
  BY DEF ScanStep, ScanDir, ScanInfo, ScanChecksum, Rebuilt, RebuildFailed
<1>3. TreeOK' /\ Len(queue') <= changes' /\ View' = View
  BY <1>2 DEF IInv, TreeOK, Exists, View
<1>4. phase = "watching" => Covered'
  BY <1>2 DEF IInv, WatchingOK, Covered
<1>5. phase \notin {"adding", "unwatched", "down"}
  BY <1>2 DEF IInv, AddingOK
<1>6. ASSUME \/ \E d \in SubDirs : ScanDir(d)
             \/ \E f \in Files : ScanInfo(f)
             \/ ScanChecksum
      PROVE  IInv'
  <2>1. UNCHANGED <<phase, scanning, unadded, debounce, index>>
    BY <1>6 DEF ScanDir, ScanInfo, ScanChecksum
  <2>2. ScanTrue => ScanTrue'
    BY <1>1, <1>6, ScanStepTrue
  <2> QED
    BY <1>1, <1>2, <1>3, <1>4, <1>5, <2>1, <2>2 DEF IInv, InitialOK, WatchingOK
<1>7. CASE Rebuilt
  <2>1. /\ scanning' = FALSE /\ index' = got /\ UNCHANGED timer
        /\ phase' = IF phase = "initial" THEN "adding" ELSE phase
    BY <1>7 DEF Rebuilt, ScanOver, Publish
  <2>2. ScanTrue => index' = View'
    BY <1>3, <1>7, <2>1, ScanComplete DEF Rebuilt
  <2>3. CASE phase = "initial"
    <3>1. AddingOK'
      BY <1>2, <1>7, <2>1, <2>2, <2>3 DEF IInv, InitialOK, AddingOK, Rebuilt
    <3> QED
      BY <1>1, <1>3, <2>1, <2>3, <3>1 DEF IInv
  <2>4. CASE phase = "watching"
    <3>1. WatchingOK'
      BY <1>2, <1>4, <1>7, <2>1, <2>2, <2>4 DEF IInv, WatchingOK, Rebuilt, PendingAfter
    <3> QED
      BY <1>1, <1>3, <2>1, <2>4, <3>1 DEF IInv
  <2> QED
    BY <1>1, <1>5, <2>3, <2>4 DEF TypeInv, TypeOK
<1>8. CASE RebuildFailed
  <2>1. /\ scanning' = FALSE /\ pending' = FALSE /\ UNCHANGED timer
        /\ phase' = IF phase = "initial" THEN "down" ELSE phase
    BY <1>8 DEF RebuildFailed, ScanOver, PendingAfter
  <2>2. ~ScanTrue
    BY <1>1, <1>8, TrueScanCannotFail
  <2>3. phase = "watching" => WatchingOK'
    BY <1>2, <1>4, <2>1, <2>2 DEF IInv, WatchingOK
  <2>4. phase # "initial"
    BY <2>2 DEF IInv, InitialOK
  <2> QED
    BY <1>1, <1>3, <1>5, <2>1, <2>3, <2>4 DEF IInv
<1> QED
  BY <1>6, <1>7, <1>8 DEF ScanStep

LEMMA WatchIInv ==
  ASSUME QuietStart, IInv, WatchStep
  PROVE  IInv'
<1> USE DEF source, scan, watcher, debounce
<1>1. TypeOK /\ TypeInv'
  BY WatchTypeInv DEF IInv, TypeInv
<1>2. UNCHANGED <<tree, dirs, changes, index>>
  BY DEF WatchStep, AddWatch, Watching, WatchFailed, ReceiveEvent, TimerFires
<1>3. TreeOK' /\ View' = View
  BY <1>2 DEF IInv, TreeOK, Exists, View
<1>4. queue \in Seq(SubDirs \cup {AnyEvent}) /\ changes \in Nat /\ Len(queue) <= changes
  BY <1>1 DEF TypeOK, IInv
<1>5. ASSUME NEW d \in Dirs, AddWatch(d)
      PROVE  IInv'
  <2>1. /\ phase = "adding" /\ UNCHANGED <<phase, scan, queue, debounce>>
        /\ d \in unadded
        /\ unadded' = IF d = Root THEN dirs ELSE unadded \ {d}
        /\ watched' = watched \cup ({d} \cap (dirs \cup {Root}))
    BY <1>5 DEF AddWatch, QuietStart
  <2>2. Root \notin dirs
    BY <1>1, IndexerConstants DEF TypeOK
  <2>3. /\ Root \in watched' /\ Root \notin unadded'
        /\ dirs \subseteq watched' \cup unadded'
    BY <2>1, <2>2 DEF IInv, AddingOK
  <2>4. AddingOK'
    BY <1>2, <1>3, <2>1, <2>3 DEF IInv, AddingOK
  <2> QED
    BY <1>1, <1>2, <1>3, <1>4, <2>1, <2>4 DEF IInv
<1>6. CASE Watching
  <2>1. /\ phase = "adding" /\ phase' = "watching" /\ unadded = {}
        /\ UNCHANGED <<scan, watcher, debounce>>
    BY <1>6 DEF Watching
  <2>2. Covered'
    BY <1>2, <2>1 DEF IInv, AddingOK, Covered
  <2> QED
    BY <1>1, <1>2, <1>3, <1>4, <2>1, <2>2 DEF IInv, AddingOK, WatchingOK
<1>7. ~WatchFailed
  BY DEF WatchFailed, QuietStart
<1>8. CASE ReceiveEvent
  <2>1. /\ phase = "watching" /\ ~scanning /\ queue # << >> /\ queue' = Tail(queue)
        /\ watched' = watched \cup ({Head(queue)} \cap dirs)
        /\ pending' = TRUE /\ timer' = (timer \/ ~pending)
        /\ UNCHANGED <<phase, scan, unadded>>
    BY <1>8 DEF ReceiveEvent, AtSelect, NewWatch, QuietStart
  <2>2. WatchingOK
    BY <2>1 DEF IInv
  <2>3. timer' = TRUE
    BY <1>1, <2>1, <2>2 DEF WatchingOK, TypeOK
  <2>4. /\ Len(queue') = Len(queue) - 1
        /\ \A i \in 2 .. Len(queue) : i - 1 \in 1 .. Len(queue') /\ queue'[i - 1] = queue[i]
        /\ Head(queue) = queue[1]
    BY <1>4, <2>1
  <2>5. \A d \in dirs : d \in watched' \/ \E i \in 1 .. Len(queue') : queue'[i] = d
    <3> TAKE d \in dirs
    <3>1. CASE d \in watched \/ queue[1] = d
      BY <2>1, <2>4, <3>1
    <3>2. CASE d \notin watched /\ queue[1] # d
      <4>1. PICK i \in 1 .. Len(queue) : queue[i] = d
        BY <2>2, <3>2 DEF WatchingOK, Covered
      <4>2. i \in 2 .. Len(queue)
        BY <1>4, <3>2, <4>1
      <4> QED
        BY <2>4, <4>1, <4>2
    <3> QED
      BY <3>1, <3>2
  <2>6. Covered'
    BY <1>2, <2>1, <2>2, <2>5 DEF WatchingOK, Covered
  <2>7. WatchingOK'
    BY <2>1, <2>3, <2>6 DEF WatchingOK
  <2> QED
    BY <1>1, <1>2, <1>3, <1>4, <2>1, <2>4, <2>7 DEF IInv
<1>9. CASE TimerFires
  <2>1. /\ phase = "watching" /\ ~scanning /\ timer /\ timer' = FALSE /\ scanning' = TRUE
        /\ todo' = ListDir(Root) /\ half' = NoFile /\ got' = {}
        /\ UNCHANGED <<phase, watcher, pending>>
    BY <1>9 DEF TimerFires, AtSelect
  <2>2. WatchingOK /\ TreeOK
    BY <2>1 DEF IInv
  <2>3. ScanTrue'
    BY <1>1, <1>2, <2>1, <2>2, RootListing DEF ScanTrue, Exists
  <2>4. WatchingOK'
    BY <1>2, <2>1, <2>2, <2>3 DEF WatchingOK, Covered
  <2> QED
    BY <1>1, <1>2, <1>3, <1>4, <2>1, <2>4 DEF IInv
<1> QED
  BY <1>5, <1>6, <1>7, <1>8, <1>9 DEF WatchStep

LEMMA InitIInv == Init => IInv
<1> SUFFICES ASSUME Init
             PROVE  IInv
  OBVIOUS
<1>1. TypeInv /\ TypeOK
  BY InitTypeInv DEF TypeInv
<1>2. TreeOK /\ Len(queue) <= changes
  BY DEF Init, TreeOK
<1>3. ScanTrue
  BY <1>1, <1>2, RootListing DEF Init, ScanTrue
<1> QED
  BY <1>1, <1>2, <1>3 DEF Init, IInv, InitialOK

LEMMA StepIInv ==
  ASSUME QuietStart, IInv, [Next]_vars
  PROVE  IInv'
<1>1. CASE UNCHANGED vars
  BY <1>1 DEF vars, source, scan, watcher, debounce, IInv, TypeInv, TypeOK, VisitedOnce,
     TreeOK, InitialOK, AddingOK, WatchingOK, ScanTrue, Covered, View, Exists, IsIndex
<1> QED
  BY <1>1, SourceIInv, ScanIInv, WatchIInv DEF Next

\* With the watches in place before the tree changes, and unless the event of
\* a new directory is dropped, an index that does not describe the tree is
\* always followed by a rebuild, for every tree, queue length and interleaving.
THEOREM IndexFresh ==
  ASSUME QuietStart
  PROVE  Spec => []RestIsFresh
<1>1. IInv => RestIsFresh
  BY DEF IInv, WatchingOK, RestIsFresh, AtSelect
<1> QED
  BY <1>1, InitIInv, StepIInv, PTL DEF Spec
-----------------------------------------------------------------------------
(***************************************************************************)
(* The promise of IndexPromise, step by step.                              *)
(***************************************************************************)
\* A change of the tree is a change the promise allows: it never goes unnoticed.
LEMMA SourceRefines ==
  ASSUME QuietStart, IInv, SourceStep
  PROVE  Promise!Change
<1> USE DEF scan, debounce
<1>1. UNCHANGED <<scanning, index, timer>>
  BY DEF SourceStep, ChangeFile, MakeDir, RemoveDir, MayChange
<1>2. /\ phase \notin {"initial", "adding"} /\ changes < MaxChanges
      /\ phase \in {"initial", "adding", "watching", "unwatched", "down"}
      /\ TypeOK
  BY DEF SourceStep, ChangeFile, MakeDir, RemoveDir, MayChange, QuietStart,
     IInv, TypeInv, TypeOK
<1>3. WatchingOK /\ Covered
  BY <1>2 DEF IInv, WatchingOK
<1>4. ASSUME NEW f \in Files, NEW state \in Contents \cup {Absent}, ChangeFile(f, state)
      PROVE  queue' # << >>
  BY <1>2, <1>3, <1>4, NotifyNoticed DEF ChangeFile
<1>5. ASSUME NEW d \in SubDirs, RemoveDir(d)
      PROVE  queue' # << >>
  BY <1>2, <1>3, <1>5, NotifyNoticed DEF RemoveDir
<1>6. ASSUME NEW d \in SubDirs, MakeDir(d)
      PROVE  queue' # << >>
  BY <1>2, <1>3, <1>6, NotifyNoticed DEF MakeDir
<1> QED
  BY <1>1, <1>4, <1>5, <1>6 DEF SourceStep, Promise!Change

\* A rebuild publishes the tree there is, or a change waits; a failed one
\* always has a change that waits.
LEMMA ScanRefines ==
  ASSUME QuietStart, IInv, ScanStep
  PROVE  [Promise!Next]_(Promise!vars)
<1> USE DEF source, watcher, debounce
<1>1. UNCHANGED <<tree, queue, timer>> /\ View' = View /\ scanning
  BY DEF ScanStep, ScanDir, ScanInfo, ScanChecksum, Rebuilt, RebuildFailed, View, Exists
<1>2. TypeInv /\ (queue # << >> \/ ScanTrue)
  BY <1>1 DEF IInv, InitialOK, AddingOK, WatchingOK, TypeInv, TypeOK
<1>3. CASE \/ \E d \in SubDirs : ScanDir(d)
           \/ \E f \in Files : ScanInfo(f)
           \/ ScanChecksum
  <2>1. UNCHANGED <<scanning, index>>
    BY <1>3 DEF ScanDir, ScanInfo, ScanChecksum
  <2> QED
    BY <1>1, <2>1 DEF Promise!vars
<1>4. CASE Rebuilt
  <2>1. scanning' = FALSE /\ index' = got /\ todo = {} /\ half = NoFile
    BY <1>4 DEF Rebuilt, ScanOver, Publish
  <2>2. queue # << >> \/ index' = View
    BY <1>2, <2>1, ScanComplete
  <2> QED
    BY <1>1, <2>1, <2>2 DEF Promise!Publish, Promise!Next
<1>5. CASE RebuildFailed
  <2>1. scanning' = FALSE /\ UNCHANGED index
    BY <1>5 DEF RebuildFailed, ScanOver
  <2>2. queue # << >>
    BY <1>2, <1>5, TrueScanCannotFail
  <2> QED
    BY <1>1, <2>1, <2>2 DEF Promise!Fail, Promise!Next
<1> QED
  BY <1>3, <1>4, <1>5 DEF ScanStep

\* Watches and events touch neither the index nor the change that waits: an
\* event received is remembered by the timer, and the timer begins the scan.
LEMMA WatchRefines ==
  ASSUME QuietStart, IInv, WatchStep
  PROVE  [Promise!Next]_(Promise!vars)
<1> USE DEF source, scan, watcher, debounce
<1>1. UNCHANGED <<tree, index>> /\ View' = View
  BY DEF WatchStep, AddWatch, Watching, WatchFailed, ReceiveEvent, TimerFires, View, Exists
<1>2. CASE (\E d \in Dirs : AddWatch(d)) \/ Watching \/ WatchFailed
  <2>1. UNCHANGED <<queue, timer, scanning>>
    BY <1>2 DEF AddWatch, Watching, WatchFailed
  <2> QED
    BY <1>1, <2>1 DEF Promise!vars
<1>3. CASE ReceiveEvent
  <2>1. queue # << >> /\ UNCHANGED scanning
    BY <1>3 DEF ReceiveEvent
  <2>2. timer' = TRUE
    BY <1>3 DEF ReceiveEvent, AtSelect, IInv, WatchingOK, TypeInv, TypeOK
  <2> QED
    BY <1>1, <2>1, <2>2 DEF Promise!vars
<1>4. CASE TimerFires
  <2>1. timer = TRUE /\ ~scanning /\ scanning' = TRUE /\ timer' = FALSE /\ UNCHANGED queue
    BY <1>4 DEF TimerFires, AtSelect, IInv, TypeInv, TypeOK
  <2> QED
    BY <1>1, <2>1 DEF Promise!Begin, Promise!Next
<1> QED
  BY <1>2, <1>3, <1>4 DEF WatchStep

\* The indexer keeps its promise, for every tree, queue length and interleaving
\* of changes, scan steps, events and the timer: see ImplementsIndex.
THEOREM IndexKeepsPromise ==
  ASSUME QuietStart
  PROVE  Spec => ImplementsIndex
<1>1. Init => Promise!Init
  BY DEF Init, Promise!Init
<1>2. IInv /\ [Next]_vars => [Promise!Next]_(Promise!vars)
  <2> SUFFICES ASSUME IInv, [Next]_vars
               PROVE  [Promise!Next]_(Promise!vars)
    OBVIOUS
  <2>1. CASE UNCHANGED vars
    BY <2>1 DEF vars, source, scan, watcher, debounce, Promise!vars, View, Exists
  <2> QED
    BY <2>1, SourceRefines, ScanRefines, WatchRefines DEF Next, Promise!Next
<1> QED
  BY <1>1, <1>2, InitIInv, StepIInv, PTL DEF Spec, ImplementsIndex, Promise!Spec
=============================================================================
