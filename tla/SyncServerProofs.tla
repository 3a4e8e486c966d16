--------------------------- MODULE SyncServerProofs --------------------------
(***************************************************************************)
(* The safety properties of SyncServer for any number of clients, backoffs, *)
(* jobs and faults, and any TTL.                                            *)
(***************************************************************************)
EXTENDS SyncServer, TLAPS

\* What is left to do fits its bound.
Room ==
  /\ job = "locked" => tree + 2 <= MaxTree
  /\ job = "working" => tree + 1 <= MaxTree
  /\ \A c \in Clients : At(c, "backoff") => client[c].tries < Backoffs

TInv == TypeOK /\ Room

\* A job at work has a lease that lasts.
Leased == job # "idle" => lease > 0

\* The index was read after what any client saw, or is what it saw.
Behind(run) == run.shown = index \/ run.shown.last <= index.first

\* What is read next is younger than what was read before.
Forward ==
  /\ index.first <= index.last /\ index.last <= tree
  /\ scan # NoScan => index.last <= scan /\ scan <= tree
  /\ \A c \in Clients : Behind(client[c])

\* A server that starts is in its first scan.
Starting == server = "starting" => scan # NoScan

SInv == TInv /\ Leased /\ Forward /\ Starting /\ OnlyFaultsFail
-----------------------------------------------------------------------------
LEMMA InitHolds == Init => SInv
<1> SUFFICES ASSUME Init PROVE SInv
  OBVIOUS
<1>1. Span(0, 0) \in Spans
  BY ServerConstants DEF Span, Spans
<1>2. NewRun(Span(0, 0)) \in RunStates
  BY <1>1, ServerConstants DEF NewRun, RunStates
<1>3. TypeOK
  <2>1. client \in [Clients -> RunStates] /\ index \in Spans
    BY <1>1, <1>2 DEF Init
  <2>2. /\ lease \in 0 .. TTL /\ tree \in 0 .. MaxTree
        /\ faults \in 0 .. MaxFaults
    BY ServerConstants DEF Init
  <2>3. /\ job \in {"idle", "locked", "working", "over"}
        /\ server \in {"up", "down", "starting"} /\ scan = NoScan /\ dirty \in BOOLEAN
    BY DEF Init
  <2> QED  BY <2>1, <2>2, <2>3 DEF TypeOK
<1>4. \A c \in Clients : client[c] = NewRun(Span(0, 0))
  BY DEF Init
<1>5. Room /\ OnlyFaultsFail
  BY <1>4 DEF Init, Room, OnlyFaultsFail, At, NewRun
<1>6. Leased /\ Forward /\ Starting
  BY <1>4 DEF Init, Leased, Forward, Starting, Behind, NewRun, Span, NoScan
<1> QED  BY <1>3, <1>5, <1>6 DEF SInv, TInv

\* What a client's run may become without harm to the invariant.
Sound(c, run) ==
  /\ run \in RunStates
  /\ run.pc = "backoff" => run.tries < Backoffs
  /\ c \notin Refused /\ run.pc = "failed" => run.hurt
  /\ Behind(run)

LEMMA ClientsSound ==
  SInv => /\ client \in [Clients -> RunStates]
          /\ \A c \in Clients : Sound(c, client[c])
BY DEF SInv, TInv, TypeOK, Room, Forward, OnlyFaultsFail, Sound, At

\* A step of clients alone keeps the invariant if every run stays sound.
LEMMA SoundStep ==
  ASSUME SInv, client' \in [Clients -> RunStates],
         \A c \in Clients : Sound(c, client'[c]),
         UNCHANGED <<lease, upstream, server, indexer>>, faults' \in 0 .. MaxFaults
  PROVE  SInv'
<1>1. TypeOK' /\ Room'
  BY DEF SInv, TInv, TypeOK, Room, Sound, At, upstream, indexer
<1>2. Leased' /\ OnlyFaultsFail'
  BY DEF SInv, Leased, OnlyFaultsFail, Sound, At, upstream
<1>3. Forward' /\ Starting'
  BY DEF SInv, Forward, Starting, Behind, Sound, upstream, indexer
<1> QED  BY <1>1, <1>2, <1>3 DEF SInv, TInv

LEMMA BecomeStep ==
  ASSUME SInv, NEW c \in Clients, NEW run, Sound(c, run), Become(c, run),
         UNCHANGED <<lease, upstream, server, indexer>>, faults' \in 0 .. MaxFaults
  PROVE  SInv'
<1>1. run \in RunStates
  BY DEF Sound
<1>2. client' \in [Clients -> RunStates]
  BY <1>1, ClientsSound DEF Become
<1>3. \A d \in Clients : Sound(d, client'[d])
  BY ClientsSound DEF Become
<1> QED  BY <1>2, <1>3, SoundStep

\* A failed attempt leaves a sound run if somebody else is to blame.
LEMMA MissSound ==
  ASSUME SInv, NEW c \in Clients
  PROVE  /\ Sound(c, Hurt(Miss(client[c])))
         /\ c \in Refused => Sound(c, Miss(client[c]))
         /\ Sound(c, Hurt(GoTo(client[c], "failed")))
<1>1. Sound(c, client[c]) /\ Backoffs \in Nat
  BY ClientsSound, ServerConstants
<1> DEFINE run == client[c]
<1>2. \A pc \in {"failed", "backoff"} :
        GoTo(run, pc) \in RunStates /\ Hurt(GoTo(run, pc)) \in RunStates
  BY <1>1 DEF Sound, RunStates, GoTo, Hurt
<1>3. \A pc \in {"failed", "backoff"} :
        /\ GoTo(run, pc).pc = pc /\ Hurt(GoTo(run, pc)).pc = pc
        /\ GoTo(run, pc).tries = run.tries /\ Hurt(GoTo(run, pc)).tries = run.tries
        /\ GoTo(run, pc).shown = run.shown /\ Hurt(GoTo(run, pc)).shown = run.shown
        /\ Hurt(GoTo(run, pc)).hurt
  BY <1>1 DEF Sound, RunStates, GoTo, Hurt
<1>4. run.tries \in Nat
  BY <1>1 DEF Sound, RunStates
<1>5. CASE run.tries >= Backoffs
  BY <1>1, <1>2, <1>3, <1>5 DEF Sound, Miss, Behind
<1>6. CASE ~(run.tries >= Backoffs)
  <2>1. run.tries < Backoffs
    BY <1>1, <1>4, <1>6
  <2> QED  BY <1>1, <1>2, <1>3, <1>6, <2>1 DEF Sound, Miss, Behind
<1> QED  BY <1>5, <1>6

LEMMA CutSound ==
  ASSUME SInv, NEW c \in Clients
  PROVE  Sound(c, Lost(client[c])) /\ Sound(c, Cut(client[c]))
<1>1. Sound(c, client[c])
  BY ClientsSound
<1>2. Sound(c, Lost(client[c]))
  BY MissSound DEF Lost
<1> QED  BY <1>1, <1>2 DEF Cut
-----------------------------------------------------------------------------
LEMMA ClientStep ==
  ASSUME SInv, NEW c \in Clients, Client(c)
  PROVE  SInv'
<1> DEFINE run == client[c]
<1>1. Sound(c, run) /\ Backoffs \in Nat /\ faults \in 0 .. MaxFaults
  BY ClientsSound, ServerConstants DEF SInv, TInv, TypeOK
<1>2. CASE BackoffOver(c)
  <2>1. Sound(c, [run EXCEPT !.pc = "create", !.tries = @ + 1])
    <3>1. run.tries + 1 \in 0 .. Backoffs
      BY <1>1, <1>2 DEF BackoffOver, At, Sound, RunStates
    <3> DEFINE next == [run EXCEPT !.pc = "create", !.tries = @ + 1]
    <3>2. next \in RunStates /\ next.pc = "create" /\ next.shown = run.shown
      BY <1>1, <3>1 DEF Sound, RunStates
    <3> QED  BY <1>1, <3>2 DEF Sound, Behind
  <2> QED  BY <1>1, <1>2, <2>1, BecomeStep DEF BackoffOver
<1>3. CASE Create(c)
  <2>1. Sound(c, Locked(run)) /\ Sound(c, GoTo(run, "checked"))
    BY <1>1 DEF Locked, GoTo, Sound, RunStates, Behind
  <2>2. PICK next : Become(c, next) /\ Sound(c, next)
    BY <1>3, <2>1, MissSound DEF Create
  <2> QED  BY <1>1, <1>3, <2>2, BecomeStep DEF Create
<1>4. CASE Build(c)
  <2>1. Sound(c, [run EXCEPT !.pc = "session", !.shown = index])
    BY <1>1 DEF SInv, TInv, TypeOK, Sound, RunStates, Behind
  <2> QED  BY <1>1, <1>4, <2>1, BecomeStep DEF Build
<1>5. CASE Dial(c)
  <2>1. Sound(c, GoTo(run, "wait"))
    BY <1>1 DEF GoTo, Sound, RunStates, Behind
  <2>2. PICK next : Become(c, next) /\ Sound(c, next)
    BY <1>5, <2>1, MissSound DEF Dial
  <2> QED  BY <1>1, <1>5, <2>2, BecomeStep DEF Dial
<1>6. CASE Told(c)
  <2>1. Sound(c, [run EXCEPT !.pc = "create", !.tries = 0])
    <3>1. 0 \in 0 .. Backoffs
      BY <1>1
    <3> DEFINE next == [run EXCEPT !.pc = "create", !.tries = 0]
    <3>2. next \in RunStates /\ next.pc = "create" /\ next.shown = run.shown
      BY <1>1, <3>1 DEF Sound, RunStates
    <3> QED  BY <1>1, <3>2 DEF Sound, Behind
  <2> QED  BY <1>1, <1>6, <2>1, BecomeStep DEF Told
<1>7. CASE Again(c)
  <2>1. Sound(c, NewRun(run.shown))
    BY <1>1 DEF NewRun, Sound, RunStates, Behind
  <2> QED  BY <1>1, <1>7, <2>1, BecomeStep DEF Again
<1> QED  BY <1>2, <1>3, <1>4, <1>5, <1>6, <1>7 DEF Client

LEMMA LostStep ==
  ASSUME SInv, NEW c \in Clients, ConnectionLost(c)
  PROVE  SInv'
<1>1. faults' \in 0 .. MaxFaults
  BY ServerConstants DEF ConnectionLost, Fault, SInv, TInv, TypeOK
<1> QED  BY <1>1, CutSound, BecomeStep DEF ConnectionLost

\* The tree, the lock and the job change, and no client does.
LEMMA JobStep ==
  ASSUME SInv, Job \/ Tick
  PROVE  SInv'
<1> USE ServerConstants
<1>1. client' = client /\ index' = index /\ scan' = scan /\ server' = server
  BY DEF Job, Tick, JobLock, JobWrite, JobFinish, JobFails, JobRelease, JobDies,
         ChangeTree, indexer
<1>2. TypeOK'
  <2>1. /\ lease' \in 0 .. TTL /\ faults' \in 0 .. MaxFaults
        /\ tree' \in 0 .. MaxTree
    BY DEF SInv, TInv, TypeOK, Room, Job, Tick, JobLock, JobWrite, JobFinish, JobFails,
           JobRelease, JobDies, ChangeTree, Fault, upstream
  <2>2. job' \in {"idle", "locked", "working", "over"} /\ dirty' \in BOOLEAN
    BY DEF SInv, TInv, TypeOK, Job, Tick, JobLock, JobWrite, JobFinish, JobFails,
           JobRelease, JobDies, ChangeTree, upstream, indexer
  <2> QED  BY <1>1, <2>1, <2>2 DEF SInv, TInv, TypeOK
<1>3. Room'
  BY <1>1 DEF SInv, TInv, TypeOK, Room, At, Job, Tick, JobLock, JobWrite, JobFinish,
              JobFails, JobRelease, JobDies, ChangeTree, upstream
<1>4. Leased'
  BY DEF SInv, TInv, TypeOK, Leased, Job, Tick, JobLock, JobWrite, JobFinish,
         JobFails, JobRelease, JobDies, ChangeTree, upstream
<1>5. tree' \in Nat /\ tree <= tree'
  BY DEF SInv, TInv, TypeOK, Job, Tick, JobLock, JobWrite, JobFinish,
         JobFails, JobRelease, JobDies, ChangeTree, upstream
<1>6. Forward'
  BY <1>1, <1>5 DEF SInv, TInv, TypeOK, Spans, Forward, Behind, NoScan
<1>7. OnlyFaultsFail' /\ Starting'
  BY <1>1 DEF SInv, OnlyFaultsFail, Starting, At, NoScan
<1> QED  BY <1>2, <1>3, <1>4, <1>6, <1>7 DEF SInv, TInv

\* An index that is published is younger than the last in every file.
LEMMA PublishForward ==
  ASSUME SInv, scan # NoScan, index' = Published, scan' = NoScan,
         UNCHANGED <<tree, client>>
  PROVE  Forward' /\ index' \in Spans
<1>1. /\ index \in Spans /\ scan \in Nat /\ tree \in 0 .. MaxTree
      /\ scan <= tree /\ index.last <= scan /\ index.first <= index.last
  BY DEF SInv, TInv, TypeOK, Forward, NoScan
<1>2. index'.first = scan /\ index'.last = tree /\ index' \in Spans
  BY <1>1, ServerConstants DEF Published, Span, Spans
<1>3. \A c \in Clients : client[c].shown \in Spans /\ Behind(client[c])
  BY ClientsSound DEF Sound, RunStates
<1>4. \A c \in Clients : client[c].shown.last <= scan
  BY <1>1, <1>3 DEF Behind, Spans
<1> QED  BY <1>1, <1>2, <1>4 DEF Forward, Behind

LEMMA IndexerStep ==
  ASSUME SInv, Indexer
  PROVE  SInv'
<1> USE DEF upstream
<1>1. OnlyFaultsFail' /\ Leased' /\ Room' /\ Starting'
  BY DEF SInv, TInv, Room, Leased, Starting, OnlyFaultsFail, At, Indexer, ScanStart, ScanEnd,
         ScanFails
<1>2. CASE ScanStart
  <2>1. TypeOK'
    BY <1>2 DEF SInv, TInv, TypeOK, ScanStart
  <2>2. Forward'
    BY <1>2 DEF SInv, TInv, TypeOK, Forward, Behind, ScanStart
  <2> QED  BY <1>1, <2>1, <2>2 DEF SInv, TInv
<1>3. CASE ScanEnd
  <2>1. Forward' /\ index' \in Spans
    BY <1>3, PublishForward DEF ScanEnd
  <2>2. TypeOK'
    BY <1>3, <2>1 DEF SInv, TInv, TypeOK, ScanEnd, StillDirty
  <2> QED  BY <1>1, <2>1, <2>2 DEF SInv, TInv
<1>4. CASE ScanFails
  <2>1. TypeOK' /\ Forward'
    BY <1>4 DEF SInv, TInv, TypeOK, Forward, Behind, ScanFails
  <2> QED  BY <1>1, <2>1 DEF SInv, TInv
<1> QED  BY <1>2, <1>3, <1>4 DEF Indexer

LEMMA RestartStep ==
  ASSUME SInv, Crash \/ Start \/ Serve
  PROVE  SInv'
<1> USE DEF upstream
<1>1. CASE Crash
  <2>1. /\ client' \in [Clients -> RunStates]
        /\ \A c \in Clients : Sound(c, client'[c])
    <3>1. \A c \in Clients : client'[c] = Cut(client[c]) /\ Sound(c, Cut(client[c]))
      BY <1>1, CutSound DEF Crash
    <3> QED  BY <1>1, <3>1 DEF Crash, Sound
  <2>2. TypeOK'
    <3>1. faults' \in 0 .. MaxFaults
      BY <1>1, ServerConstants DEF SInv, TInv, TypeOK, Crash, Fault
    <3> QED  BY <1>1, <2>1, <3>1 DEF SInv, TInv, TypeOK, Crash, KeptLease
  <2>3. Room' /\ OnlyFaultsFail' /\ Leased' /\ Starting'
    BY <1>1, <2>1 DEF SInv, TInv, Room, OnlyFaultsFail, Leased, Starting, Sound, At, Crash, KeptLease
  <2>4. Forward'
    BY <1>1, <2>1 DEF SInv, Forward, Behind, Sound, Crash
  <2> QED  BY <2>2, <2>3, <2>4 DEF SInv, TInv
<1>2. CASE Start
  <2>1. TypeOK' /\ Room' /\ OnlyFaultsFail' /\ Leased'
    BY <1>2 DEF SInv, TInv, TypeOK, Room, OnlyFaultsFail, Leased, At, Start
  <2>2. Forward' /\ Starting'
    BY <1>2 DEF SInv, TInv, TypeOK, Forward, Starting, Behind, Start, NoScan
  <2> QED  BY <2>1, <2>2 DEF SInv, TInv
<1>3. CASE Serve
  <2>1. scan # NoScan
    BY <1>3 DEF SInv, Starting, Serve
  <2>2. Forward' /\ index' \in Spans
    BY <1>3, <2>1, PublishForward DEF Serve
  <2>3. TypeOK' /\ Room' /\ OnlyFaultsFail' /\ Leased' /\ Starting'
    BY <1>3, <2>2 DEF SInv, TInv, TypeOK, Room, OnlyFaultsFail, Leased, Starting, At, Serve
  <2> QED  BY <2>2, <2>3 DEF SInv, TInv
<1> QED  BY <1>1, <1>2, <1>3

LEMMA StepHolds == SInv /\ [Next]_vars => SInv'
<1> SUFFICES ASSUME SInv, [Next]_vars PROVE SInv'
  OBVIOUS
<1>1. CASE UNCHANGED vars
  <2>1. faults' \in 0 .. MaxFaults
    BY <1>1 DEF SInv, TInv, TypeOK, vars
  <2> QED  BY <1>1, <2>1, ClientsSound, SoundStep DEF vars
<1>2. CASE Next
  BY <1>2, JobStep, IndexerStep, ClientStep, LostStep, RestartStep DEF Next
<1> QED  BY <1>1, <1>2

LEMMA AlwaysHolds == Spec => []SInv
BY InitHolds, StepHolds, PTL DEF Spec
-----------------------------------------------------------------------------
\* The invariant of types: retries stay within the backoffs, leases within the
\* TTL, and jobs within the bound on the changes of the tree.
THEOREM ServerTypeCorrect == Spec => []TypeOK
<1>1. SInv => TypeOK
  BY DEF SInv, TInv
<1> QED  BY <1>1, AlwaysHolds, PTL

\* A lock never makes a run fail.
THEOREM LocksAreWaitedFor == Spec => []OnlyFaultsFail
<1>1. SInv => OnlyFaultsFail
  BY DEF SInv
<1> QED  BY <1>1, AlwaysHolds, PTL

\* Only Create takes a run from "create" to "checked".
LEMMA CheckedByCreate ==
  ASSUME SInv, [Next]_vars, NEW c \in Clients, At(c, "create"), At(c, "checked")'
  PROVE  lease = 0
<1>1. client' # client
  BY DEF At
<1>2. ~Crash
  <2>1. Cut(client[c]) = client[c]
    BY DEF At, Cut
  <2> QED  BY <2>1 DEF Crash, At
<1>3. PICK d \in Clients : Client(d) \/ ConnectionLost(d)
  BY <1>1, <1>2 DEF Next, vars, Job, Tick, Indexer, Start, Serve, JobLock, JobWrite,
     JobFinish, JobFails, JobRelease, JobDies, ChangeTree, ScanStart, ScanEnd, ScanFails
<1>4. \A run : Become(d, run) => client' = [client EXCEPT ![d] = run]
  BY DEF Become
<1>5. client \in [Clients -> RunStates]
  BY ClientsSound
<1>6. d = c
  BY <1>3, <1>4, <1>5 DEF At, Client, BackoffOver, Create, Build, Dial, Told, Again,
     ConnectionLost
<1>7. Create(c)
  <2>1. Lost(client[c]).pc \in {"failed", "backoff"}
    BY <1>5 DEF Lost, Hurt, Miss, GoTo, RunStates
  <2>2. ~ConnectionLost(c)
    BY <1>5, <2>1 DEF ConnectionLost, Become, At
  <2> QED  BY <1>3, <1>6, <2>2 DEF At, Client, BackoffOver, Build, Dial, Told, Again
<1>8. client'[c].pc \notin {"failed", "backoff", "dial"}
  BY DEF At
<1>9. lease \in Nat
  BY ServerConstants DEF SInv, TInv, TypeOK
<1> QED
  BY <1>5, <1>7, <1>8, <1>9 DEF Create, Become, Hurt, Miss, Locked, GoTo, RunStates

\* A session request that finds the module unlocked finds no job at work.
THEOREM SessionsOutsideJobs == Spec => CheckedOutsideJob
<1>1. SInv /\ [Next]_vars =>
        [\A c \in Clients : At(c, "create") /\ At(c, "checked")' => job = "idle"]_vars
  BY CheckedByCreate DEF SInv, Leased
<1> QED  BY <1>1, AlwaysHolds, PTL DEF Spec, CheckedOutsideJob

\* What a client is shown is never older than what it was shown before.
THEOREM NeverBackwards == Spec => NothingOlder
<1>1. SInv /\ [Next]_vars =>
        [\A c \in Clients : client'[c].shown # client[c].shown
           => client[c].shown.last <= client'[c].shown.first]_vars
  <2> SUFFICES ASSUME SInv, Next, NEW c \in Clients,
                      client'[c].shown # client[c].shown
               PROVE  client[c].shown.last <= client'[c].shown.first
    BY DEF vars
  <2>1. client \in [Clients -> RunStates] /\ Behind(client[c])
    BY ClientsSound DEF Sound
  <2>2. \A run \in RunStates : Lost(run).shown = run.shown /\ Cut(run).shown = run.shown
    <3>1. ASSUME NEW run \in RunStates PROVE Lost(run).shown = run.shown
      BY DEF Lost, Hurt, Miss, GoTo, RunStates
    <3> QED  BY <3>1 DEF Cut
  <2>3. PICK d \in Clients : Client(d)
    <3>1. ~Crash
      BY <2>1, <2>2 DEF Crash
    <3>2. \A d \in Clients : ~ConnectionLost(d)
      BY <2>1, <2>2 DEF ConnectionLost, Become
    <3> QED
      BY <3>1, <3>2 DEF Next, Job, Tick, Indexer, Start, Serve, JobLock, JobWrite,
         JobFinish, JobFails, JobRelease, JobDies, ChangeTree, ScanStart, ScanEnd,
         ScanFails
  <2>4. Build(d)
    <3>1. \A run : Become(d, run) => run.shown # client[d].shown
      BY <2>1 DEF Become
    <3>2. client[d] \in RunStates
      BY <2>1
    <3> DEFINE run == client[d]
    <3>3. /\ [run EXCEPT !.pc = "create", !.tries = @ + 1].shown = run.shown
          /\ [run EXCEPT !.pc = "create", !.tries = 0].shown = run.shown
          /\ NewRun(run.shown).shown = run.shown
      BY <3>2 DEF NewRun, RunStates
    <3>4. ~BackoffOver(d) /\ ~Told(d) /\ ~Again(d)
      BY <3>1, <3>3 DEF BackoffOver, Told, Again
    <3>5. \A pc : GoTo(run, pc).shown = run.shown /\ Hurt(GoTo(run, pc)).shown = run.shown
      BY <3>2 DEF GoTo, Hurt, RunStates
    <3>6. PICK pc : Miss(run) = GoTo(run, pc)
      BY DEF Miss
    <3>7. ~Create(d) /\ ~Dial(d)
      BY <3>1, <3>5, <3>6 DEF Create, Dial, Locked
    <3> QED  BY <2>3, <3>4, <3>7 DEF Client
  <2>5. d = c /\ client'[c].shown = index
    BY <2>1, <2>4 DEF Build, Become, RunStates
  <2> QED  BY <2>1, <2>5 DEF Behind
<1> QED  BY <1>1, AlwaysHolds, PTL DEF Spec, NothingOlder
-----------------------------------------------------------------------------
(***************************************************************************)
(* The indexer that SyncServer has is the one SnapshotIndexer is proved to *)
(* be.                                                                     *)
(***************************************************************************)
Indexed == INSTANCE IndexPromise WITH
  view <- Span(tree, tree), dirty <- dirty \/ server = "down", scan <- scan # NoScan

\* A scan that no event disturbed has the tree as it is; no scan goes on in a
\* process that has ended.
Undisturbed ==
  /\ scan # NoScan => dirty \/ scan = tree
  /\ server = "down" => scan = NoScan

LEMMA IndexerRefines ==
  ASSUME ~EarlyChanges, SInv, Undisturbed, Indexer \/ Crash \/ Start \/ Serve
  PROVE  Undisturbed' /\ Indexed!Next
<1> USE DEF upstream
<1>1. /\ UNCHANGED tree /\ Span(tree, tree)' = Span(tree, tree)
      /\ NoScan \notin 0 .. MaxTree /\ tree \in 0 .. MaxTree /\ dirty \in BOOLEAN
      /\ server \in {"up", "down", "starting"}
  BY ServerConstants DEF Indexer, ScanStart, ScanEnd, ScanFails, Crash, Start, Serve,
     NoScan, SInv, TInv, TypeOK
<1>2. CASE ScanStart \/ Start
  <2>1. Undisturbed'
    BY <1>1, <1>2 DEF ScanStart, Start, Undisturbed
  <2>2. Indexed!Begin
    BY <1>1, <1>2 DEF ScanStart, Start, Indexed!Begin, Undisturbed
  <2> QED  BY <2>1, <2>2 DEF Indexed!Next
<1>3. CASE ScanEnd \/ Serve
  <2>1. scan # NoScan /\ scan' = NoScan /\ index' = Span(scan, tree) /\ UNCHANGED dirty
    BY <1>3 DEF ScanEnd, Serve, Published, StillDirty, SInv, Starting
  <2>2. server # "down" /\ server' # "down"
    BY <1>3 DEF ScanEnd, Serve
  <2>3. Undisturbed'
    BY <2>1, <2>2 DEF Undisturbed
  <2>4. Indexed!Publish
    BY <1>1, <2>1, <2>2 DEF Indexed!Publish, Undisturbed
  <2> QED  BY <2>3, <2>4 DEF Indexed!Next
<1>4. CASE ScanFails
  <2>1. scan # NoScan /\ dirty /\ scan' = NoScan /\ UNCHANGED <<server, index, dirty>>
    BY <1>4 DEF ScanFails, Undisturbed
  <2>2. Undisturbed' /\ Indexed!Fail
    BY <1>1, <1>4, <2>1 DEF Indexed!Fail, Undisturbed, ScanFails
  <2> QED  BY <2>2 DEF Indexed!Next
<1>5. CASE Crash
  BY <1>1, <1>5 DEF Crash, Undisturbed, Indexed!Crash, Indexed!Next
<1> QED  BY <1>2, <1>3, <1>4, <1>5 DEF Indexer

LEMMA OthersRefine ==
  ASSUME ~EarlyChanges, SInv, Undisturbed,
         \/ Job \/ Tick
         \/ \E c \in Clients : Client(c) \/ ConnectionLost(c)
         \/ UNCHANGED vars
  PROVE  Undisturbed' /\ [Indexed!Next]_(Indexed!vars)
<1> USE DEF upstream, indexer
<1>1. CASE ChangeTree
  <2>1. /\ server \in {"up", "down"} /\ UNCHANGED <<server, index, scan>>
        /\ dirty' = (server = "up")
    BY <1>1 DEF ChangeTree, TreeMayChange, SInv, TInv, TypeOK
  <2> QED  BY <2>1 DEF Undisturbed, Indexed!Change, Indexed!Next
<1>2. CASE UNCHANGED <<tree, server, index, scan, dirty>>
  BY <1>2 DEF Undisturbed, Indexed!vars, Span
<1>3. Job \/ Tick => ChangeTree \/ UNCHANGED <<tree, server, index, scan, dirty>>
  BY DEF Job, Tick, JobLock, JobWrite, JobFinish, JobFails, JobRelease, JobDies
<1>4. ASSUME NEW c \in Clients, Client(c) \/ ConnectionLost(c)
      PROVE  UNCHANGED <<tree, server, index, scan, dirty>>
  BY <1>4 DEF Client, BackoffOver, Create, Build, Dial, Told, Again, ConnectionLost
<1> QED  BY <1>1, <1>2, <1>3, <1>4 DEF vars

\* What sessions are made from here is an index that promises what the indexer's
\* own module is proved to promise: across crashes, restarts, failing scans and
\* jobs that write meanwhile it is behind only while a scan is due or under way
\* (snapshot_indexer.go:33-67, 121-167).
THEOREM ServerIndexKeepsPromise ==
  ASSUME ~EarlyChanges
  PROVE  Spec => Indexed!Spec
<1>1. Init => Undisturbed /\ Indexed!Init
  BY DEF Init, Undisturbed, Indexed!Init, NoScan
<1>2. SInv /\ Undisturbed /\ [Next]_vars => Undisturbed' /\ [Indexed!Next]_(Indexed!vars)
  BY IndexerRefines, OthersRefine DEF Next
<1> QED  BY <1>1, <1>2, InitHolds, StepHolds, PTL DEF Spec, Indexed!Spec
=============================================================================
