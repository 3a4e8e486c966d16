----------------------------- MODULE SyncServer -----------------------------
(***************************************************************************)
(* One module of the server with everybody who deals with it: the upstream *)
(* job that changes its tree under its lock (README.md, section 11), the   *)
(* indexer that follows the tree, the handlers that create sessions and    *)
(* wait for the lock, and the clients with their loop around session       *)
(* creation (Run of internal/client/client.go).                            *)
(*                                                                         *)
(* The parts appear here as their own modules describe them: the lock as   *)
(* one lease of LeaseLock, by the ticks it still has; the indexer by what  *)
(* SnapshotIndexer shows of it, that a change is followed by a scan; a     *)
(* session by the index it was built from.  The tree is the number of its  *)
(* last change, an index the span of trees its files were read from.       *)
(***************************************************************************)
EXTENDS Integers, FiniteSets

CONSTANTS
  Clients,
  Refused,       \* clients whose request is invalid, or not authorised
  Backoffs,      \* len(cfg.Backoffs)
  TTL,           \* of the job's lock, in ticks
  MaxTree,       \* bound on the changes of the tree
  MaxFaults,     \* bound on crashes, lost connections and failing jobs
  EarlyChanges   \* may the tree change while the server starts?

ASSUME ServerConstants ==
  /\ Refused \subseteq Clients
  /\ Backoffs \in Nat /\ TTL \in Nat \ {0}
  /\ MaxTree \in Nat /\ MaxFaults \in Nat
  /\ EarlyChanges \in BOOLEAN

VARIABLES
  lease,    \* the ticks the module's lock has left; 0: it is free
  job,      \* where the upstream job is
  tree,     \* the number of changes of the module's tree
  server,   \* is the server running?
  index,    \* m.data
  scan,     \* the tree at the start of the scan that is running
  dirty,    \* is an event queued, or the debounce timer running?
  client,   \* the run of every client
  faults    \* the faults so far

upstream == <<job, tree>>
indexer == <<index, scan, dirty>>
vars == <<lease, upstream, server, indexer, client, faults>>

NoScan == -1
Span(first, last) == [first |-> first, last |-> last]

\* tries is transientRetry; shown is the index of the last session, hurt
\* whether this run met a fault: only the properties read these two.
NewRun(shown) == [pc |-> "create", tries |-> 0, shown |-> shown, hurt |-> FALSE]

Init ==
  /\ lease = 0 /\ job = "idle"
  /\ tree = 0
  /\ server = "up"
  /\ index = Span(0, 0) /\ scan = NoScan /\ dirty = FALSE
  /\ client = [c \in Clients |-> NewRun(Span(0, 0))]
  /\ faults = 0

Fault == faults < MaxFaults /\ faults' = faults + 1
-----------------------------------------------------------------------------
(***************************************************************************)
(* The upstream job: POST /v1/locks, change the tree, and POST             *)
(* /v1/locks/release in a finally.  A job that is refused ends.            *)
(***************************************************************************)
JobLock ==
  /\ job = "idle" /\ server = "up" /\ lease = 0
  /\ tree + 2 <= MaxTree
  /\ lease' = TTL
  /\ \/ job' = "locked" /\ faults' = faults
     \/ Fault /\ job' = job     \* the answer was lost, and the job raises
  /\ UNCHANGED <<tree, server, indexer, client>>

\* Unless EarlyChanges, changes wait until the watches are in place.
TreeMayChange == EarlyChanges \/ server # "starting"

ChangeTree ==
  /\ TreeMayChange
  /\ tree' = tree + 1
  /\ dirty' = (server = "up")
  /\ UNCHANGED <<lease, server, index, scan, client, faults>>

\* The job is at work: the tree is neither the old one nor the new one.
JobWrite == job = "locked" /\ ChangeTree /\ job' = "working"

JobFinish ==
  job = "working" /\ ChangeTree /\ job' = "over"

\* The job raises; finally still runs.
JobFails ==
  /\ job = "working" /\ Fault
  /\ job' = "over"
  /\ UNCHANGED <<lease, tree, server, indexer, client>>

\* A server that is not running is not told.
JobRelease ==
  /\ job = "over"
  /\ lease' = IF server = "up" THEN 0 ELSE lease
  /\ job' = "idle"
  /\ UNCHANGED <<tree, server, indexer, client, faults>>

\* The process ends without its finally.
JobDies ==
  /\ job # "idle" /\ Fault
  /\ job' = "idle"
  /\ UNCHANGED <<lease, tree, server, indexer, client>>

\* ttl_seconds covers the longest job (README.md:453).
Tick ==
  /\ lease > 0
  /\ job # "idle" => lease > 1
  /\ lease' = lease - 1
  /\ UNCHANGED <<upstream, server, indexer, client, faults>>
-----------------------------------------------------------------------------
(* The indexer's loop. *)
ScanStart ==
  /\ server = "up" /\ scan = NoScan /\ dirty
  /\ scan' = tree /\ dirty' = FALSE
  /\ UNCHANGED <<lease, upstream, server, index, client, faults>>

\* A mutant: entries of the last index are kept where size and mtime agree.
Merged == Span(index.first, tree)
\* Each file was read at some moment of the scan.
Published == Span(scan, tree)

\* A mutant: events that came during the scan are taken for answered.
Drained == FALSE
\* Events that came during the scan are still in the queue.
StillDirty == dirty

ScanEnd ==
  /\ server = "up" /\ scan # NoScan
  /\ index' = Published
  /\ scan' = NoScan /\ dirty' = StillDirty
  /\ UNCHANGED <<lease, upstream, server, client, faults>>

\* A file vanished under the scan; the old index stays.
ScanFails ==
  /\ server = "up" /\ scan # NoScan /\ scan # tree
  /\ scan' = NoScan
  /\ UNCHANGED <<lease, upstream, server, index, dirty, client, faults>>
-----------------------------------------------------------------------------
(* The loop of a client's Run around the creation of its session. *)
At(c, pc) == client[c].pc = pc
Become(c, run) == client' = [client EXCEPT ![c] = run]
GoTo(run, pc) == [run EXCEPT !.pc = pc]
Hurt(run) == [run EXCEPT !.hurt = TRUE]

\* A mutant: one attempt more than there are backoffs to wait for.
MissOnceMore(run) == GoTo(run, IF run.tries > Backoffs THEN "failed" ELSE "backoff")
\* An attempt failed for another reason than the lock.
Miss(run) == GoTo(run, IF run.tries >= Backoffs THEN "failed" ELSE "backoff")

BackoffOver(c) ==
  /\ At(c, "backoff")
  /\ Become(c, [client[c] EXCEPT !.pc = "create", !.tries = @ + 1])
  /\ UNCHANGED <<lease, upstream, server, indexer, faults>>

\* A mutant: 423 is an error like any other.
LockedIsError(run) == Miss(run)
\* 423: wait for the unlock.
Locked(run) == GoTo(run, "dial")

\* createSessionOnce meets no server, a refusal, the lock, or no lock.
Create(c) ==
  /\ At(c, "create")
  /\ Become(c, CASE server # "up" -> Hurt(Miss(client[c]))
                 [] server = "up" /\ c \in Refused -> Miss(client[c])
                 [] server = "up" /\ c \notin Refused /\ lease > 0 -> Locked(client[c])
                 [] OTHER -> GoTo(client[c], "checked"))
  /\ UNCHANGED <<lease, upstream, server, indexer, faults>>

\* The handler goes on after the lock check: it builds the snapshot.
Build(c) ==
  /\ At(c, "checked")
  /\ Become(c, [client[c] EXCEPT !.pc = "session", !.shown = index])
  /\ UNCHANGED <<lease, upstream, server, indexer, faults>>

\* waitForUnlockWS
Dial(c) ==
  /\ At(c, "dial")
  /\ Become(c, IF server = "up" THEN GoTo(client[c], "wait")
               ELSE Hurt(GoTo(client[c], "failed")))
  /\ UNCHANGED <<lease, upstream, server, indexer, faults>>

\* A mutant: the lock is looked at once, when the connection is made.
FreeOnce == FALSE
\* handleLockWaitWS polls the lock; "locked" events change nothing.
Free == lease = 0

Told(c) ==
  /\ At(c, "wait") /\ Free
  /\ Become(c, [client[c] EXCEPT !.pc = "create", !.tries = 0])
  /\ UNCHANGED <<lease, upstream, server, indexer, faults>>

\* The rest of the run (MirrorRun), and the scheduler's next one.
Again(c) ==
  /\ At(c, "session") \/ At(c, "failed")
  /\ Become(c, NewRun(client[c].shown))
  /\ UNCHANGED <<lease, upstream, server, indexer, faults>>

\* What a client makes of a connection that is lost: the wait is over, or a
\* request has failed.
Lost(run) ==
  IF run.pc \in {"dial", "wait"} THEN Hurt(GoTo(run, "failed")) ELSE Hurt(Miss(run))

\* The request, the answer or the connection is lost on the way.
ConnectionLost(c) ==
  /\ client[c].pc \in {"create", "checked", "dial", "wait"}
  /\ Fault
  /\ Become(c, Lost(client[c]))
  /\ UNCHANGED <<lease, upstream, server, indexer>>
-----------------------------------------------------------------------------
(* The server ends, and is started: New scans the module and then serves. *)

\* A mutant: locks are in memory only.
LostLease == 0
\* The lock files are still there.
KeptLease == lease

\* The handlers end; requests that are still to be sent meet no server.
Cut(run) == IF run.pc \in {"checked", "wait"} THEN Lost(run) ELSE run

Crash ==
  /\ server # "down" /\ Fault
  /\ server' = "down" /\ scan' = NoScan /\ dirty' = FALSE
  /\ lease' = KeptLease
  /\ client' = [c \in Clients |-> Cut(client[c])]
  /\ UNCHANGED <<upstream, index>>

Start ==
  /\ server = "down"
  /\ server' = "starting" /\ scan' = tree
  /\ UNCHANGED <<lease, upstream, index, dirty, client, faults>>

Serve ==
  /\ server = "starting"
  /\ server' = "up" /\ index' = Published /\ scan' = NoScan
  /\ UNCHANGED <<lease, upstream, dirty, client, faults>>

Job == JobLock \/ JobWrite \/ JobFinish \/ JobFails \/ JobRelease \/ JobDies
Indexer == ScanStart \/ ScanEnd \/ ScanFails
Client(c) ==
  BackoffOver(c) \/ Create(c) \/ Build(c) \/ Dial(c) \/ Told(c) \/ Again(c)

Next ==
  \/ Job \/ Tick
  \/ Indexer
  \/ \E c \in Clients : Client(c) \/ ConnectionLost(c)
  \/ Crash \/ Start \/ Serve

Spec == Init /\ [][Next]_vars

\* Goroutines are scheduled, a timer fires, time passes, a client goes on and
\* is started again.  Nothing is assumed of jobs, faults, and who starts the
\* server.
FairSpec ==
  /\ Spec
  /\ WF_vars(Tick) /\ WF_vars(Indexer)
  /\ \A c \in Clients : WF_vars(Client(c))
-----------------------------------------------------------------------------
Spans == [first : 0 .. MaxTree, last : 0 .. MaxTree]
RunStates ==
  [pc : {"create", "checked", "backoff", "dial", "wait", "session", "failed"},
   tries : 0 .. Backoffs, shown : Spans, hurt : BOOLEAN]

TypeOK ==
  /\ lease \in 0 .. TTL /\ job \in {"idle", "locked", "working", "over"}
  /\ tree \in 0 .. MaxTree
  /\ server \in {"up", "down", "starting"}
  /\ index \in Spans /\ scan \in {NoScan} \cup 0 .. MaxTree /\ dirty \in BOOLEAN
  /\ client \in [Clients -> RunStates]
  /\ faults \in 0 .. MaxFaults

\* A session request that finds the module unlocked finds no job at work, in
\* spite of restarts, lost answers and leases that run out (README.md:420,
\* server.go:419).
CheckedOutsideJob ==
  [][\A c \in Clients : At(c, "create") /\ At(c, "checked")' => job = "idle"]_vars

\* When a client sees another index than before, no file of it is older than a
\* file of the earlier one, whatever the scans overlapped with and however often
\* the server was started anew (snapshot_indexer.go:171-184).
NothingOlder ==
  [][\A c \in Clients : client'[c].shown # client[c].shown
       => client[c].shown.last <= client'[c].shown.first]_vars

\* A lock never makes a run fail, however long it is held and however often it
\* is taken again under the nose of a client that was told of its release
\* (README.md:179-180, client.go:104-129).
OnlyFaultsFail ==
  \A c \in Clients \ Refused : At(c, "failed") => client[c].hurt

\* When the lock is free for good no run waits for ever (README.md:421).
EveryRunEnds ==
  \A c \in Clients : <>[](lease = 0) => []<>(At(c, "session") \/ At(c, "failed"))

\* A session that was made while the index was behind is made up for: when the
\* jobs have come to rest and the server runs, every client gets to see
\* exactly the tree there is (README.md:18, snapshot_indexer.go:155).
SettledIsShown ==
  <>[](job = "idle" /\ server = "up")
    => <>[](\A c \in Clients \ Refused : client[c].shown = Span(tree, tree))
=============================================================================
