# sync-over-http in TLA+

Specifications, model checks and proofs for the mirror tool of this repository:
a server that publishes directory trees ("modules") over HTTP, and a one-shot
client that makes a local directory a copy of one of them. Line references are
to `src/`; `server.go`, `snapshot_indexer.go`, `snapshot.go` are in
`internal/server`, `manager.go` in `internal/lock`, `client.go` in
`internal/client`, `exclude.go` in `internal/filter`, and `README.md:n` is the
repository's.

## 1. The system

| component | state it keeps | operations | talks to |
|---|---|---|---|
| lock manager (`manager.go`) | map `m.mem`; lock files `owner\|expiry\|path` | `TryAcquire`, `Release`, `IsLocked`, `NewManager` | called by the HTTP handlers; survives restarts through its files |
| snapshot indexer (`snapshot_indexer.go`) | per module the index `m.data`; watches, event queue, `pending`, debounce timer | first `rebuild`, `watch` loop, `rebuild`, `buildSnapshot` | reads the module's tree; read by session creation |
| service (`server.go`) | maps `s.sessions`, `s.snapshots` under `s.mu` | create, manifest, object, commit, lock, unlock, wait (WebSocket), clean-up | locks, index, files of the module |
| excluder (`exclude.go`) | compiled patterns | `Match` | used by `buildSnapshot`, `BuildSnapshot` and `scanLocal` |
| manifest paging (`server.go:485-545`, `client.go:269-309`) | a cursor | `handleManifest`, `fetchManifest` | snapshots; the plan of a run |
| object transfer (`client.go:469-545`) | part file and object in `.sync-http-objects` | `downloadObject` | `handleObject` and `http.ServeContent` |
| mirror run (`client.go:58-204`, `311-576`) | the target tree; plan, groups, first error | `Run`, `scanLocal`, `enforceDeleteGuard`, `downloadAll`, `promoteObjectToEntries` | sessions, manifest pages, transfers |
| upstream job (`apt-sync.py`, external) | the module's tree | lock, change the tree, release | lock API, file system |
| audit log, configuration, client IP, process logs, message types, `main`s | none that the others read | | |

What is hard in it, and not reached by the repository's tests:

* **Two stores of one fact.** Locks are in memory and on disk; operations fail
  between the two, and a restart keeps one of them.
* **Check, then act.** Session creation checks the lock, builds, and stores, with
  nothing held across; the fetch handlers authorise and look up in two sections.
* **A tree that does not stand still.** It changes while it is scanned, before it
  is watched, between a read of metadata and a read of contents, and while a
  file is sent.
* **Two clocks of one event.** The unlock reaches the waiting client at once, the
  index follows the tree 1.2 s behind, and neither asks the other.
* **Two readings of one configuration.** Server and client apply the same patterns
  to different walks; a difference is fetched or deleted again with every run.
* **Runs that stop anywhere.** A client is killed or cut off with part of a file,
  an unlinked path, or an object without its mtime; the next run starts from there.
* **Sharing.** Paths of equal content share one object with one mode and mtime.
* **Boundaries.** Expiry of locks and sessions, the delete guard, the full part
  file, the last page, prefixes that are not directories.

What makes each part correct: locks exclude each other and are those of a table that no
fault changes (locks); a stale index never goes unnoticed (indexer); sessions and
snapshots come and go together and are served to their module's tokens only (service);
the client plans from exactly what a walk of the source would find, and leaves exactly
that (exchange); an object is stored once, whole and verified, and received bytes are
kept (transfer); success means the manifest is there, and deletions come last and below
the guard (run); sessions are asked for outside upstream jobs, and what clients see
never goes back and catches up in the end (the parts together). `PROJECT.json` lists the
hazards with their lines and the properties that watch over them.

## 2. Modules

| module | models | shape |
|---|---|---|
| `LockPaths` | `cleanPath`, `overlaps`, `normalizePath` (`manager.go:36-71`) | operators; a path is a sequence of segments, a segment a sequence of words, so that `a_b` and `a/b` differ until `normalizePath` joins them |
| `LeaseLock` | the promise of the lock API | abstract: leases the server holds and leases written down; no files, no faults, nothing stale |
| `LockManager` | `manager.go` | concrete: `mem`, `files`, `junk`; one action per operation and outcome, since each runs under `m.mu`; crashes between and in operations, failed writes, read faults |
| `IndexPromise` | the promise of an index | abstract: a view, an index, a flag for changes that wait, a scan; no events, watches or timers |
| `SnapshotIndexer` | one `moduleIndex` | the goroutine's steps (a scan step reads one thing) against a tree that changes between any two |
| `SessionTable` | the promise of sessions | abstract: one table of immutable records and what each request was served from |
| `SessionService` | the handlers' use of `s.mu` | a request is a process with a program counter; one step per critical section |
| `ManifestExchange` | excluder, `buildSnapshot` and `BuildSnapshot`, paging, `scanLocal`, the plan | the code's functions as operators, composed by a run of five steps; runs follow one another |
| `ObjectStore` | the promise of the object store | abstract: nothing, then the verified content for good |
| `ObjectTransfer` | `downloadObject` against `ServeContent` | one step per system call; files are inodes, because an open file stays the same file when it is renamed |
| `MirrorPromise` | the promise of runs to the reader of the target | abstract: files, a manifest, a stage; no objects, links, stamps, groups or guard |
| `MirrorRun` | `Run` of the client, run after run | one process per download group, plus plan, deletions, commit; the transfer is one step, as `ObjectStore` has it |
| `SyncServer` | one module with job, lock, indexer, server process and clients | the composition: each part as its own module promises it |
| `MCLockManager`, `MCSnapshotIndexer`, `MCSessionService`, `MCManifestExchange`, `MCObjectTransfer`, `MCMirrorRun` | | values of constants that a `.cfg` cannot write |
| `LockManagerProofs`, `LockLeaseProofs`, `SnapshotIndexerProofs`, `SessionServiceProofs`, `ManifestExchangeProofs`, `ObjectTransferProofs`, `MirrorRunProofs`, `SyncServerProofs` | | theorems |

How they lean on each other. Each of five abstract modules says what a part promises,
and the part is shown to implement it, by a run and by a theorem:

| part | promise | refinement mapping | property | theorem |
|---|---|---|---|---|
| `LockManager` | `LeaseLock` | the live records are what is held, the live files what is written | `ImplementsLease` | `LeaseRefinement` |
| `SnapshotIndexer` | `IndexPromise` | a change waits while an event is queued or the timer runs | `ImplementsIndex` | `IndexKeepsPromise` |
| `SessionService` | `SessionTable` | the snapshots whose session is stored, and those built and not yet answered | `ImplementsTable` | `ServiceIsTable` |
| `ObjectTransfer` | `ObjectStore` | the content of the object's inode | `ImplementsStore` | `TransferIsStore` |
| `MirrorRun` | `MirrorPromise` | the content that each path shows; plan and downloads are one stage | `ImplementsPromise` | `RunsKeepPromise` |

Two promises are also what the part next to it is built on, and that is proved too:
the indexer inside `SyncServer` keeps `IndexPromise` across crashes and restarts
(`ServerIndexKeepsPromise`), and the objects of `MirrorRun` come and stay as
`ObjectStore` says (`RunsUseStore`). `SnapshotIndexer` and `SyncServer` meet in
`IndexPromise`, `ObjectTransfer` and `MirrorRun` in `ObjectStore`.

The other handovers are by argument. `SyncServer` uses a lease in place of the lock
manager, by the ticks that it has left, where `LeaseLock` has the time at which it
ends; and it takes of a session the index it was built from. `SessionService` takes
the set of locked modules, and an index that is a number a rebuild raises.
`ManifestExchange` starts where a session is built, from any index; its plan is what
`MirrorRun` carries out. `MirrorRun` takes the manifest in one step, because a
record of `SessionTable` does not change and all of it arrives (`PagesComplete`).

How state corresponds to code:

* `LockManager`: `mem` is `m.mem` as a set of records; `files` are the lock files
  `parseLockFile` accepts and `junk` the names of those it does not; `reply` is
  the last call and answer, which only the properties read. `FoundInMem`,
  `FoundOnDisk` and `CleanPasses` are the two loops that `TryAcquire` and `IsLocked`
  share, with the expired records and files each deletes on its way.
* `SnapshotIndexer`: `todo`, `half`, `info`, `got` are the walk of
  `scanModuleSnapshot`; `watched`, `queue` the kernel's and fsnotify's side;
  `pending`, `timer` the variables of `watch`. An index entry keeps the state its
  metadata came from beside the one its checksum came from.
* `SessionService`: a request's `pc` is the place in its handler, its other fields
  the handler's locals; an ID is the clock reading it was made from, and the
  snapshot ID is the same (`server.go:453-454`).
* `ManifestExchange`: a path is the sequence of its words, of which `/` is one, so
  that `tmpfoo` has the string prefix `tmp` without being in that directory; size,
  mode, mtime and checksum are one version number. A pattern is what the code makes
  of it: a set of paths that a glob or regular expression matches, or a string
  prefix for `/**`. `snap` is the stored snapshot, `got` and `cursor` the locals of
  `fetchManifest`, `todo` and `doomed` the plan.
* `ObjectTransfer`: `part` and `object` are names that point to inodes, `data` their
  contents; a run's fields are the locals of `downloadObject` and the response body.
* `MirrorRun`: `local` is what `os.Stat` shows of each path, `meta` the stamp (mode and
  mtime together) of each object; `Linked` marks a path that shows its object's
  stamp; `full` are the objects whose part file has all the bytes, which the server
  answers with 416; `Under` says which paths are in which others, so that a file may be
  where a directory has to be, and `husks` which directories stand in which others,
  with files or without: `os.Remove` takes an empty one only. All contents have one
  size: the comparison then rests on the stamp alone.
* `SyncServer`: `lease` is the module's lock by the ticks it has left; `job` the place
  in the pseudo-code of README.md:455 ff.; `tree` the number of the last change; `index`
  the span of trees whose files it has, `scan` the tree a running scan began at, `dirty`
  a queued event or running timer; a client's `pc` and `tries` are its place in the loop
  of `client.go:92-130` and `transientRetry`.

Definitions whose comment begins "A mutant:" are the changed forms of the
definition that follows them, used to see that a property notices the change.

## 3. Runs

Twelve runs; eight hold and four show where the code differs from what the
repository says of it.

| run | question | bounds, and why they suffice |
|---|---|---|
| `LockManager_lease` | Do locks exclude each other, stay on disk, end early by their owner only, and implement `LeaseLock`? | three owners, one with a `\|` in its name, and anybody releases anything; three keys (one given with `..` and one with `.`), two of whose paths overlap, TTLs 1 and 2, clock to 4: a lock can expire while another, longer one is held, and the same path can be locked again: 99 831 states |
| `SnapshotIndexer_grow` | Does the index come to describe a tree in which a directory comes and goes, and keep `IndexPromise` on the way? | two files, one in a directory; five changes, enough to make the directory, fill it, empty and remove it and make it again during a scan |
| `SnapshotIndexer_faults` | Does the event loop survive every fault? | queue of two events that overflows, failing watches, scans and watcher |
| `SnapshotIndexer_early` (violated) | May the tree change between the first scan and the watches? | one change |
| `SessionService_store` | Do the session maps stay consistent in all interleavings, and are they one table? | two requests with tokens of two modules (each other's IDs included), clock to 2 with TTL 1: one session expires while another is created |
| `ManifestExchange_plan` | Does the client get what a walk would find, and leave just that? | four files: one beside the directory `tmp`, one in it, one named `tmpa`, one in `tmp/tmp`; the root, a directory and a file as source; no pattern, a name, the directory's name, `tmp/**`; page sizes 1, 2 and 9, which the server refuses (its limit is 3) and replaces by 2; any index, any target, run after run with changing configuration: 1 525 554 states |
| `ObjectTransfer_change` | Is what is stored right and there for good, and what was received kept? | an object of three blocks; the file may become other content, shorter, or empty, replaced or rewritten in place; three changes, two cuts, two kills |
| `ObjectTransfer_stuck` (violated) | Does a kill at any point leave a transfer that can be completed? | one kill, no changes, no cuts |
| `MirrorRun_safe` | Does every run keep `MirrorPromise`, does a successful one leave the manifest's content and stamps, and do runs converge? | three paths, two of them in the directory that is the third, one of the two deeper; two contents: paths share an object or not; two groups run concurrently; a guard of 50 % from two files lets one of two files be deleted and not both; three changes of the module, two faults or kills: 591 000 states |
| `MirrorRun_alias` (violated) | The same with two files of equal mtime | two paths, no faults |
| `MirrorRun_gap` (violated) | Is a file of the target replaced atomically? | two paths, one change, no faults |
| `SyncServer_handover` | Do sessions keep away from jobs, and does what clients see go forward and catch up? | two clients, one whose requests are refused; one backoff, so that a second failure ends a run; TTL 2; four changes, that is two jobs; two faults among crashes of the server, lost connections and answers, dying and raising jobs |

Runs that hold:

* **Locks.** `LocksExclusive` ranges over memory and disk together. `LockStateOnDisk`
  and `OnlyOwnerFrees` hold whoever releases: a stranger's release leaves the live
  record and takes its file, so that the lock does not outlast the server.
  `ImplementsLease` says so, and all else, of two tables: the live records are the
  leases that the server holds, the live files those that are written down.
* **Index.** `RestIsFresh` says that a difference between index and tree is always
  accompanied by a waiting event, a running timer or a scan. `ImplementsIndex` says it
  of every step: whatever a scan that no change overtook publishes is the tree, a scan
  fails for a change only, and nothing else touches the index. The interesting cases are
  files made in a new directory before its watch and changes behind the walk.
* **Sessions.** `SessionsHaveSnapshots`, `ServedIsAuthorized` and `YoungSessionsStay`
  concern what the two-step handlers could lose or mix up. `ImplementsTable` puts the
  parts together: creation takes effect in one step, with the index of that instant;
  no ID is given twice; and what a request got is a record of the table as it was at
  one instant, although handlers authorise and look up in two sections.
* **Exchange.** `PagesComplete`: no page boundary loses an entry, which the run would
  then delete. `IndexedAsWalked` compares the snapshot cut out of the index with
  `BuildSnapshot`, which walks the directory itself; `ObjectsFound` follows an entry
  back to the file that is opened for it. `MirrorsWalk` follows a run from end to end:
  what it leaves is what `BuildSnapshot` finds in the source, beside the files that the
  client does not look at, so that the two sides agree on what is excluded.
* **Transfer.** `ImplementsStore` holds although the file changes while it is sent and
  an appended part may come from two versions: what gets the object's name has its
  checksum, and no later download changes or removes it; `ReceivedIsKept` and
  `CutsAreResumed` are resumption.
* **Run.** `ImplementsPromise` says what a reader of the target may rely on while runs
  come, fail and are killed: a path of the manifest shows its old file, none, or the
  manifest's (that there is a moment with none is `MirrorRun_gap`), nothing else is
  touched until all of them show the manifest's, and only then files are deleted and
  success is reported; `GuardKept` bounds deletions by the share of what was there;
  `StampsOfContent` says which mode and mtime a path shows after success: those of a
  file of the manifest with its content, not always its own (see `MirrorRun_alias`);
  `LinksResolve` and `EventuallyMirrored` cover runs that stop anywhere.
  `EventuallyMirrored` excepts three cases that the code does not get out of: the guard
  stops every run; a file and a directory are in each other's way (`Clashing`: downloads
  come first, and the deletion that would make room is never reached; or the deletions
  took files only, and the directory at a file's place still has a directory in it); and
  a kill, a cut or a wrong checksum left a part file of the full size, which is never
  completed (`Stuck`, see `ObjectTransfer_stuck`). Without either of the last two the
  property fails.
* **Together.** `CheckedOutsideJob` needs the lock files (a restart in the middle of a
  job) and fails without them. `NothingOlder` compares the spans of what one client
  is shown, over restarts and overlapping scans. `OnlyFaultsFail` and `EveryRunEnds`
  are the loop around session creation: a lock that comes and goes uses up no
  attempts, and no wait outlasts the lock. `SettledIsShown` is what remains of
  freshness after an unlock: a client that came too early is made up for.

Runs that are violated, each against the quoted line of the repository's README:

1. `SnapshotIndexer_early`: the first scan precedes the watches
   (`snapshot_indexer.go:43-47`); README.md:18 says the index is rebuilt when files
   change.
2. `ObjectTransfer_stuck`: a part file of the full size is asked for with a range that
   is never satisfiable (`client.go:497-509`); README.md:14 and 184 promise resumption.
3. `MirrorRun_alias`: a path is compared by the mtime of an object it shares
   (`client.go:145`, `567-574`) and keeps old content under a reported success. Upstream
   jobs that preserve mtimes make equal mtimes common, so this needs no quick clock.
   The trace passes through a run that succeeds and leaves two paths of one content with
   the mtime of the first, where README.md:15 has the metadata of each preserved.
4. `MirrorRun_gap`: the file at a path is removed, then the object is linked, and its
   mode and mtime are set last (`client.go:553-574`); README.md:185 has files moved
   into the target atomically, with mode and mtime set before. A reader between the
   steps finds no file, and a kill there leaves none until the next run.

One thing that is surprising and contradicts no text: the rebuild follows the tree and
not the lock (`snapshot_indexer.go:153-161`), so that a client that goes on at once
after an unlock may get the index of a rebuild that began during the job.
`SettledIsShown` is what makes up for it.

### Assumptions of the runs that hold

* `LockManager_lease`: the lock directory is readable (`ReadFaults = FALSE`), and no two
  of its paths have one file name. Nothing is assumed of callers.
* `SnapshotIndexer_grow`: the tree keeps still until the watches are in place, the
  queue never fills, watches can be added. `SnapshotIndexer_faults` has none of these.
* `SyncServer_handover`: the tree keeps still while the server starts
  (`EarlyChanges = FALSE`, needed for `SettledIsShown` alone), and jobs stay within
  their TTL. A refused client only ever meets refusals.
* `SessionService`: two creations never read the same nanosecond (`FineClock`).
* `ManifestExchange_plan`: `MirrorsWalk` and `IndexedAsWalked` speak of patterns that
  exclude a directory with all it holds (`Closed`). A pattern such as `tmp` matches the
  directory only: the server then lists the files in it, the client skips them, and
  every run fetches them again. The module has no files in directories with the
  names of the client's stores.
* `ObjectTransfer`: runs of one target do not overlap; README.md:31-33 leaves that to
  the scheduler.
* `MirrorRun_safe`: two files of the module never have the same mtime. That is what
  `MirrorRun_alias` drops. No one but the runs changes the target. An empty directory
  that is itself the path of a file is removed by `os.Remove` (`client.go:553`); one
  that still has directories in it is not, and these are the ones that are state
  (`husks`). No content is empty: an empty file has no part file to resume.

### Deadlock and fairness

Deadlock is checked everywhere but in the indexer's runs: there the tree may stop
changing for ever, and the goroutine then rightly sleeps.

* `LockManager`, `SessionService`, `ManifestExchange`: no fairness and no liveness. How
  a waiter gets out of its loop is `EveryRunEnds` of `SyncServer`.
* `SnapshotIndexer`: weak fairness of the scan and of the event loop: goroutines are
  scheduled, and a timer fires. Changes of the tree are not fair.
* `SyncServer`: weak fairness of the clock, of the indexer's goroutine, and of each
  client, which the scheduler starts again. None of jobs, of faults, and of whoever
  starts the server: the liveness properties have "the lock stays free" and "the
  server runs and no job does" as their hypotheses.
* `ObjectTransfer`, `MirrorRun`: weak fairness of a run's steps, and of starting the
  next run, which is the scheduler of README.md:31-33. Faults, kills and changes are not
  fair and are bounded; after the last of them the system must converge.

## 4. Proofs

Checked by TLAPS for all values of the constants. Every invariant and every action
property of the runs that hold is proved, under the assumptions named here, and so are
the five refinements and the two handovers of section 2. A refinement is proved in
three parts: initial states map to initial states; from a state of the invariant every
step maps to a step of the abstract module or to none; and the invariant holds. The
invariant is what has to be said first, and it is given with each module.

* **`LockManagerProofs`.** `TypeCorrect`; `MutualExclusion`: `Spec => []LocksExclusive`
  if the directory can be read. The invariant is inductive together with the type
  invariant, which says that there is one record per path and one file per name: a
  granted record replaces what is under its path and its file name, everything else was
  found not to overlap (`CleanPassesFree`), and dead records stay dead (`StaysDead`),
  because the clock does not go back. Releases of strangers, torn files and owners with
  `|` are included. `OwnerKeepsLock` is the action property, without an assumption.
* **`LockLeaseProofs`.** Under `SoundDirectory` (a readable directory, distinct file
  names), for all owners and all releases: `StateOnDisk` (`LockStateOnDisk`) and
  `LeaseRefinement`, `Spec => ImplementsLease`. Each action maps to the lease action of
  its name, and a clean-up of expired records or files to no change of the live ones
  (`SweepKeepsHeld`, `SweepKeepsWritten`).
* **`SnapshotIndexerProofs`.** `IndexerTypeCorrect`, whose invariant adds that what the
  walk has visited is not visited again. `IndexFresh`: `Spec => []RestIsFresh` under
  `QuietStart` (the assumptions of `SnapshotIndexer_grow`). The inductive invariant
  `IInv` says that every directory is watched or named in the queue (`Covered`), that an
  unscanned change is announced by event, timer or scan, and that a scan no change
  interrupted has got exactly what it has passed (`ScanTrue`), so that it ends with the
  index equal to the tree (`ScanComplete`). `IndexKeepsPromise` (`ImplementsIndex`)
  rests on the same invariant: a scan that is not true has an event in the queue, so
  that it may publish or fail; a true one cannot fail (`TrueScanCannotFail`); and to
  receive the last event sets the timer, since the flag `pending` and the timer agree
  while the loop is in its `select`.
* **`SessionServiceProofs`.** `ServiceTypeCorrect` and `NoneLeftBehind`
  (`SessionsHaveSnapshots`) without an assumption: store and clean-up treat both maps
  alike, whatever the ID. With `FineClock`, `ServedOwnModule` and `OnlyAgeEndsSessions`.
  Their invariant `FInv` says that every ID in a map or in a handler is a past reading
  of the clock, that no two handlers are about to store under one ID nor under one that
  is stored, and that a request that was authorised for an ID can only meet a snapshot
  of its module there, even after expiry. `ServiceIsTable` (`ImplementsTable`), under
  `FineClock` too, adds `TInv`: no answer is there before the request is done, and no
  session counts its age from before its ID. Building a snapshot adds one record to the
  table, and storing it with its session none.
* **`ManifestExchangeProofs`.** `NoEntryMissed`, by the invariant that what was fetched
  is the part of the snapshot before the cursor; `SnapshotIsWalk`, `ObjectsAreFound`,
  `ExcludedStays`, `RunMirrorsWalk` (`MirrorsWalk`) and `ExchangeTypeCorrect`. The heart
  of it are lemmas on sequences of words: cutting off the source's prefix and joining it
  again are inverse, and below a closed pattern a file is listed exactly when the walk
  reaches it. `RunMirrorsWalk` combines the three: all pages came, they are the walk,
  and carrying out the plan makes of the target the manifest beside what the client does
  not see (`AppliedMirrors`). It assumes `NoReservedFiles`, as the run does.
* **`ObjectTransferProofs`.** `TransferTypeCorrect` for any number of overlapping runs,
  with the invariant that a copying run has a file open. If runs do not overlap
  (`OneRun`): `ObjectVerified`, a stored object has its checksum, by `Tidy`, which adds
  that the file a run writes to is the part file, which is never the object, and that
  from the check to the rename the part file is the verified one; `TransferIsStore`
  (`ImplementsStore`), since a rename alone gives the name another file, and no step
  writes to a file that has it; and `NothingThrownAway` (`ReceivedIsKept`), by
  `Resuming`: an answer that begins anew meets an empty part file, or has nothing to
  send.
* **`MirrorRunProofs`.** Without an assumption `MirrorTypeCorrect`, `NoDanglingLink`,
  `RunsUseStore` and `GuardHolds`; the invariant `SInv` adds how the plan's numbers
  count paths (`Counting`) and how the groups divide them (`Grouping`). Under
  `~OneSecond` `SuccessIsMirror`, `SuccessIsStamped` and `RunsKeepPromise`
  (`ImplementsPromise`). Their invariant `EInv` has three parts that only hold together:
  a stamp tells the content, in the module, in the manifest and in every object
  (`Agree`); a planned path waits for its group or is linked to the group's object, and
  shows the manifest's stamp when the group is done (`InGroup`); and a path that was not
  planned for shows content and stamp all along, also while a group restamps the object
  it shares (`Shows`). In the refinement removing and linking a path are changes of a
  path of the manifest (`GroupRefines`), stamps are not seen, and `Downloaded` maps to
  the step that finds every file in place (`DownloadedRefines`), which is where `EInv`
  is needed. It also rests on the assumption of `MirrorRun` that no content is the mark
  of a missing file. `MirrorRun_alias` is what becomes of the first part without
  `~OneSecond`.
* **`SyncServerProofs`.** `ServerTypeCorrect`, `LocksAreWaitedFor` (`OnlyFaultsFail`),
  `SessionsOutsideJobs` (`CheckedOutsideJob`) and `NeverBackwards` (`NothingOlder`), for
  any number of clients, jobs, faults and restarts, and also with `EarlyChanges`. The
  invariant: a job at work has a lease, spans do not end before they begin, and no
  client has been shown more than the index has, and no index more than the scan that
  runs began with. `ServerIndexKeepsPromise`, for `~EarlyChanges`, adds `Undisturbed`: a
  scan without an event since its start has the tree as it is, and a server that is down
  has none; that a server which is down owes a scan is part of the mapping.

Only model-checked: liveness (`FreshEventually`, `EventsRescan`, `CutsAreResumed`,
`EventuallyMirrored`, `EveryRunEnds`, `SettledIsShown`), which is out of the prover's
reach. What `cleanPath` computes for every input is not proved, as it is a fold: the
proofs need only that lock paths are sequences.

## 5. Not modelled

* Decoding of requests, methods, status texts, logging, client IP, message types: they
  change no state the other parts read. `ttl_seconds` is one multiplication
  (`server.go:313`) and is not modelled; a TTL is a number of ticks.
* The audit log: written under one mutex, read by nothing, its old files removed only
  when the server starts.
* Configuration: read once, before the server listens.
* `ForceDeleteGuard`, which turns the guard off, and those directories left empty that
  are in no file's way. A dry run is a run that leaves the files of the target as they
  are (`ManifestExchange`); that it still makes the staging directory is left out.
* `lastErr` of the index: `New` fails when the first rebuild does, so `data` is never
  nil once a session can be created, and `lastErr` is never answered.
* Contents are model values or short sequences of blocks; a checksum is the content
  itself, so collisions of SHA-256 are left out.
* Compilation of globs and regular expressions: a pattern is the set of paths it
  matches.

## 6. Plan

In this order: locks with their abstraction, indexer, sessions, transfer, run; the
exchange of manifests; the composition of lock, index, server, clients and job; proofs
of each. What is left, in the order of what it would add:

1. The handovers of section 2 that are still by argument: `SyncServer`'s lease as
   `LeaseLock`, which needs the ticks that are left turned into times, and the one-step
   manifest of `MirrorRun` as the pages of `ManifestExchange`.
2. Overlapping runs of one target as a run of its own (`ObjectTransfer` already has
   `Runs`), and runs of several contents with sizes that differ.
3. The arithmetic of `ttl_seconds` modulo 2^64, with the validation of the
   configuration.
4. The audit log with its clean-up, if anything comes to read it.
