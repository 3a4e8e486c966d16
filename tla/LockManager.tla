---------------------------- MODULE LockManager ----------------------------
(***************************************************************************)
(* The lock manager of internal/lock/manager.go.  A lock is kept twice: in *)
(* the map m.mem, and in a file "owner|expiry|path" of the lock directory, *)
(* which is all that a restarted server still has.  Every operation runs   *)
(* under m.mu, so it is one action; the process may stop between           *)
(* operations or in the middle of writing a file, and I/O may fail.        *)
(*                                                                         *)
(* Both stores are sets of records.  The name of a lock file is a function *)
(* of the path written in it (lockFile), so the files that parse are the   *)
(* set `files`, and of those that do not only the names are kept (`junk`). *)
(***************************************************************************)
EXTENDS LockPaths

CONSTANTS
  Keys,            \* the lock keys callers use ("module:" + module name)
  Owners,          \* the owner names of lock requests
  PipedOwners,     \* those whose name contains the field separator "|"
  NoOwner,         \* the empty owner name, legal in a release request
  TTLs,            \* lock durations, in ticks
  MaxNow,          \* bound on the clock
  ReadFaults       \* may reading the lock directory or a file of it fail?

Paths == {cleanPath(key) : key \in Keys}
LockFiles == {lockFile(path) : path \in Paths}

ASSUME LockConstants ==
  /\ \A path \in Paths : Len(path) \in Nat
  /\ PipedOwners \subseteq Owners
  /\ NoOwner \notin Owners
  /\ TTLs \subseteq Nat
  /\ MaxNow \in Nat
  /\ ReadFaults \in BOOLEAN

VARIABLES
  mem,     \* m.mem, the records by path
  files,   \* the records of the lock files that parse
  junk,    \* the names of those that do not
  now,     \* the wall clock
  reply    \* the last call and its answer

vars == <<mem, files, junk, now, reply>>

LockRecord == [path : Paths, owner : Owners, expiresAt : Nat]

\* A mutant: a lock is over one tick early.
LiveTooShort(rec) == rec.expiresAt > now

\* expiresAt.Before(now) is what ends a lock.
Live(rec) == rec.expiresAt >= now

Answer(op, path, owner, result) ==
  [op |-> op, path |-> path, owner |-> owner, result |-> result]

Restarted == Answer("restart", << >>, NoOwner, "done")

Init ==
  /\ mem = {} /\ files = {} /\ junk = {}
  /\ now = 0
  /\ reply = Restarted
-----------------------------------------------------------------------------
(***************************************************************************)
(* The two passes TryAcquire and IsLocked begin with.  Each visits records *)
(* until one that is live and overlaps the path; the expired ones it meets *)
(* before are deleted.  Map order and names decide which those are.        *)
(***************************************************************************)
Blocking(recs, path) == {rec \in recs : Live(rec) /\ overlaps(path, rec.path)}
LiveOf(recs) == {rec \in recs : Live(rec)}

FoundInMem(path) ==
  /\ Blocking(mem, path) # {}
  /\ \E gone \in SUBSET (mem \ LiveOf(mem)) : mem' = mem \ gone
  /\ UNCHANGED <<files, junk>>

\* The sets of lock files os.ReadFile can fail on; parseLockFile takes each
\* for a malformed one.
UnreadableFiles == IF ReadFaults THEN SUBSET files ELSE {{}}

FoundOnDisk(path) ==
  /\ Blocking(mem, path) = {}
  /\ mem' = LiveOf(mem)
  /\ \E bad \in UnreadableFiles :
       /\ Blocking(files \ bad, path) # {}
       /\ \E gone \in SUBSET (files \ LiveOf(files \ bad)) : files' = files \ gone
  /\ \E swept \in SUBSET junk : junk' = junk \ swept

Found(path) == FoundInMem(path) \/ FoundOnDisk(path)

\* What a directory pass that meets no lock leaves of the files and the junk.
\* When os.ReadDir fails there is no pass, and nothing is found either.
CleanPasses(path) ==
  {<<LiveOf(files \ bad), {}>> :
     bad \in {b \in UnreadableFiles : Blocking(files \ b, path) = {}}}
  \cup (IF ReadFaults THEN {<<files, junk>>} ELSE {})
-----------------------------------------------------------------------------
OtherFiles(fs, path) == {f \in fs : lockFile(f.path) # lockFile(path)}
OtherRecs(recs, path) == {rec \in recs : rec.path # path}

\* A mutant: the record of a lock that could not be written is kept.
FailedMemKept(path, rec) == LiveOf(mem) \cup {rec}
\* m.mem after a WriteFile that failed: the record just put there is deleted.
FailedMem(path, rec) == OtherRecs(LiveOf(mem), path)

\* os.WriteFile replaces whatever file has that name.  An owner with a "|" in
\* its name makes a file of four fields, which does not parse.
WriteFile(rec, fs, jk) ==
  IF rec.owner \in PipedOwners
  THEN <<OtherFiles(fs, rec.path), jk \cup {lockFile(rec.path)}>>
  ELSE <<OtherFiles(fs, rec.path) \cup {rec}, jk \ {lockFile(rec.path)}>>

\* A mutant: the record is put beside what the map has.
GrantedMemBeside(path, rec) == mem \cup {rec}
\* m.mem[path] = rec, after the pass that deleted the expired records.
GrantedMem(path, rec) == OtherRecs(LiveOf(mem), path) \cup {rec}

TryAcquireLocked(path, owner) ==
  /\ Found(path)
  /\ reply' = Answer("acquire", path, owner, "locked")
  /\ UNCHANGED now

TryAcquireGranted(path, owner, ttl) ==
  /\ now + ttl < MaxNow
  /\ Blocking(mem, path) = {}
  /\ LET rec == [path |-> path, owner |-> owner, expiresAt |-> now + ttl]
     IN /\ mem' = GrantedMem(path, rec)
        /\ \E left \in CleanPasses(path) :
             LET dir == WriteFile(rec, left[1], left[2])
             IN files' = dir[1] /\ junk' = dir[2]
  /\ reply' = Answer("acquire", path, owner, "granted")
  /\ UNCHANGED now

\* os.WriteFile fails before it truncates the file, or after.
TryAcquireFailed(path, owner, ttl) ==
  /\ now + ttl < MaxNow
  /\ Blocking(mem, path) = {}
  /\ mem' = FailedMem(path, [path |-> path, owner |-> owner, expiresAt |-> now + ttl])
  /\ \E left \in CleanPasses(path) :
       \/ files' = left[1] /\ junk' = left[2]
       \/ files' = OtherFiles(left[1], path) /\ junk' = left[2] \cup {lockFile(path)}
  /\ reply' = Answer("acquire", path, owner, "failed")
  /\ UNCHANGED now

\* The process stops after os.WriteFile has truncated the file and before it
\* has written it; the next one starts with an empty map.
TornAcquire(path) ==
  /\ Blocking(mem, path) = {}
  /\ \E left \in CleanPasses(path) :
       files' = OtherFiles(left[1], path) /\ junk' = left[2] \cup {lockFile(path)}
  /\ mem' = {}
  /\ reply' = Restarted
  /\ UNCHANGED now

\* A mutant: any caller may delete the record of any other.
MayFreeAny(rec, owner) == TRUE
MayFree(rec, owner) == owner \in {NoOwner, rec.owner}

\* The owner is compared before the record is deleted; the file is removed
\* whoever asks.
Release(path, owner) ==
  /\ mem' = {rec \in mem : ~(rec.path = path /\ MayFree(rec, owner))}
  /\ files' = OtherFiles(files, path)
  /\ junk' = junk \ {lockFile(path)}
  /\ reply' = Answer("release", path, owner, "done")
  /\ UNCHANGED now

IsLockedTrue(path) ==
  /\ Found(path)
  /\ reply' = Answer("query", path, NoOwner, "locked")
  /\ UNCHANGED now

IsLockedFalse(path) ==
  /\ Blocking(mem, path) = {}
  /\ mem' = LiveOf(mem)
  /\ \E left \in CleanPasses(path) : files' = left[1] /\ junk' = left[2]
  /\ reply' = Answer("query", path, NoOwner, "unlocked")
  /\ UNCHANGED now

\* The process stops between two operations and NewManager starts again.
Restart ==
  /\ mem' = {}
  /\ reply' = Restarted
  /\ UNCHANGED <<files, junk, now>>

Tick ==
  /\ now < MaxNow
  /\ now' = now + 1
  /\ UNCHANGED <<mem, files, junk, reply>>

Next ==
  \/ \E path \in Paths, owner \in Owners : TryAcquireLocked(path, owner)
  \/ \E path \in Paths, owner \in Owners, ttl \in TTLs :
       TryAcquireGranted(path, owner, ttl) \/ TryAcquireFailed(path, owner, ttl)
  \/ \E path \in Paths : TornAcquire(path)
  \/ \E path \in Paths, owner \in Owners \cup {NoOwner} : Release(path, owner)
  \/ \E path \in Paths : IsLockedTrue(path) \/ IsLockedFalse(path)
  \/ Restart
  \/ Tick

Spec == Init /\ [][Next]_vars
-----------------------------------------------------------------------------
\* The stores are what the code has: a map with one record per path, and a
\* directory with one file, parseable or not, per name.
TypeOK ==
  /\ mem \subseteq LockRecord
  /\ \A r, s \in mem : r.path = s.path => r = s
  /\ files \subseteq LockRecord
  /\ \A f, g \in files : lockFile(f.path) = lockFile(g.path) => f = g
  /\ junk \subseteq LockFiles
  /\ \A f \in files : lockFile(f.path) \notin junk
  /\ now \in Nat
  /\ reply \in [op : {"restart", "acquire", "release", "query"},
                path : Paths \cup {<< >>}, owner : Owners \cup {NoOwner},
                result : {"done", "locked", "granted", "failed", "unlocked"}]

\* Mutual exclusion: no two locks in force overlap, whether the map or the
\* directory knows them, across restarts, torn writes, failed writes, owners
\* whose files do not parse, and releases of other callers' locks
\* (manager.go:89-136).
LocksExclusive ==
  \A r, s \in mem \cup files :
    Live(r) /\ Live(s) /\ overlaps(r.path, s.path) => r = s

Released(path) == reply'.op = "release" /\ reply'.path = path

\* The server's lock is written down when it is granted, and the file of a
\* lock in force goes only by a release of its path, so that a restart in
\* between loses none (manager.go:105-135, 147; README.md:415).  It is any
\* release that removes the file, not the owner's alone.
LockStateOnDisk ==
  [][/\ \A rec \in mem' \ mem : rec \in files' \/ rec.owner \in PipedOwners
     /\ \A rec \in files \ files' : ~Live(rec) \/ Released(rec.path)]_vars

\* Only the owner, a release that names no owner, time, or a restart ends a
\* lock the server holds in memory: no release of another caller does
\* (manager.go:142-146).
OnlyOwnerFrees ==
  [][\A rec \in mem \ mem' :
       \/ reply'.op = "restart"
       \/ ~Live(rec)
       \/ Released(rec.path) /\ reply'.owner \in {NoOwner, rec.owner}]_vars

Lease == INSTANCE LeaseLock WITH held <- LiveOf(mem), written <- LiveOf(files)

\* The locks the API grants, refuses, reports and ends are those of two tables
\* of leases, the server's and the written one, that no torn write, failed
\* write, stale record or stale file changes: the live records and the live
\* files are those tables.
ImplementsLease == Lease!Spec
=============================================================================
