-------------------------- MODULE LockLeaseProofs --------------------------
(***************************************************************************)
(* LockManager implements LeaseLock if the lock directory can be read and  *)
(* no two module names give one file name, whoever releases what, and also *)
(* for owner names that contain "|".                                       *)
(***************************************************************************)
EXTENDS LockManagerProofs

SoundDirectory ==
  /\ ~ReadFaults
  /\ \A p, q \in Paths : lockFile(p) = lockFile(q) => p = q

\* The directory pass then has one outcome.
LEMMA CleanPassIsSweep ==
  ASSUME SoundDirectory, NEW path, NEW left \in CleanPasses(path)
  PROVE  /\ left[1] = LiveOf(files)
         /\ Blocking(files, path) = {}
<1>1. UnreadableFiles = {{}} /\ ~ReadFaults
  BY DEF UnreadableFiles, SoundDirectory
<1>2. left = <<LiveOf(files \ {}), {}>> /\ Blocking(files \ {}, path) = {}
  BY <1>1 DEF CleanPasses
<1>3. files \ {} = files
  OBVIOUS
<1> QED
  BY <1>2, <1>3

\* A live file survives whatever is done to the file of another path.
LEMMA OtherFilesKept ==
  ASSUME SoundDirectory, TypeOK, NEW path \in Paths, NEW f \in files, f.path # path
  PROVE  lockFile(f.path) # lockFile(path)
  BY DEF SoundDirectory, TypeOK, LockRecord

\* When nothing live blocks the path, no live file has its name, and no live
\* record has its path.
LEMMA FreePathKeepsFiles ==
  ASSUME SoundDirectory, TypeOK, NEW path \in Paths, Blocking(files, path) = {}
  PROVE  OtherFiles(LiveOf(files), path) = LiveOf(files)
<1>1. \A f \in LiveOf(files) : f.path # path
  BY OverlapsReflexive DEF Blocking, LiveOf
<1> QED
  BY <1>1, OtherFilesKept DEF OtherFiles, LiveOf

LEMMA FreePathKeepsRecs ==
  ASSUME NEW path \in Paths, Blocking(mem, path) = {}
  PROVE  OtherRecs(LiveOf(mem), path) = LiveOf(mem)
  BY OverlapsReflexive DEF Blocking, LiveOf, OtherRecs

\* What a pass that stops at a lock leaves.
LEMMA FoundKeepsLive ==
  ASSUME SoundDirectory, NEW path, Found(path)
  PROVE  /\ mem' \subseteq mem /\ LiveOf(mem) \subseteq mem'
         /\ files' \subseteq files /\ LiveOf(files) \subseteq files'
         /\ Blocking(mem, path) # {} \/ Blocking(files, path) # {}
<1>1. CASE FoundInMem(path)
  BY <1>1 DEF FoundInMem, LiveOf
<1>2. CASE FoundOnDisk(path)
  <2>1. UnreadableFiles = {{}}
    BY DEF UnreadableFiles, SoundDirectory
  <2>2. files \ {} = files
    OBVIOUS
  <2>3. \E gone \in SUBSET (files \ LiveOf(files)) : files' = files \ gone
    BY <1>2, <2>1, <2>2 DEF FoundOnDisk
  <2>4. Blocking(files, path) # {} /\ mem' = LiveOf(mem)
    BY <1>2, <2>1, <2>2 DEF FoundOnDisk
  <2> QED
    BY <2>3, <2>4 DEF LiveOf
<1> QED
  BY <1>1, <1>2 DEF Found

NewLock(path, owner, ttl) ==
  [path |-> path, owner |-> owner, expiresAt |-> now + ttl]

\* What a granted request makes of the two stores.
LEMMA GrantStores ==
  ASSUME SoundDirectory, TypeOK,
         NEW path \in Paths, NEW owner \in Owners, NEW ttl \in TTLs,
         TryAcquireGranted(path, owner, ttl)
  PROVE  /\ Blocking(mem, path) = {} /\ Blocking(files, path) = {}
         /\ mem' = LiveOf(mem) \cup {NewLock(path, owner, ttl)}
         /\ files' = IF owner \in PipedOwners
                     THEN LiveOf(files)
                     ELSE LiveOf(files) \cup {NewLock(path, owner, ttl)}
<1> DEFINE rec == NewLock(path, owner, ttl)
<1> USE DEF NewLock
<1>1. Blocking(mem, path) = {} /\ mem' = OtherRecs(LiveOf(mem), path) \cup {rec}
  BY DEF TryAcquireGranted, GrantedMem
<1>2. PICK left \in CleanPasses(path) : files' = WriteFile(rec, left[1], left[2])[1]
  BY DEF TryAcquireGranted, GrantedMem
<1>3. left[1] = LiveOf(files) /\ Blocking(files, path) = {}
  BY CleanPassIsSweep
<1>4. files' = IF owner \in PipedOwners THEN OtherFiles(LiveOf(files), path)
                                        ELSE OtherFiles(LiveOf(files), path) \cup {rec}
  BY <1>2, <1>3 DEF WriteFile
<1> QED
  BY <1>1, <1>3, <1>4, FreePathKeepsFiles, FreePathKeepsRecs

\* A request that fails to write, or is torn, costs no lock in force its file.
LEMMA FailStores ==
  ASSUME SoundDirectory, TypeOK, NEW path \in Paths, NEW left \in CleanPasses(path),
         files' = left[1] \/ files' = OtherFiles(left[1], path)
  PROVE  files' = LiveOf(files) /\ Blocking(files, path) = {}
  BY CleanPassIsSweep, FreePathKeepsFiles
-----------------------------------------------------------------------------
(***************************************************************************)
(* What the server grants is on disk, and stays there until it is released *)
(* or over.                                                                *)
(***************************************************************************)
StateOnDiskStep ==
  /\ \A rec \in mem' \ mem : rec \in files' \/ rec.owner \in PipedOwners
  /\ \A rec \in files \ files' : ~Live(rec) \/ Released(rec.path)

LEMMA StepStateOnDisk ==
  ASSUME SoundDirectory, TypeOK, [Next]_vars
  PROVE  StateOnDiskStep
<1>1. ASSUME mem' \subseteq mem, LiveOf(files) \subseteq files'
      PROVE  StateOnDiskStep
  BY <1>1 DEF StateOnDiskStep, LiveOf
<1>2. ASSUME NEW path \in Paths, Found(path)
      PROVE  StateOnDiskStep
  BY <1>1, <1>2, FoundKeepsLive
<1>3. ASSUME NEW path \in Paths, NEW owner \in Owners, NEW ttl \in TTLs,
             TryAcquireGranted(path, owner, ttl)
      PROVE  StateOnDiskStep
  <2> DEFINE rec == NewLock(path, owner, ttl)
  <2>1. /\ mem' = LiveOf(mem) \cup {rec}
        /\ files' = IF owner \in PipedOwners THEN LiveOf(files) ELSE LiveOf(files) \cup {rec}
    BY <1>3, GrantStores
  <2>2. rec.owner = owner
    BY DEF NewLock
  <2> QED
    BY <2>1, <2>2 DEF StateOnDiskStep, LiveOf
<1>4. ASSUME NEW path \in Paths, NEW owner \in Owners, NEW ttl \in TTLs,
             TryAcquireFailed(path, owner, ttl)
      PROVE  StateOnDiskStep
  <2>1. files' = LiveOf(files)
    BY <1>4, FailStores DEF TryAcquireFailed
  <2> QED
    BY <1>1, <1>4, <2>1 DEF TryAcquireFailed, FailedMem, OtherRecs, LiveOf
<1>5. ASSUME NEW path \in Paths, TornAcquire(path)
      PROVE  StateOnDiskStep
  <2>1. files' = LiveOf(files)
    BY <1>5, FailStores DEF TornAcquire
  <2> QED
    BY <1>1, <1>5, <2>1 DEF TornAcquire
<1>6. ASSUME NEW path \in Paths, NEW owner \in Owners \cup {NoOwner}, Release(path, owner)
      PROVE  StateOnDiskStep
  <2>1. mem' \subseteq mem /\ Released(path)
    BY <1>6 DEF Release, Released, Answer
  <2>2. \A f \in files \ files' : f.path = path
    BY <1>6, OtherFilesKept DEF Release, OtherFiles
  <2> QED
    BY <2>1, <2>2 DEF StateOnDiskStep
<1>7. ASSUME NEW path \in Paths, IsLockedFalse(path)
      PROVE  StateOnDiskStep
  <2>1. mem' = LiveOf(mem) /\ files' = LiveOf(files)
    BY <1>7, CleanPassIsSweep DEF IsLockedFalse
  <2> QED
    BY <1>1, <2>1 DEF LiveOf
<1>8. CASE Restart \/ Tick \/ UNCHANGED vars
  BY <1>8 DEF Restart, Tick, vars, StateOnDiskStep
<1> QED
  BY <1>2, <1>3, <1>4, <1>5, <1>6, <1>7, <1>8
     DEF Next, TryAcquireLocked, IsLockedTrue

\* Every lock is written down when it is granted, unless its owner's name has a
\* "|", and nothing but its end or a release takes its file away.
THEOREM StateOnDisk ==
  ASSUME SoundDirectory
  PROVE  Spec => LockStateOnDisk
<1>1. TypeOK /\ [Next]_vars => [StateOnDiskStep]_vars
  BY StepStateOnDisk
<1>2. TypeOK /\ [Next]_vars =>
        [/\ \A rec \in mem' \ mem : rec \in files' \/ rec.owner \in PipedOwners
         /\ \A rec \in files \ files' : ~Live(rec) \/ Released(rec.path)]_vars
  BY <1>1 DEF StateOnDiskStep
<1> QED
  BY <1>2, TypeCorrect, PTL DEF Spec, LockStateOnDisk
-----------------------------------------------------------------------------
(***************************************************************************)
(* The refinement: the server's leases are the live records, the written   *)
(* ones the live files.                                                    *)
(***************************************************************************)
LEMMA OverlapsIsSame ==
  ASSUME NEW a, NEW b
  PROVE  Lease!overlaps(a, b) <=> overlaps(a, b)
  BY DEF Lease!overlaps, overlaps, Lease!IsPrefix, IsPrefix

LEMMA BlockedIsBlocking ==
  ASSUME NEW path
  PROVE  Lease!Blocked(path) <=> Blocking(mem, path) # {} \/ Blocking(files, path) # {}
  BY OverlapsIsSame DEF Lease!Blocked, Blocking, LiveOf

LEMMA SameAnswer ==
  ASSUME NEW op, NEW path, NEW owner, NEW result
  PROVE  Lease!Answer(op, path, owner, result) = Answer(op, path, owner, result)
  BY DEF Lease!Answer, Answer

LEMMA SameRestarted == Lease!Restarted = Restarted
  BY DEF Lease!Restarted, Restarted, Lease!Answer, Answer

\* While the clock stands, a sweep does not change the live records and files.
LEMMA SweepKeepsHeld ==
  ASSUME now' = now, mem' \subseteq mem, LiveOf(mem) \subseteq mem'
  PROVE  LiveOf(mem)' = LiveOf(mem)
  BY DEF LiveOf, Live

LEMMA SweepKeepsWritten ==
  ASSUME now' = now, files' \subseteq files, LiveOf(files) \subseteq files'
  PROVE  LiveOf(files)' = LiveOf(files)
  BY DEF LiveOf, Live

LEMMA StepRefinesLease ==
  ASSUME SoundDirectory, TypeOK, [Next]_vars
  PROVE  [Lease!Next]_(Lease!vars)
<1> USE SameAnswer
<1>1. ASSUME NEW path \in Paths, NEW owner \in Owners, TryAcquireLocked(path, owner)
      PROVE  Lease!Refuse(path, owner)
  <2>1. Found(path) /\ now' = now
    BY <1>1 DEF TryAcquireLocked
  <2>2. LiveOf(mem)' = LiveOf(mem) /\ LiveOf(files)' = LiveOf(files) /\ Lease!Blocked(path)
    BY <2>1, FoundKeepsLive, SweepKeepsHeld, SweepKeepsWritten, BlockedIsBlocking
  <2> QED
    BY <1>1, <2>2 DEF TryAcquireLocked, Lease!Refuse
<1>2. ASSUME NEW path \in Paths, NEW owner \in Owners, NEW ttl \in TTLs,
             TryAcquireGranted(path, owner, ttl)
      PROVE  Lease!Grant(path, owner, ttl)
  <2> DEFINE rec == NewLock(path, owner, ttl)
  <2>1. /\ Blocking(mem, path) = {} /\ Blocking(files, path) = {}
        /\ mem' = LiveOf(mem) \cup {rec}
        /\ files' = IF owner \in PipedOwners THEN LiveOf(files) ELSE LiveOf(files) \cup {rec}
    BY <1>2, GrantStores
  <2>2. now' = now /\ rec.expiresAt >= now
    BY <1>2, LockConstants DEF TryAcquireGranted, GrantedMem, TypeOK, NewLock
  <2>3. LiveOf(mem)' = LiveOf(mem) \cup {rec}
    BY <2>1, <2>2 DEF LiveOf, Live
  <2>4. LiveOf(files)' = IF owner \in PipedOwners THEN LiveOf(files)
                                                  ELSE LiveOf(files) \cup {rec}
    BY <2>1, <2>2 DEF LiveOf, Live
  <2>5. ~Lease!Blocked(path)
    BY <2>1, BlockedIsBlocking
  <2> QED
    BY <1>2, <2>2, <2>3, <2>4, <2>5 DEF TryAcquireGranted, GrantedMem, Lease!Grant, NewLock
<1>3. ASSUME NEW path \in Paths, NEW owner \in Owners, NEW ttl \in TTLs,
             TryAcquireFailed(path, owner, ttl)
      PROVE  Lease!Fail(path, owner)
  <2>1. files' = LiveOf(files) /\ Blocking(files, path) = {}
    BY <1>3, FailStores DEF TryAcquireFailed
  <2>2. mem' = LiveOf(mem) /\ Blocking(mem, path) = {} /\ now' = now
    BY <1>3, FreePathKeepsRecs DEF TryAcquireFailed, FailedMem
  <2>3. LiveOf(mem)' = LiveOf(mem) /\ LiveOf(files)' = LiveOf(files)
    BY <2>1, <2>2 DEF LiveOf, Live
  <2> QED
    BY <1>3, <2>1, <2>2, <2>3, BlockedIsBlocking DEF TryAcquireFailed, Lease!Fail
<1>4. ASSUME NEW path \in Paths, TornAcquire(path)
      PROVE  Lease!Restart
  <2>1. files' = LiveOf(files) /\ mem' = {} /\ now' = now
    BY <1>4, FailStores DEF TornAcquire
  <2>2. LiveOf(mem)' = {} /\ LiveOf(files)' = LiveOf(files)
    BY <2>1 DEF LiveOf, Live
  <2> QED
    BY <1>4, <2>2, SameRestarted DEF TornAcquire, Lease!Restart
<1>5. ASSUME NEW path \in Paths, NEW owner \in Owners \cup {NoOwner}, Release(path, owner)
      PROVE  Lease!Release(path, owner)
  <2>1. files' = {f \in files : f.path # path} /\ now' = now
    BY <1>5, OtherFilesKept DEF Release, OtherFiles
  <2>2. LiveOf(files)' = {l \in LiveOf(files) : l.path # path}
    BY <2>1 DEF LiveOf, Live
  <2>3. LiveOf(mem)' = {l \in LiveOf(mem) : ~(l.path = path /\ owner \in {NoOwner, l.owner})}
    BY <1>5, <2>1 DEF Release, MayFree, LiveOf, Live
  <2> QED
    BY <1>5, <2>2, <2>3 DEF Release, Lease!Release
<1>6. ASSUME NEW path \in Paths, IsLockedTrue(path)
      PROVE  Lease!Query(path)
  <2>1. Found(path) /\ now' = now
    BY <1>6 DEF IsLockedTrue
  <2>2. LiveOf(mem)' = LiveOf(mem) /\ LiveOf(files)' = LiveOf(files) /\ Lease!Blocked(path)
    BY <2>1, FoundKeepsLive, SweepKeepsHeld, SweepKeepsWritten, BlockedIsBlocking
  <2> QED
    BY <1>6, <2>2 DEF IsLockedTrue, Lease!Query
<1>7. ASSUME NEW path \in Paths, IsLockedFalse(path)
      PROVE  Lease!Query(path)
  <2>1. /\ mem' = LiveOf(mem) /\ files' = LiveOf(files) /\ now' = now
        /\ Blocking(mem, path) = {} /\ Blocking(files, path) = {}
    BY <1>7, CleanPassIsSweep DEF IsLockedFalse
  <2>2. LiveOf(mem)' = LiveOf(mem) /\ LiveOf(files)' = LiveOf(files)
    BY <2>1 DEF LiveOf, Live
  <2> QED
    BY <1>7, <2>1, <2>2, BlockedIsBlocking DEF IsLockedFalse, Lease!Query
<1>8. ASSUME Restart
      PROVE  Lease!Restart
  BY <1>8, SameRestarted DEF Restart, Lease!Restart, LiveOf, Live
<1>9. ASSUME Tick
      PROVE  Lease!Tick
  <2>1. \A r \in mem \cup files : Live(r)' <=> Live(r) /\ r.expiresAt >= now'
    BY <1>9 DEF Tick, Live, TypeOK, LockRecord
  <2> QED
    BY <1>9, <2>1 DEF Tick, Lease!Tick, LiveOf
<1>10. CASE UNCHANGED vars
  BY <1>10 DEF vars, Lease!vars, LiveOf, Live
<1> QED
  BY <1>1, <1>2, <1>3, <1>4, <1>5, <1>6, <1>7, <1>8, <1>9, <1>10 DEF Next, Lease!Next

\* The lock API behaves as the server's table of leases and the written one:
\* no torn write, failed write, stale record or stale file can be told from its
\* answers, and a restart leaves just what is written.
THEOREM LeaseRefinement ==
  ASSUME SoundDirectory
  PROVE  Spec => ImplementsLease
<1>1. Init => Lease!Init
  BY SameRestarted DEF Init, Lease!Init, LiveOf
<1>2. TypeOK /\ [Next]_vars => [Lease!Next]_(Lease!vars)
  BY StepRefinesLease
<1> QED
  BY <1>1, <1>2, TypeCorrect, PTL DEF Spec, ImplementsLease, Lease!Spec
=============================================================================
