------------------------- MODULE LockManagerProofs -------------------------
(***************************************************************************)
(* Theorems about LockManager, for every set of keys, owners and TTLs.     *)
(***************************************************************************)
EXTENDS LockManager, TLAPS

\* Every path conflicts with itself.
LEMMA OverlapsReflexive == \A path \in Paths : overlaps(path, path)
  BY LockConstants DEF overlaps, IsPrefix

\* What a directory pass leaves was there before it.
LEMMA CleanPassesShrink ==
  ASSUME NEW path, NEW left \in CleanPasses(path)
  PROVE  /\ left[1] \subseteq files
         /\ left[2] \subseteq junk
<1>1. \/ \E bad \in UnreadableFiles : left = <<LiveOf(files \ bad), {}>>
      \/ left = <<files, junk>>
  BY DEF CleanPasses
<1>2. CASE left = <<files, junk>>
  BY <1>2
<1>3. CASE \E bad \in UnreadableFiles : left = <<LiveOf(files \ bad), {}>>
  <2>1. PICK bad \in UnreadableFiles : left = <<LiveOf(files \ bad), {}>>
    BY <1>3
  <2>2. left[1] = LiveOf(files \ bad) /\ left[2] = {}
    BY <2>1
  <2> QED
    BY <2>2 DEF LiveOf
<1> QED
  BY <1>1, <1>2, <1>3

\* Without read faults it leaves no live lock that overlaps the path.
LEMMA CleanPassesFree ==
  ASSUME ~ReadFaults, NEW path, NEW left \in CleanPasses(path)
  PROVE  \A f \in left[1] : ~overlaps(path, f.path)
  BY DEF CleanPasses, UnreadableFiles, Blocking, LiveOf

-----------------------------------------------------------------------------
(***************************************************************************)
(* Type correctness: the stores keep the shape of the code's map and of a  *)
(* directory.                                                              *)
(***************************************************************************)
LEMMA FoundTypeOK ==
  ASSUME TypeOK, NEW path \in Paths, Found(path)
  PROVE  /\ mem' \subseteq mem
         /\ files' \subseteq files
         /\ junk' \subseteq junk
  BY DEF Found, FoundInMem, FoundOnDisk, LiveOf

\* A step that only removes records and file names keeps the types.
LEMMA ShrinkTypeOK ==
  ASSUME TypeOK, mem' \subseteq mem, files' \subseteq files, junk' \subseteq junk,
         now' \in Nat,
         reply' \in [op : {"restart", "acquire", "release", "query"},
                     path : Paths \cup {<< >>}, owner : Owners \cup {NoOwner},
                     result : {"done", "locked", "granted", "failed", "unlocked"}]
  PROVE  TypeOK'
  BY DEF TypeOK

\* The directory after a file was replaced by one that does not parse.
LEMMA TornTypeOK ==
  ASSUME TypeOK, NEW path \in Paths, NEW left \in CleanPasses(path),
         files' = OtherFiles(left[1], path),
         junk' = left[2] \cup {lockFile(path)}
  PROVE  /\ files' \subseteq LockRecord
         /\ \A f, g \in files' : lockFile(f.path) = lockFile(g.path) => f = g
         /\ junk' \subseteq LockFiles
         /\ \A f \in files' : lockFile(f.path) \notin junk'
  BY CleanPassesShrink DEF TypeOK, OtherFiles, LockFiles

LEMMA AcquireGrantedTypeOK ==
  ASSUME TypeOK, NEW path \in Paths, NEW owner \in Owners, NEW ttl \in TTLs,
         TryAcquireGranted(path, owner, ttl)
  PROVE  TypeOK'
<1> DEFINE rec == [path |-> path, owner |-> owner, expiresAt |-> now + ttl]
<1>1. rec \in LockRecord
  BY LockConstants DEF TypeOK, LockRecord
<1>2. PICK left \in CleanPasses(path) :
        /\ files' = WriteFile(rec, left[1], left[2])[1]
        /\ junk' = WriteFile(rec, left[1], left[2])[2]
  BY DEF TryAcquireGranted, GrantedMem
<1>3. left[1] \subseteq files /\ left[2] \subseteq junk
  BY CleanPassesShrink
<1>4. mem' = OtherRecs(LiveOf(mem), path) \cup {rec}
  BY DEF TryAcquireGranted, GrantedMem
<1>5. mem' \subseteq LockRecord /\ \A r, s \in mem' : r.path = s.path => r = s
  BY <1>1, <1>4 DEF TypeOK, OtherRecs, LiveOf
<1>6. /\ files' \subseteq LockRecord
      /\ \A f, g \in files' : lockFile(f.path) = lockFile(g.path) => f = g
      /\ junk' \subseteq LockFiles
      /\ \A f \in files' : lockFile(f.path) \notin junk'
  <2>1. CASE owner \in PipedOwners
    <3>1. files' = OtherFiles(left[1], path) /\ junk' = left[2] \cup {lockFile(path)}
      BY <1>2, <2>1 DEF WriteFile
    <3> QED
      BY <3>1, TornTypeOK
  <2>2. CASE owner \notin PipedOwners
    <3>1. /\ files' = OtherFiles(left[1], path) \cup {rec}
          /\ junk' = left[2] \ {lockFile(path)}
      BY <1>2, <2>2 DEF WriteFile
    <3> QED
      BY <1>1, <1>3, <3>1 DEF TypeOK, OtherFiles
  <2> QED
    BY <2>1, <2>2
<1>7. now' \in Nat /\ reply' = Answer("acquire", path, owner, "granted")
  BY DEF TryAcquireGranted, GrantedMem, TypeOK
<1> QED
  BY <1>5, <1>6, <1>7 DEF TypeOK, Answer

(***************************************************************************)
(* The type invariant: m.mem is a map with one record per path and the     *)
(* lock directory has one file per name, whatever fails or stops.          *)
(***************************************************************************)
THEOREM TypeCorrect == Spec => []TypeOK
<1>1. Init => TypeOK
  BY DEF Init, TypeOK, Restarted, Answer
<1>2. TypeOK /\ [Next]_vars => TypeOK'
  <2> SUFFICES ASSUME TypeOK, [Next]_vars
               PROVE  TypeOK'
    OBVIOUS
  <2>1. ASSUME NEW path \in Paths, NEW owner \in Owners, TryAcquireLocked(path, owner)
        PROVE  TypeOK'
    BY <2>1, FoundTypeOK, ShrinkTypeOK DEF TryAcquireLocked, TypeOK, Answer
  <2>2. ASSUME NEW path \in Paths, NEW owner \in Owners, NEW ttl \in TTLs,
               TryAcquireGranted(path, owner, ttl)
        PROVE  TypeOK'
    BY <2>2, AcquireGrantedTypeOK
  <2>3. ASSUME NEW path \in Paths, NEW owner \in Owners, NEW ttl \in TTLs,
               TryAcquireFailed(path, owner, ttl)
        PROVE  TypeOK'
    <3>1. mem' \subseteq mem
      BY <2>3 DEF TryAcquireFailed, FailedMem, OtherRecs, LiveOf
    <3>2. now' \in Nat /\ reply' = Answer("acquire", path, owner, "failed")
      BY <2>3 DEF TryAcquireFailed, TypeOK
    <3>3. PICK left \in CleanPasses(path) :
            \/ files' = left[1] /\ junk' = left[2]
            \/ files' = OtherFiles(left[1], path) /\ junk' = left[2] \cup {lockFile(path)}
      BY <2>3 DEF TryAcquireFailed
    <3>4. CASE files' = left[1] /\ junk' = left[2]
      BY <3>1, <3>2, <3>4, CleanPassesShrink, ShrinkTypeOK DEF Answer
    <3>5. CASE files' = OtherFiles(left[1], path) /\ junk' = left[2] \cup {lockFile(path)}
      BY <3>1, <3>2, <3>5, TornTypeOK DEF TypeOK, Answer
    <3> QED
      BY <3>3, <3>4, <3>5
  <2>4. ASSUME NEW path \in Paths, TornAcquire(path)
        PROVE  TypeOK'
    <3>1. PICK left \in CleanPasses(path) :
            files' = OtherFiles(left[1], path) /\ junk' = left[2] \cup {lockFile(path)}
      BY <2>4 DEF TornAcquire
    <3>2. mem' = {} /\ now' \in Nat /\ reply' = Restarted
      BY <2>4 DEF TornAcquire, TypeOK
    <3> QED
      BY <3>1, <3>2, TornTypeOK DEF TypeOK, Restarted, Answer
  <2>5. ASSUME NEW path \in Paths, NEW owner \in Owners \cup {NoOwner}, Release(path, owner)
        PROVE  TypeOK'
    <3>1. mem' \subseteq mem /\ files' \subseteq files /\ junk' \subseteq junk
      BY <2>5 DEF Release, OtherFiles
    <3> QED
      BY <2>5, <3>1, ShrinkTypeOK DEF Release, TypeOK, Answer
  <2>6. ASSUME NEW path \in Paths, IsLockedTrue(path)
        PROVE  TypeOK'
    BY <2>6, FoundTypeOK, ShrinkTypeOK DEF IsLockedTrue, TypeOK, Answer
  <2>7. ASSUME NEW path \in Paths, IsLockedFalse(path)
        PROVE  TypeOK'
    <3>1. mem' \subseteq mem /\ files' \subseteq files /\ junk' \subseteq junk
      BY <2>7, CleanPassesShrink DEF IsLockedFalse, LiveOf
    <3> QED
      BY <2>7, <3>1, ShrinkTypeOK DEF IsLockedFalse, TypeOK, Answer
  <2>8. CASE Restart
    BY <2>8, ShrinkTypeOK DEF Restart, TypeOK, Restarted, Answer
  <2>9. CASE Tick
    BY <2>9 DEF Tick, TypeOK
  <2>10. CASE UNCHANGED vars
    BY <2>10 DEF vars, TypeOK
  <2> QED
    BY <2>1, <2>2, <2>3, <2>4, <2>5, <2>6, <2>7, <2>8, <2>9, <2>10 DEF Next
<1> QED
  BY <1>1, <1>2, PTL DEF Spec
-----------------------------------------------------------------------------
(***************************************************************************)
(* Mutual exclusion.  Only a granted TryAcquire brings a new lock, and only *)
(* after both passes have met no live lock that overlaps it.  With time    *)
(* running forward a lock that is over stays so.                           *)
(***************************************************************************)
StaysDead == \A rec \in LockRecord : Live(rec)' => Live(rec)

LEMMA ShrinkExclusive ==
  ASSUME TypeOK, LocksExclusive, StaysDead, mem' \subseteq mem, files' \subseteq files
  PROVE  LocksExclusive'
  BY DEF TypeOK, LocksExclusive, StaysDead

LEMMA ClockStands ==
  ASSUME now' = now
  PROVE  StaysDead
  BY DEF StaysDead, Live

LEMMA GrantExclusive ==
  ASSUME ~ReadFaults, TypeOK, LocksExclusive,
         NEW path \in Paths, NEW owner \in Owners, NEW ttl \in TTLs,
         TryAcquireGranted(path, owner, ttl)
  PROVE  LocksExclusive'
<1> DEFINE rec == [path |-> path, owner |-> owner, expiresAt |-> now + ttl]
<1>1. PICK left \in CleanPasses(path) : files' = WriteFile(rec, left[1], left[2])[1]
  BY DEF TryAcquireGranted, GrantedMem
<1>2. files' \subseteq left[1] \cup {rec}
  BY <1>1 DEF WriteFile, OtherFiles
<1>3. left[1] \subseteq files /\ \A f \in left[1] : ~overlaps(path, f.path)
  BY CleanPassesShrink, CleanPassesFree
<1>4. \A m \in mem : Live(m) => ~overlaps(path, m.path)
  BY DEF TryAcquireGranted, GrantedMem, Blocking
<1>5. mem' \subseteq LiveOf(mem) \cup {rec}
  BY DEF TryAcquireGranted, GrantedMem, OtherRecs
<1>6. now' = now
  BY DEF TryAcquireGranted, GrantedMem
<1> DEFINE Old == LiveOf(mem) \cup left[1]
<1>7. \A r \in Old : r \in mem \cup files /\ ~overlaps(path, r.path) /\ ~overlaps(r.path, path)
  BY <1>3, <1>4 DEF LiveOf, overlaps
<1>8. mem' \cup files' \subseteq Old \cup {rec}
  BY <1>2, <1>5
<1>9. rec.path = path
  OBVIOUS
<1> QED
  BY <1>6, <1>7, <1>8, <1>9 DEF LocksExclusive, Live

\* No two locks in force overlap, for every set of keys, owner names and
\* TTLs, whoever releases what, whenever the process stops or a write fails;
\* the only assumption is that the lock directory can be read.
THEOREM MutualExclusion ==
  ASSUME ~ReadFaults
  PROVE  Spec => []LocksExclusive
<1>1. Init => LocksExclusive
  BY DEF Init, LocksExclusive
<1>2. TypeOK /\ LocksExclusive /\ [Next]_vars => LocksExclusive'
  <2> SUFFICES ASSUME TypeOK, LocksExclusive, [Next]_vars
               PROVE  LocksExclusive'
    OBVIOUS
  <2>1. ASSUME NEW path \in Paths, NEW owner \in Owners, TryAcquireLocked(path, owner)
        PROVE  LocksExclusive'
    BY <2>1, FoundTypeOK, ClockStands, ShrinkExclusive DEF TryAcquireLocked
  <2>2. ASSUME NEW path \in Paths, NEW owner \in Owners, NEW ttl \in TTLs,
               TryAcquireGranted(path, owner, ttl)
        PROVE  LocksExclusive'
    BY <2>2, GrantExclusive
  <2>3. ASSUME NEW path \in Paths, NEW owner \in Owners, NEW ttl \in TTLs,
               TryAcquireFailed(path, owner, ttl)
        PROVE  LocksExclusive'
    <3>1. mem' \subseteq mem /\ now' = now
      BY <2>3 DEF TryAcquireFailed, FailedMem, OtherRecs, LiveOf
    <3>2. files' \subseteq files
      BY <2>3, CleanPassesShrink DEF TryAcquireFailed, OtherFiles
    <3> QED
      BY <3>1, <3>2, ClockStands, ShrinkExclusive
  <2>4. ASSUME NEW path \in Paths, TornAcquire(path)
        PROVE  LocksExclusive'
    <3>1. mem' \subseteq mem /\ now' = now
      BY <2>4 DEF TornAcquire
    <3>2. files' \subseteq files
      BY <2>4, CleanPassesShrink DEF TornAcquire, OtherFiles
    <3> QED
      BY <3>1, <3>2, ClockStands, ShrinkExclusive
  <2>5. ASSUME NEW path \in Paths, NEW owner \in Owners \cup {NoOwner}, Release(path, owner)
        PROVE  LocksExclusive'
    BY <2>5, ClockStands, ShrinkExclusive DEF Release, OtherFiles
  <2>6. ASSUME NEW path \in Paths, IsLockedTrue(path)
        PROVE  LocksExclusive'
    BY <2>6, FoundTypeOK, ClockStands, ShrinkExclusive DEF IsLockedTrue
  <2>7. ASSUME NEW path \in Paths, IsLockedFalse(path)
        PROVE  LocksExclusive'
    BY <2>7, CleanPassesShrink, ClockStands, ShrinkExclusive DEF IsLockedFalse, LiveOf
  <2>8. CASE Restart
    BY <2>8, ClockStands, ShrinkExclusive DEF Restart
  <2>9. CASE Tick
    <3>1. StaysDead
      BY <2>9 DEF Tick, StaysDead, Live, LockRecord, TypeOK
    <3> QED
      BY <2>9, <3>1, ShrinkExclusive DEF Tick
  <2>10. CASE UNCHANGED vars
    BY <2>10, ClockStands, ShrinkExclusive DEF vars
  <2> QED
    BY <2>1, <2>2, <2>3, <2>4, <2>5, <2>6, <2>7, <2>8, <2>9, <2>10 DEF Next
<1> QED
  BY <1>1, <1>2, TypeCorrect, PTL DEF Spec
-----------------------------------------------------------------------------
(***************************************************************************)
(* Who may end a lock the server holds in memory.                          *)
(***************************************************************************)
LEMMA NextOnlyOwnerFrees ==
  ASSUME TypeOK, [Next]_vars, NEW rec \in mem \ mem', Live(rec)
  PROVE  \/ reply'.op = "restart"
         \/ Released(rec.path) /\ reply'.owner \in {NoOwner, rec.owner}
<1> USE DEF Answer, Restarted, Released
<1>1. ASSUME NEW path \in Paths, Found(path)
      PROVE  rec \in mem'
  BY <1>1 DEF Found, FoundInMem, FoundOnDisk, LiveOf
<1>2. ASSUME NEW path \in Paths, Blocking(mem, path) = {}
      PROVE  rec \in OtherRecs(LiveOf(mem), path)
  BY <1>2, OverlapsReflexive DEF Blocking, OtherRecs, LiveOf
<1>3. ASSUME NEW path \in Paths, NEW owner \in Owners, TryAcquireLocked(path, owner)
      PROVE  FALSE
  BY <1>1, <1>3 DEF TryAcquireLocked
<1>4. ASSUME NEW path \in Paths, NEW owner \in Owners, NEW ttl \in TTLs,
             TryAcquireGranted(path, owner, ttl) \/ TryAcquireFailed(path, owner, ttl)
      PROVE  FALSE
  BY <1>2, <1>4 DEF TryAcquireGranted, GrantedMem, TryAcquireFailed, FailedMem
<1>5. ASSUME NEW path \in Paths, TornAcquire(path)
      PROVE  reply'.op = "restart"
  BY <1>5 DEF TornAcquire
<1>6. ASSUME NEW path \in Paths, NEW owner \in Owners \cup {NoOwner}, Release(path, owner)
      PROVE  Released(rec.path) /\ reply'.owner \in {NoOwner, rec.owner}
  BY <1>6 DEF Release, MayFree
<1>7. ASSUME NEW path \in Paths, IsLockedTrue(path) \/ IsLockedFalse(path)
      PROVE  FALSE
  BY <1>1, <1>7 DEF IsLockedTrue, IsLockedFalse, LiveOf
<1>8. CASE Restart
  BY <1>8 DEF Restart
<1>9. ~Tick /\ ~UNCHANGED vars
  BY DEF Tick, vars
<1> QED
  BY <1>3, <1>4, <1>5, <1>6, <1>7, <1>8, <1>9 DEF Next

\* A live lock leaves the server's memory only through a release by its owner
\* (or one that names nobody) or a restart, never through a request, a query
\* or a failed write of another caller; with no assumption at all.
THEOREM OwnerKeepsLock == Spec => OnlyOwnerFrees
<1>1. TypeOK /\ [Next]_vars =>
        [\A rec \in mem \ mem' :
           \/ reply'.op = "restart"
           \/ ~Live(rec)
           \/ Released(rec.path) /\ reply'.owner \in {NoOwner, rec.owner}]_vars
  BY NextOnlyOwnerFrees
<1> QED
  BY <1>1, TypeCorrect, PTL DEF Spec, OnlyOwnerFrees
=============================================================================
