----------------------------- MODULE MirrorRun -----------------------------
(***************************************************************************)
(* The runs of the client, Run of internal/client/client.go, against the   *)
(* tree of a target directory: the plan, the delete guard, the concurrent  *)
(* downloads, the promotion of objects to the paths that show them, the    *)
(* deletions and the commit; runs follow one another, and any of them may  *)
(* fail or be killed at any step.                                          *)
(*                                                                         *)
(* Mode and mtime of a file are one stamp.  All contents have one size,    *)
(* the worst case for the comparison of size, mtime and mode that decides  *)
(* what is downloaded; none is empty.  The download of one object is       *)
(* ObjectTransfer; here a part file counts when it has all the bytes.      *)
(***************************************************************************)
EXTENDS Integers, FiniteSets

CONSTANTS
  Paths,         \* numbers: a group is promoted in this order
  Under,         \* the pairs <<p, q>> of paths with p in the directory q
  Deep,          \* those with a directory between p and q
  Contents,      \* what a file may contain; an object's name
  Concurrency,   \* DownloadConcurrency
  GuardFiles,    \* DeleteGuardMinFiles
  GuardPercent,  \* DeleteGuardRatio
  MaxStamp,      \* bound on the changes of the module
  MaxFaults,     \* bound on the failures of runs
  OneSecond      \* may two files of the module be written in one second?

Gone == [content |-> "gone", stamp |-> -1]

ASSUME MirrorConstants ==
  /\ Paths \subseteq Nat /\ IsFiniteSet(Paths)
  /\ Concurrency \in Nat \ {0}
  /\ GuardFiles \in Nat /\ GuardPercent \in Nat
  /\ MaxStamp \in Nat /\ MaxFaults \in Nat
  /\ OneSecond \in BOOLEAN
  /\ Gone.content \notin Contents

ASSUME PathConstants ==
  /\ Under \subseteq Paths \X Paths /\ Deep \subseteq Under
  /\ \A p, q, r \in Paths :
       <<p, q>> \in Under /\ <<q, r>> \in Under => <<p, r>> \in Deep

VARIABLES
  source,     \* the files of the module, as the next snapshot lists them
  clock,      \* the stamp of the last change of the module
  local,      \* what every path of the target shows
  meta,       \* the stamp of every object in .sync-http-objects
  full,       \* the contents whose part file has the content's size
  husks,      \* the <<p, q>> in Deep whose directories between stand in q
  pc,         \* where the run is
  remote,     \* its manifest
  todo,       \* toDownload, as paths
  doomed,     \* the paths of toDelete that are still to be deleted
  group,      \* of every content, the state of its download group
  total,      \* len(local) at the time of the plan
  deleted,    \* res.Deleted
  failed,     \* firstErr # nil, and then the context is cancelled
  faults      \* the failures so far

module == <<source, clock>>
litter == <<full, husks>>
target == <<local, meta, litter>>
plan == <<remote, todo, doomed, total, deleted>>
vars == <<module, target, pc, plan, group, failed, faults>>

NoObject == -2
Raw == -3      \* the mode and mtime of a file that was just written
Linked == -4   \* a path that is a link to an object shows the object's stamp

Entry(content, stamp) == [content |-> content, stamp |-> stamp]
Phases == {"none", "waiting", "queued", "getting", "promoting", "done"}
NoGroup == [phase |-> "none", left |-> {}]

First(S) == CHOOSE p \in S : \A q \in S : p <= q

\* What os.Stat tells of a path: it follows a link to its object.
Seen(p) == IF local[p].stamp = Linked THEN Entry(local[p].content, meta[local[p].content])
           ELSE local[p]
Shown == {p \in Paths : local[p] # Gone}

\* A path that is a directory of the other is no file then.
Clash(p, q) == <<p, q>> \in Under \/ <<q, p>> \in Under
\* Files that a file system can hold at once.
Tree(files) == \A p, q \in Paths : Clash(p, q) => files[p] = Gone \/ files[q] = Gone

\* The directories that hold a file exist, and a directory is no file.
Standing(files, dirs) ==
  /\ \A pq \in Deep : files[pq[1]] # Gone => pq \in dirs
  /\ \A pq \in dirs, r \in Paths :
       <<pq[1], r>> \in Under =>
         files[r] = Gone /\ (<<pq[2], r>> \in Under => <<pq[1], r>> \in dirs)

\* The target may hold files of its own when the first run starts.
Init ==
  /\ source = [p \in Paths |-> Gone] /\ clock = 0
  /\ local \in [Paths -> {Gone} \cup {Entry(c, 0) : c \in Contents}] /\ Tree(local)
  /\ meta = [c \in Contents |-> NoObject] /\ full = {}
  /\ husks \in SUBSET Deep /\ Standing(local, husks)
  /\ pc = "idle"
  /\ remote = [p \in Paths |-> Gone] /\ todo = {} /\ doomed = {}
  /\ total = 0 /\ deleted = 0
  /\ group = [c \in Contents |-> NoGroup]
  /\ failed = FALSE /\ faults = 0

\* Run has returned, or the process is gone.
Return(state) ==
  /\ pc' = state
  /\ remote' = remote /\ todo' = {} /\ doomed' = {} /\ total' = 0 /\ deleted' = 0
  /\ group' = [c \in Contents |-> NoGroup]
  /\ failed' = FALSE

InPhase(ps) == {c \in Contents : group[c].phase \in ps}
-----------------------------------------------------------------------------
(* A session is created and its manifest is fetched page by page. *)
Start ==
  /\ pc = "idle"
  /\ remote' = source /\ pc' = "scan"
  /\ UNCHANGED <<module, target, todo, doomed, total, deleted, group, failed, faults>>

\* A mutant: only files that are missing are downloaded.
Absent(p) == local[p] = Gone
\* The comparison of a local file with its manifest entry.
Differs(p) == Seen(p).stamp # remote[p].stamp

\* A mutant: the guard is off at exactly the minimal number of files.
TrippedAbove(files, planned) ==
  planned > 0 /\ files > GuardFiles /\ planned * 100 > GuardPercent * files
\* enforceDeleteGuard
Tripped(files, planned) ==
  planned > 0 /\ files >= GuardFiles /\ planned * 100 > GuardPercent * files

\* scanLocal, the plan, the guard and the staging directory.
Plan ==
  LET wanted == {p \in Paths : remote[p] # Gone /\ Differs(p)}
      unknown == {p \in Shown : remote[p] = Gone}
  IN /\ pc = "scan"
     /\ IF Tripped(Cardinality(Shown), Cardinality(unknown))
        THEN Return("idle")
        ELSE /\ pc' = "download"
             /\ todo' = wanted /\ doomed' = unknown
             /\ total' = Cardinality(Shown) /\ deleted' = 0
             /\ group' = [c \in Contents |->
                  LET paths == {p \in wanted : remote[p].content = c}
                  IN [phase |-> IF paths = {} THEN "none" ELSE "waiting", left |-> paths]]
             /\ UNCHANGED <<remote, failed>>
     /\ UNCHANGED <<module, target, faults>>
-----------------------------------------------------------------------------
(***************************************************************************)
(* downloadAll: the loop over the groups looks at the context and waits    *)
(* for the semaphore; each group then runs on its own.                     *)
(***************************************************************************)
Step(c, phase) == group' = [group EXCEPT ![c].phase = phase]

Pick(c) ==
  /\ pc = "download" /\ ~failed
  /\ group[c].phase = "waiting" /\ InPhase({"queued"}) = {}
  /\ Step(c, "queued")
  /\ UNCHANGED <<module, target, pc, plan, failed, faults>>

Launch(c) ==
  /\ group[c].phase = "queued"
  /\ Cardinality(InPhase({"getting", "promoting"})) < Concurrency
  /\ Step(c, "getting")
  /\ UNCHANGED <<module, target, pc, plan, failed, faults>>

\* A mutant: the part file is not renamed to the object.
Unmoved(c) == meta[c]
\* downloadObject takes a stored object, or downloads and stores it.
Obtained(c) == IF meta[c] = NoObject THEN Raw ELSE meta[c]

Get(c) ==
  /\ group[c].phase = "getting"
  /\ meta[c] # NoObject \/ (~failed /\ c \notin full)
  /\ meta' = [meta EXCEPT ![c] = Obtained(c)]
  /\ Step(c, "promoting")
  /\ UNCHANGED <<module, local, litter, pc, plan, failed, faults>>

\* An object cannot be had: the context is done, or the part file has all the
\* bytes and the server answers 416, or a fault.  It may leave such a part.
GetFails(c) ==
  /\ group[c].phase = "getting" /\ meta[c] = NoObject
  /\ IF failed \/ c \in full THEN faults' = faults
     ELSE faults < MaxFaults /\ faults' = faults + 1
  /\ full' \in {full, full \cup {c}}
  /\ failed' = TRUE
  /\ Step(c, "done")
  /\ UNCHANGED <<module, local, meta, husks, pc, plan>>

\* os.MkdirAll meets a file, or os.Remove a directory with a file or another
\* directory in it.
Blocked(p) == (\E q \in Shown : Clash(p, q)) \/ \E q \in Paths : <<q, p>> \in husks

\* promoteObjectToEntries makes the directories of a path, removes what is at
\* the path, and links it, one path after the other.
AtPath(c, p) ==
  group[c].phase = "promoting" /\ group[c].left # {} /\ p = First(group[c].left)

\* The directories of p are made, an empty one at p is removed.
Husks(p) == {pq \in husks : <<pq[1], p>> \notin Under} \cup {pq \in Deep : pq[1] = p}
Cleared(p) == local[p] = Gone /\ Husks(p) = husks

Remove(c) ==
  \E p \in Paths :
    /\ AtPath(c, p) /\ ~Blocked(p)
    /\ ~Cleared(p)
    /\ local' = [local EXCEPT ![p] = Gone] /\ husks' = Husks(p)
    /\ UNCHANGED <<module, meta, full, pc, plan, group, failed, faults>>

Link(c) ==
  \E p \in Paths :
    /\ AtPath(c, p) /\ ~Blocked(p)
    /\ Cleared(p)
    /\ local' = [local EXCEPT ![p] = Entry(c, Linked)]
    /\ group' = [group EXCEPT ![c].left = @ \ {p}]
    /\ UNCHANGED <<module, meta, litter, pc, plan, failed, faults>>

\* A mutant: mode and mtime are those of the path, not of the manifest.
LocalStamp(c) == local[First({p \in todo : remote[p].content = c})].stamp
\* A mutant: an object that was there keeps its mode and mtime.
OldStamp(c) ==
  IF meta[c] # Raw THEN meta[c]
  ELSE remote[First({p \in todo : remote[p].content = c})].stamp
\* The group's first entry sets the mode and mtime of the object.
FirstStamp(c) == remote[First({p \in todo : remote[p].content = c})].stamp

Stamp(c) ==
  /\ group[c].phase = "promoting" /\ group[c].left = {}
  /\ meta' = [meta EXCEPT ![c] = FirstStamp(c)]
  /\ Step(c, "done")
  /\ UNCHANGED <<module, local, litter, pc, plan, failed, faults>>

\* A file operation of the promotion fails, because of what is in the way of
\* the path or for any other reason.
PromoteFails(c) ==
  /\ group[c].phase = "promoting"
  /\ IF \E p \in Paths : AtPath(c, p) /\ Blocked(p) THEN faults' = faults
     ELSE faults < MaxFaults /\ faults' = faults + 1
  /\ failed' = TRUE
  /\ Step(c, "done")
  /\ UNCHANGED <<module, target, pc, plan>>

\* A mutant: the error of a group is forgotten.
NoError == TRUE
\* downloadAll returns no error.
Succeeded == ~failed

\* wg.Wait after the loop, which has ended or was left.
Downloaded ==
  /\ pc = "download"
  /\ InPhase({"queued", "getting", "promoting"}) = {}
  /\ failed \/ InPhase({"waiting"}) = {}
  /\ IF Succeeded
     THEN pc' = "delete" /\ UNCHANGED <<plan, group, failed>>
     ELSE Return("idle")
  /\ UNCHANGED <<module, target, faults>>
-----------------------------------------------------------------------------
(* The deletions, of files only and with errors ignored, and the commit. *)
Delete ==
  /\ pc = "delete" /\ doomed # {}
  /\ doomed' = doomed \ {First(doomed)}
  /\ \/ /\ local' = [local EXCEPT ![First(doomed)] = Gone]
        /\ deleted' = deleted + 1 /\ faults' = faults
     \/ /\ faults < MaxFaults /\ faults' = faults + 1
        /\ UNCHANGED <<local, deleted>>
  /\ UNCHANGED <<module, meta, litter, pc, remote, todo, total, group, failed>>

Commit ==
  /\ pc = "delete" /\ doomed = {}
  /\ Return("done")
  /\ UNCHANGED <<module, target, faults>>

\* A request fails after its retries, or the process is killed; objects that
\* had all arrived are then still part files.
Kill ==
  /\ pc \notin {"idle", "done"}
  /\ faults < MaxFaults /\ faults' = faults + 1
  /\ \E received \in SUBSET {c \in InPhase({"getting"}) : meta[c] = NoObject} :
       full' = full \cup received
  /\ Return("idle")
  /\ UNCHANGED <<module, local, meta, husks>>

Again ==
  /\ pc = "done" /\ pc' = "idle"
  /\ UNCHANGED <<module, target, plan, group, failed, faults>>
-----------------------------------------------------------------------------
(* The module changes: every write of a file gives it a later stamp. *)
Write(p, content) ==
  \E stamp \in clock .. clock + 1 :
    /\ 0 < stamp /\ stamp <= MaxStamp
    /\ stamp = clock + 1 \/ (OneSecond /\ source[p] # Gone /\ source[p].stamp < stamp)
    /\ source' = [source EXCEPT ![p] = Entry(content, stamp)] /\ Tree(source')
    /\ clock' = stamp
    /\ UNCHANGED <<target, pc, plan, group, failed, faults>>

Erase(p) ==
  /\ source[p] # Gone /\ clock < MaxStamp
  /\ source' = [source EXCEPT ![p] = Gone]
  /\ clock' = clock + 1
  /\ UNCHANGED <<target, pc, plan, group, failed, faults>>

Group(c) ==
  \/ Pick(c) \/ Launch(c) \/ Get(c) \/ GetFails(c)
  \/ Remove(c) \/ Link(c) \/ Stamp(c) \/ PromoteFails(c)

Run ==
  \/ Start \/ Plan
  \/ \E c \in Contents : Group(c)
  \/ Downloaded \/ Delete \/ Commit \/ Again

Next ==
  \/ Run
  \/ Kill
  \/ \E p \in Paths : Erase(p) \/ \E content \in Contents : Write(p, content)

Spec == Init /\ [][Next]_vars

\* A run goes on, and the scheduler starts the next one after it.
FairSpec == Spec /\ WF_vars(Run)
-----------------------------------------------------------------------------
Entries == {Gone} \cup [content : Contents, stamp : 1 .. MaxStamp]

TypeOK ==
  /\ source \in [Paths -> Entries] /\ clock \in 0 .. MaxStamp
  /\ local \in [Paths -> {Gone} \cup [content : Contents, stamp : {0, Linked}]]
  /\ meta \in [Contents -> {NoObject, Raw} \cup 1 .. MaxStamp]
  /\ full \subseteq Contents /\ husks \subseteq Deep
  /\ pc \in {"idle", "scan", "download", "delete", "done"}
  /\ remote \in [Paths -> Entries]
  /\ todo \subseteq Paths /\ doomed \subseteq Paths
  /\ group \in [Contents -> [phase : Phases, left : SUBSET Paths]]
  /\ total \in 0 .. Cardinality(Paths) /\ deleted \in 0 .. total
  /\ failed \in BOOLEAN /\ faults \in 0 .. MaxFaults

\* Every link of the target leads to an object, whichever run put it there and
\* wherever that run stopped (client.go:547-562).
LinksResolve ==
  \A p \in Paths : local[p].stamp = Linked => meta[local[p].content] # NoObject

Store(c) == INSTANCE ObjectStore WITH
  Wanted <- c, stored <- IF meta[c] = NoObject THEN {} ELSE {c}

Holds(p) == local[p] # Gone /\ local[p].content = remote[p].content

\* What a reader of the target sees of a run.
ContentsOf(files) == [p \in Paths |-> files[p].content]
Stage ==
  IF pc \in {"scan", "download"} THEN "working" ELSE IF pc = "delete" THEN "clean" ELSE pc

Promise == INSTANCE MirrorPromise WITH
  files <- ContentsOf(local), manifest <- ContentsOf(remote), stage <- Stage,
  NoFile <- Gone.content

\* Run after run keeps what MirrorPromise says, with faults and kills anywhere:
\* the only file a path of the manifest gets is the manifest's, a file that the
\* module lost is deleted only when every file that the module has is there with
\* its content, and only then success is reported (README.md:186,
\* client.go:142-204, 528-576).  For a moment, and after a kill until the next
\* run, a path may have no file: ReplacedAtomically is about that.
ImplementsPromise == Promise!Spec

\* A run never deletes more than the guard's share of the files there were
\* (README.md:368-373, client.go:362-374).
GuardKept ==
  total >= GuardFiles => deleted * 100 <= GuardPercent * total

\* After a run that reports success every file of its manifest is in the target
\* with the manifest's content (README.md:3, client.go:142-148, 176-204).
MirrorExact ==
  pc = "done" => \A p \in Paths : remote[p] # Gone => Holds(p)

\* After a run that reports success a file whose content no other file of the
\* manifest has shows its own mode and mtime; one that shares its content shows
\* those of one of the sharers.  Never does a file show those of its download or
\* of an older manifest, whatever runs failed before (client.go:564-576).
StampsOfContent ==
  pc = "done" => \A p \in Paths : remote[p] # Gone =>
    \E q \in Paths : remote[q] = Entry(remote[p].content, Seen(p).stamp)

\* The promotion verifies the checksum, updates mode and mtime and then replaces
\* the file of the target atomically (README.md:185): a reader of a file that is
\* replaced sees the old file or the one of the manifest with its mode and
\* mtime, and never no file (client.go:528-576).
ReplacedAtomically ==
  [][\A p \in todo : local[p] # Gone => Seen(p)' \in {Seen(p), remote[p]}]_vars

Mirrored ==
  \A p \in Paths : (local[p] = Gone /\ source[p] = Gone)
                     \/ (local[p] # Gone /\ local[p].content = source[p].content)

\* Would the delete guard stop a run that started now?
Guarded == Tripped(Cardinality(Shown), Cardinality({p \in Shown : source[p] = Gone}))

\* Does the target have a file where the module has a directory, or the other
\* way round, be it one whose files are deleted, but not the directories in it?
\* Downloads come before deletions, and every run fails at it.
Clashing == \E p \in Paths : source[p] # Gone /\ Blocked(p)

\* Is there a part file that every run asks the server to extend beyond its end?
Stuck ==
  \E p \in Paths : /\ source[p] # Gone /\ source[p].content \in full
                    /\ meta[source[p].content] = NoObject

\* When the module and the faults have come to rest the target becomes its
\* mirror, the deletions included, unless the guard stops every run, or a file
\* and a directory are in each other's way, or a run ended between the last byte
\* of an object and its rename (README.md:3, client.go:480-545, 550-555).
EventuallyMirrored == []<>(Mirrored \/ Guarded \/ Clashing \/ Stuck)
=============================================================================
