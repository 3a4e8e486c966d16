-------------------------- MODULE ManifestExchange --------------------------
(***************************************************************************)
(* What a client asks for, is told and plans: the snapshot of a source     *)
(* path cut out of the module's index (buildSnapshot of                    *)
(* internal/server/snapshot_indexer.go), the manifest served in pages      *)
(* (handleManifest of server.go, fetchManifest of client.go), the scan of  *)
(* the target (scanLocal of client.go) with the same exclude patterns      *)
(* (internal/filter/exclude.go), and the plan made from the two.           *)
(*                                                                         *)
(* A path is the sequence of its words, of which "/" is one: "tmpfoo" is   *)
(* two words and has the prefix "tmp", which is not a directory of it.     *)
(* The root "." is << >>.  Size, mode, mtime and checksum of a file are    *)
(* one number, its version; no file is 0.                                  *)
(***************************************************************************)
EXTENDS Integers, FiniteSets, SequencesExt

CONSTANTS
  Files,           \* the paths the module and the target may have files at
  Stores,          \* paths in .sync-http-objects and .sync-http-staging
  Reserved,        \* these two names
  Sources,         \* the source paths of requests
  Excludes,        \* their exclude patterns: see Match
  PageSizes,       \* the page sizes of clients
  ServerPageSize,  \* cfg.PageSize
  MaxPageSize,     \* 20000
  MaxVersion       \* bound on the changes of a file

ASSUME ExchangeConstants ==
  /\ IsFiniteSet(Files) /\ PageSizes \subseteq Nat
  /\ ServerPageSize \in Nat \ {0} /\ MaxPageSize \in Nat
  /\ MaxVersion \in Nat \ {0}

VARIABLES
  target,   \* the files of the target
  pc,       \* where the run of its client is
  req,      \* the client's configuration in this run
  index,    \* the module's index as its session was created
  snap,     \* the snapshot of its session
  cursor,   \* of the next page
  got,      \* the manifest as far as it was fetched
  todo,     \* toDownload
  doomed    \* toDelete

session == <<req, index, snap>>
fetched == <<cursor, got>>
plan == <<todo, doomed>>
vars == <<target, pc, session, fetched, plan>>

Versions == 0 .. MaxVersion
Paths == Files \cup Stores
NoCursor == -1
NoSnapshot == [dir |-> << >>, entries |-> << >>]

Entry(path, version) == [path |-> path, version |-> version]

\* The directories a path is in.
Dirs(path) == {SubSeq(path, 1, i - 1) : i \in {j \in 1 .. Len(path) : path[j] = "/"}}
Join(dir, path) == IF dir = << >> THEN path ELSE dir \o <<"/">> \o path
-----------------------------------------------------------------------------
(***************************************************************************)
(* Excluder.  ex.names are the paths some glob or regular expression       *)
(* matches, ex.trees what stands before the "/**" of globs; the latter is  *)
(* compared as a string.                                                   *)
(***************************************************************************)
Match(ex, path) ==
  path \in ex.names \/ \E t \in ex.trees : IsPrefix(t, path)

\* A mutant: the pattern "t/**" means nothing to the server.
ListedByName(ex, rel) == rel \notin ex.names
Listed(ex, rel) == ~Match(ex, rel)

\* A mutant: the prefix is compared without its slash.
RelLoose(path, src) ==
  IF src = << >> THEN {path}
  ELSE {rel \in Files : IsPrefix(src, path) /\ rel = SubSeq(path, Len(src) + 1, Len(path))}
\* The path as the source path sees it, if it is below it.
Rel(path, src) ==
  IF src = << >> THEN {path}
  ELSE {rel \in Files : path = src \o <<"/">> \o rel}

\* A mutant: objects are looked for in the module's root.
RootDir(src) == << >>
SourceDir(src) == src

\* moduleIndex.buildSnapshot; the order of the entries only has to be one.
buildSnapshot(files, src, ex) ==
  LET listed == {e \in [path : Files, version : Versions] :
                   /\ e.version > 0 /\ Listed(ex, e.path)
                   /\ \E f \in Files : e.path \in Rel(f, src) /\ files[f] = e.version}
  IN [dir |-> SourceDir(src), entries |-> SetToSeq(listed)]

\* filepath.WalkDir from dir: a match ends the walk at a directory, too.
Walked(dir, path, ex) ==
  \A p \in {path} \cup Dirs(path) : ~Match(ex, p)

\* BuildSnapshot of snapshot.go, which walks the directory itself.
BuildSnapshot(files, src, ex) ==
  {Entry(rel, files[Join(src, rel)]) : rel \in
     {r \in Files : Join(src, r) \in Files /\ files[Join(src, r)] > 0
                      /\ Walked(src, r, ex)}}

\* ByChecksum, and the file handleObject opens for a checksum.
ByChecksum(s, version) ==
  CHOOSE e \in ToSet(s.entries) : e.version = version
Opened(s, version) == Join(s.dir, ByChecksum(s, version).path)
-----------------------------------------------------------------------------
\* A mutant: the page after the last one is announced.
NextAtEnd(end, n) == IF end <= n THEN end ELSE NoCursor
\* A mutant: the cursor is the last entry of the page.
NextSkips(end, n) == IF end < n - 1 THEN end + 1 ELSE NoCursor
\* NextCursor, "" after the last page.
Next_(end, n) == IF end < n THEN end ELSE NoCursor

\* handleManifest: the page from the cursor on and the cursor after it.
Page(s, size, from) ==
  LET n == Len(s.entries)
      pageSize == IF size \in 1 .. MaxPageSize THEN size ELSE ServerPageSize
      first == IF from = NoCursor THEN 0 ELSE IF from > n THEN n ELSE from
      end == IF first + pageSize > n THEN n ELSE first + pageSize
  IN [entries |-> SubSeq(s.entries, first + 1, end), next |-> Next_(end, n)]

IsReserved(path) == \E r \in Reserved : IsPrefix(r, path)

\* A mutant: patterns are the server's business.
SeesAll(path, ex) == ~IsReserved(path)
\* scanLocal passes a path unless it, or a directory it is in, is reserved or
\* excluded.
Sees(path, ex) ==
  \A p \in {path} \cup Dirs(path) : ~IsReserved(p) /\ ~Match(ex, p)

scanLocal(files, ex) == {Entry(p, files[p]) : p \in
                           {q \in Paths : files[q] > 0 /\ Sees(q, ex)}}

PathsOf(entries) == {e.path : e \in entries}
toDownload(remote, local) == remote \ local
toDelete(remote, local) == PathsOf(local) \ PathsOf(remote)

\* What downloadAll and the deletions make of the target (MirrorRun).
Applied(files, downloads, deletions) ==
  [p \in Paths |->
     IF p \in PathsOf(downloads) THEN (CHOOSE e \in downloads : e.path = p).version
     ELSE IF p \in deletions THEN 0 ELSE files[p]]
-----------------------------------------------------------------------------
Requests == [src : Sources, ex : Excludes, size : PageSizes]
NoRequest == [src |-> << >>, ex |-> [names |-> {}, trees |-> {}], size |-> 0]
NoFiles == [f \in Files |-> 0]

Init ==
  /\ target \in [Paths -> 0 .. 1]
  /\ pc = "idle"
  /\ req = NoRequest /\ index = NoFiles /\ snap = NoSnapshot
  /\ cursor = NoCursor /\ got = {} /\ todo = {} /\ doomed = {}

\* A run starts.  Since the last one the module, its index and the client's
\* configuration may have become anything (SyncServer says what an index is).
CreateSession ==
  /\ pc = "idle"
  /\ index' \in [Files -> Versions] /\ req' \in Requests
  /\ snap' = buildSnapshot(index', req'.src, req'.ex)
  /\ pc' = "fetch"
  /\ UNCHANGED <<target, fetched, plan>>

FetchPage ==
  LET page == Page(snap, req.size, cursor)
  IN /\ pc = "fetch"
     /\ got' = got \cup ToSet(page.entries)
     /\ cursor' = page.next
     /\ pc' = IF page.next = NoCursor THEN "scan" ELSE "fetch"
     /\ UNCHANGED <<target, session, plan>>

\* The run returns.
Return ==
  /\ pc' = "idle"
  /\ req' = NoRequest /\ index' = NoFiles /\ snap' = NoSnapshot
  /\ cursor' = NoCursor /\ got' = {} /\ todo' = {} /\ doomed' = {}

\* The session expired, or the server was started anew: the run fails.
SnapshotGone ==
  /\ pc = "fetch"
  /\ Return
  /\ UNCHANGED target

Plan ==
  LET local == scanLocal(target, req.ex)
  IN /\ pc = "scan"
     /\ todo' = toDownload(got, local) /\ doomed' = toDelete(got, local)
     /\ pc' = "planned"
     /\ UNCHANGED <<target, session, fetched>>

\* The rest of the run; a dry run leaves the files of the target as they are,
\* and so does one that the delete guard stops.
Carry ==
  /\ pc = "planned"
  /\ target' \in {target, Applied(target, todo, doomed)}
  /\ Return

Next == CreateSession \/ FetchPage \/ SnapshotGone \/ Plan \/ Carry

Spec == Init /\ [][Next]_vars
-----------------------------------------------------------------------------
Entries == [path : Paths, version : Versions]

TypeOK ==
  /\ index \in [Files -> Versions] /\ target \in [Paths -> Versions]
  /\ req \in Requests \cup {NoRequest} /\ pc \in {"idle", "fetch", "scan", "planned"}
  /\ snap.entries \in Seq(Entries) /\ got \subseteq Entries
  /\ cursor \in {NoCursor} \cup 1 .. Len(snap.entries) - 1
  /\ todo \subseteq Entries /\ doomed \subseteq Paths

\* A directory that is excluded is excluded with all it holds.
Closed(ex) == \A f \in Files : \A d \in Dirs(f) : Match(ex, d) => Match(ex, f)

\* What the client plans from is the whole snapshot and nothing else, for every
\* page size it asks for, a size that the server refuses and an empty snapshot
\* included: an entry it missed would be deleted (server.go:515-541,
\* client.go:269-309).
PagesComplete == pc \in {"scan", "planned"} => got = ToSet(snap.entries)

\* The snapshot cut out of the index is the one that a walk of the source
\* directory would find, patterns applied to the directories on the way, if
\* excluded directories are excluded with what they hold (snapshot.go:25-86,
\* snapshot_indexer.go:72-107).
IndexedAsWalked ==
  [][pc = "idle" /\ pc' = "fetch" /\ Closed(req'.ex)
       => ToSet(snap'.entries) = BuildSnapshot(index', req'.src, req'.ex)]_vars

\* The file that is opened for the checksum of an entry is one that the index
\* knows with this checksum, though entries are relative to the source path,
\* the index is relative to the module, and entries may share a checksum
\* (snapshot_indexer.go:80-119, server.go:564-599).
ObjectsFound ==
  [][pc = "idle" /\ pc' = "fetch"
       => \A e \in ToSet(snap'.entries) : index'[Opened(snap', e.version)] = e.version]_vars

\* The files there are, as entries.
Present(files) == {Entry(p, files[p]) : p \in {q \in Paths : files[q] > 0}}

\* A run leaves the target as it was, or makes of it exactly what a walk of the
\* source directory would have found, beside what is excluded there and the
\* client's own stores: no page, prefix, pattern or difference between what
\* server and client see adds a file to the mirror or takes one away
\* (client.go:142-193, 269-342, snapshot_indexer.go:72-107).
MirrorsWalk ==
  [][pc = "planned" /\ pc' = "idle" /\ Closed(req.ex)
       => target' = target
          \/ Present(target') = BuildSnapshot(index, req.src, req.ex)
                                  \cup {e \in Present(target) : ~Sees(e.path, req.ex)}]_vars

\* A run touches no file that is excluded and never deletes what is in its own
\* stores or in an excluded directory, whatever the module holds
\* (client.go:325-342).
ExcludedUntouched ==
  /\ \A p \in doomed : \A q \in {p} \cup Dirs(p) : ~IsReserved(q) /\ ~Match(req.ex, q)
  /\ \A e \in todo : ~Match(req.ex, e.path)
=============================================================================
