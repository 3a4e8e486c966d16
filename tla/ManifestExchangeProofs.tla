----------------------- MODULE ManifestExchangeProofs ------------------------
(***************************************************************************)
(* For any paths, patterns, page sizes and contents: the client plans from *)
(* the whole snapshot, the snapshot is what a walk would find, and a run   *)
(* that is carried out makes the target what the walk would find.          *)
(***************************************************************************)
EXTENDS ManifestExchange, FiniteSetTheorems, FunctionTheorems, SequenceTheorems, TLAPS

\* A module has no files where clients keep theirs.
NoReservedFiles == \A f \in Files : \A p \in {f} \cup Dirs(f) : ~IsReserved(p)

\* A finite set as a sequence.
LEMMA SetAsSeq ==
  ASSUME NEW S, IsFiniteSet(S)
  PROVE  SetToSeq(S) \in Seq(S) /\ ToSet(SetToSeq(S)) = S
<1> DEFINE n == Cardinality(S)
           f == SetToSeq(S)
<1>1. n \in Nat
  BY FS_CardinalityType
<1>2. ExistsBijection(1 .. n, S)
  BY FS_CardinalityType
<1>3. PICK g \in Bijection(1 .. n, S) : TRUE
  BY <1>2 DEF ExistsBijection
<1>4. g \in [1 .. n -> S] /\ IsInjective(g)
  BY <1>3 DEF Bijection, Injection
<1>5. f \in [1 .. n -> S] /\ IsInjective(f)
  BY <1>4 DEF SetToSeq
<1>6. f \in Seq(S)
  BY <1>1, <1>5
<1>7. IsFiniteSet(1 .. n) /\ Cardinality(1 .. n) = n
  BY <1>1, FS_Interval
<1>8. f \in Injection(1 .. n, S)
  BY <1>5 DEF Injection
<1>9. f \in Surjection(1 .. n, S)
  BY <1>7, <1>8, FS_Injection
<1>10. ToSet(f) = S
  BY <1>5, <1>9 DEF ToSet, Surjection
<1> QED  BY <1>6, <1>10

LEMMA EntriesFinite == IsFiniteSet([path : Files, version : Versions])
<1> DEFINE E == [path : Files, version : Versions]
           f == [x \in Files \X Versions |-> Entry(x[1], x[2])]
<1>1. IsFiniteSet(Files) /\ IsFiniteSet(Versions)
  BY ExchangeConstants, FS_Interval DEF Versions
<1>2. IsFiniteSet(Files \X Versions)
  BY <1>1, FS_Product
<1>3. \A e \in E : \E x \in Files \X Versions : f[x] = e
  <2> SUFFICES ASSUME NEW e \in E PROVE f[<<e.path, e.version>>] = e
    OBVIOUS
  <2> QED  BY DEF Entry
<1>4. f \in [Files \X Versions -> E]
  BY DEF Entry
<1>5. f \in Surjection(Files \X Versions, E)
  BY <1>3, <1>4, Fun_IsSurj
<1> QED  BY <1>2, <1>5, FS_Surjection
-----------------------------------------------------------------------------
\* What a snapshot lists.
ListedIn(files, src, ex) ==
  {e \in [path : Files, version : Versions] :
     /\ e.version > 0 /\ Listed(ex, e.path)
     /\ \E f \in Files : e.path \in Rel(f, src) /\ files[f] = e.version}

LEMMA SnapshotLists ==
  ASSUME NEW files, NEW src, NEW ex
  PROVE  LET s == buildSnapshot(files, src, ex)
         IN /\ s.dir = SourceDir(src)
            /\ s.entries \in Seq(ListedIn(files, src, ex))
            /\ ToSet(s.entries) = ListedIn(files, src, ex)
<1>1. IsFiniteSet(ListedIn(files, src, ex))
  BY EntriesFinite, FS_Subset DEF ListedIn
<1> QED  BY <1>1, SetAsSeq DEF buildSnapshot, ListedIn

\* A path of the source directory is one path of the module.
LEMMA RelIsJoin ==
  ASSUME NEW f \in Files, NEW src, NEW rel
  PROVE  rel \in Rel(f, src) <=>
           IF src = << >> THEN rel = f ELSE rel \in Files /\ f = Join(src, rel)
BY DEF Rel, Join

LEMMA OnePerPath ==
  ASSUME NEW files, NEW src, NEW ex,
         NEW d \in ListedIn(files, src, ex), NEW e \in ListedIn(files, src, ex),
         d.path = e.path
  PROVE  d = e
<1>1. PICK f \in Files : d.path \in Rel(f, src) /\ files[f] = d.version
  BY DEF ListedIn
<1>2. PICK g \in Files : e.path \in Rel(g, src) /\ files[g] = e.version
  BY DEF ListedIn
<1>3. f = g
  BY <1>1, <1>2, RelIsJoin
<1> QED  BY <1>1, <1>2, <1>3 DEF ListedIn

\* The entries a walk of the source directory makes.
LEMMA ListedIsWalked ==
  ASSUME NEW files \in [Files -> Versions], NEW src, NEW ex, Closed(ex)
  PROVE  ListedIn(files, src, ex) = BuildSnapshot(files, src, ex)
<1> DEFINE found == {r \in Files : /\ Join(src, r) \in Files /\ files[Join(src, r)] > 0
                                   /\ Walked(src, r, ex)}
<1>1. \A r \in Files : Listed(ex, r) <=> Walked(src, r, ex)
  BY DEF Closed, Listed, Walked
<1>2. ASSUME NEW e \in ListedIn(files, src, ex)
      PROVE  e \in BuildSnapshot(files, src, ex)
  <2>1. e.path \in Files /\ e.version > 0 /\ Listed(ex, e.path)
    BY DEF ListedIn
  <2>2. PICK f \in Files : e.path \in Rel(f, src) /\ files[f] = e.version
    BY DEF ListedIn
  <2>3. f = Join(src, e.path)
    BY <2>2, RelIsJoin DEF Join
  <2>4. e.path \in found
    BY <1>1, <2>1, <2>2, <2>3
  <2>5. e = Entry(e.path, files[Join(src, e.path)])
    BY <2>2, <2>3 DEF ListedIn, Entry
  <2> QED  BY <2>4, <2>5 DEF BuildSnapshot
<1>3. ASSUME NEW e \in BuildSnapshot(files, src, ex)
      PROVE  e \in ListedIn(files, src, ex)
  <2>1. PICK r \in found : e = Entry(r, files[Join(src, r)])
    BY DEF BuildSnapshot
  <2>2. r \in Rel(Join(src, r), src)
    BY <2>1, RelIsJoin DEF Join
  <2>3. e.path = r /\ e.version = files[Join(src, r)] /\ e \in [path : Files, version : Versions]
    BY <2>1 DEF Entry
  <2> QED  BY <1>1, <2>1, <2>2, <2>3 DEF ListedIn
<1> QED  BY <1>2, <1>3
-----------------------------------------------------------------------------
\* The first k entries of a sequence.
FirstOf(entries, k) == {entries[i] : i \in 1 .. k}
Reached(from) == IF from = NoCursor THEN 0 ELSE from

\* A page goes on where the last one ended, and the last page ends with the
\* last entry.
LEMMA PageGoesOn ==
  ASSUME NEW s, NEW E, s.entries \in Seq(E), NEW size \in Nat,
         NEW from \in {NoCursor} \cup 1 .. Len(s.entries) - 1
  PROVE  LET page == Page(s, size, from)
             n == Len(s.entries)
         IN /\ page.next \in {NoCursor} \cup 1 .. n - 1
            /\ FirstOf(s.entries, Reached(from)) \cup ToSet(page.entries)
                 = FirstOf(s.entries, IF page.next = NoCursor THEN n ELSE page.next)
<1> DEFINE n == Len(s.entries)
           pageSize == IF size \in 1 .. MaxPageSize THEN size ELSE ServerPageSize
           first == IF from = NoCursor THEN 0 ELSE IF from > n THEN n ELSE from
           end == IF first + pageSize > n THEN n ELSE first + pageSize
           page == Page(s, size, from)
<1>1. n \in Nat /\ pageSize \in Nat \ {0}
  BY ExchangeConstants
<1>2. first \in Nat /\ first = Reached(from) /\ first <= n
  BY <1>1 DEF Reached, NoCursor
<1>3. end \in Nat /\ first <= end /\ end <= n /\ (end < n => end >= 1)
  BY <1>1, <1>2
<1>4. page.next = Next_(end, n) /\ page.entries = SubSeq(s.entries, first + 1, end)
  BY DEF Page
<1>5. page.next \in {NoCursor} \cup 1 .. n - 1
  BY <1>1, <1>3, <1>4 DEF Next_
<1>6. (IF page.next = NoCursor THEN n ELSE page.next) = end
  BY <1>1, <1>3, <1>4 DEF Next_, NoCursor
<1>7. ToSet(page.entries) = {s.entries[i] : i \in first + 1 .. end}
  <2> DEFINE sub == SubSeq(s.entries, first + 1, end)
  <2>0. \A i \in first + 1 .. end : s.entries[i] \in E
    <3>1. first + 1 .. end \subseteq 1 .. n
      BY <1>1, <1>2, <1>3
    <3> HIDE DEF end, first
    <3> QED  BY <3>1
  <2>1. /\ sub \in Seq(E) /\ Len(sub) = end - first
        /\ \A i \in 1 .. end - first : sub[i] = s.entries[first + i]
    <3>1. first \in Int /\ end \in Int /\ first <= end /\ first + 1 \in Int
      BY <1>2, <1>3
    <3> HIDE DEF end, first
    <3>2. /\ sub \in Seq(E)
          /\ Len(sub) = IF first + 1 <= end THEN end - (first + 1) + 1 ELSE 0
          /\ \A i \in 1 .. end - (first + 1) + 1 : sub[i] = s.entries[(first + 1) + i - 1]
      BY <2>0, <3>1, SubSeqProperties
    <3>3. end - (first + 1) + 1 = end - first
      BY <3>1
    <3>4. \A i \in 1 .. end - first : (first + 1) + i - 1 = first + i
      BY <3>1
    <3> HIDE DEF sub
    <3>5. Len(sub) = end - first
      BY <3>1, <3>2
    <3>6. \A i \in 1 .. end - first : sub[i] = s.entries[first + i]
      <4> SUFFICES ASSUME NEW i \in 1 .. end - first
                   PROVE  sub[i] = s.entries[first + i]
        OBVIOUS
      <4>1. sub[i] = s.entries[(first + 1) + i - 1]
        BY <3>2, <3>3
      <4>2. (first + 1) + i - 1 = first + i
        BY <3>4
      <4> QED  BY <4>1, <4>2
    <3> QED  BY <3>2, <3>5, <3>6
  <2>2. ToSet(sub) = {s.entries[first + i] : i \in 1 .. end - first}
    <3> HIDE DEF end, first, sub
    <3>1. DOMAIN sub = 1 .. end - first
      BY <2>1
    <3> QED  BY <2>1, <3>1 DEF ToSet
  <2>3. \A i \in first + 1 .. end : i - first \in 1 .. end - first /\ first + (i - first) = i
    BY <1>2, <1>3
  <2>4. \A i \in 1 .. end - first : first + i \in first + 1 .. end
    BY <1>2, <1>3
  <2>5. {s.entries[first + i] : i \in 1 .. end - first}
          = {s.entries[i] : i \in first + 1 .. end}
    <3>1. ASSUME NEW i \in first + 1 .. end
          PROVE  s.entries[i] \in {s.entries[first + j] : j \in 1 .. end - first}
      <4>1. s.entries[i] = s.entries[first + (i - first)] /\ i - first \in 1 .. end - first
        BY <2>3
      <4> HIDE DEF end, first
      <4> QED  BY <4>1
    <3> QED  BY <2>4, <3>1
  <2> QED  BY <1>4, <2>2, <2>5
<1>8. FirstOf(s.entries, end)
        = FirstOf(s.entries, first) \cup {s.entries[i] : i \in first + 1 .. end}
  <2>1. 1 .. end = (1 .. first) \cup (first + 1 .. end)
    BY <1>2, <1>3
  <2> HIDE DEF end, first
  <2> QED  BY <2>1 DEF FirstOf
<1> HIDE DEF end, first, page, pageSize, n
<1>9. FirstOf(s.entries, Reached(from)) \cup ToSet(page.entries) = FirstOf(s.entries, end)
  BY <1>2, <1>7, <1>8
<1> QED  BY <1>5, <1>6, <1>9 DEF n, page
-----------------------------------------------------------------------------
Typed ==
  /\ target \in [Paths -> Versions] /\ index \in [Files -> Versions]
  /\ req \in Requests \cup {NoRequest} /\ pc \in {"idle", "fetch", "scan", "planned"}
  /\ cursor \in {NoCursor} \cup 1 .. Len(snap.entries) - 1

\* Where the parts of a run come from.
Derived ==
  /\ pc = "idle" => /\ cursor = NoCursor /\ got = {} /\ todo = {} /\ doomed = {}
                    /\ snap = NoSnapshot
  /\ pc # "idle" => snap = buildSnapshot(index, req.src, req.ex) /\ req \in Requests
  /\ pc = "fetch" => got = FirstOf(snap.entries, Reached(cursor))
  /\ pc \in {"idle", "fetch", "scan"} => todo = {} /\ doomed = {}
  /\ pc = "planned" => /\ todo = toDownload(got, scanLocal(target, req.ex))
                       /\ doomed = toDelete(got, scanLocal(target, req.ex))

EInv == Typed /\ Derived /\ PagesComplete

LEMMA InitHolds == Init => EInv
<1> SUFFICES ASSUME Init PROVE EInv
  OBVIOUS
<1>1. \A f \in [Paths -> 0 .. 1] : f \in [Paths -> Versions]
  BY ExchangeConstants DEF Versions
<1>2. index \in [Files -> Versions]
  BY ExchangeConstants DEF Init, NoFiles, Versions
<1> QED  BY <1>1, <1>2 DEF Init, EInv, Typed, Derived, PagesComplete, NoSnapshot

\* The entries of the snapshot, and of what was fetched of it.
LEMMA SnapshotEntries ==
  ASSUME EInv, pc # "idle"
  PROVE  /\ snap.entries \in Seq(ListedIn(index, req.src, req.ex))
         /\ ToSet(snap.entries) = ListedIn(index, req.src, req.ex)
         /\ got \subseteq ListedIn(index, req.src, req.ex)
<1>1. /\ snap.entries \in Seq(ListedIn(index, req.src, req.ex))
      /\ ToSet(snap.entries) = ListedIn(index, req.src, req.ex)
  BY SnapshotLists DEF EInv, Derived
<1>2. CASE pc = "fetch"
  <2>1. Reached(cursor) \in 0 .. Len(snap.entries)
    BY <1>1 DEF EInv, Typed, Reached, NoCursor
  <2>2. \A i \in 1 .. Reached(cursor) : snap.entries[i] \in ListedIn(index, req.src, req.ex)
    BY <1>1, <2>1
  <2> QED  BY <1>1, <1>2, <2>2 DEF EInv, Derived, FirstOf
<1>3. CASE pc # "fetch"
  BY <1>1, <1>3 DEF EInv, Typed, PagesComplete
<1> QED  BY <1>1, <1>2, <1>3

LEMMA EntryFields ==
  \A p, v : Entry(p, v).path = p /\ Entry(p, v).version = v
BY DEF Entry

\* What the target becomes is a tree of files.
LEMMA AppliedTyped ==
  ASSUME EInv, pc = "planned"
  PROVE  Applied(target, todo, doomed) \in [Paths -> Versions]
<1>1. todo \subseteq ListedIn(index, req.src, req.ex)
  BY SnapshotEntries DEF EInv, Derived, toDownload
<1>2. \A e \in todo : e.version \in Versions
  BY <1>1 DEF ListedIn
<1>3. \A p \in PathsOf(todo) : (CHOOSE e \in todo : e.path = p).version \in Versions
  BY <1>2 DEF PathsOf
<1>4. 0 \in Versions
  BY ExchangeConstants DEF Versions
<1> QED  BY <1>3, <1>4 DEF Applied, EInv, Typed

LEMMA StepHolds == EInv /\ [Next]_vars => EInv'
<1> SUFFICES ASSUME EInv, [Next]_vars PROVE EInv'
  OBVIOUS
<1>1. CASE CreateSession
  <2>1. req' \in Requests /\ index' \in [Files -> Versions] /\ pc' = "fetch"
        /\ snap' = buildSnapshot(index', req'.src, req'.ex)
        /\ UNCHANGED <<target, cursor, got, todo, doomed>>
    BY <1>1 DEF CreateSession, fetched, plan
  <2>2. cursor' = NoCursor /\ got' = {} /\ todo' = {} /\ doomed' = {}
    BY <1>1, <2>1 DEF EInv, Derived, CreateSession
  <2>3. Typed'
    BY <2>1, <2>2 DEF EInv, Typed
  <2>4. got' = FirstOf(snap'.entries, Reached(cursor'))
    BY <2>2 DEF FirstOf, Reached
  <2> QED  BY <2>1, <2>2, <2>3, <2>4 DEF EInv, Derived, PagesComplete
<1>2. CASE FetchPage
  <2> DEFINE page == Page(snap, req.size, cursor)
             n == Len(snap.entries)
  <2>1. /\ pc = "fetch" /\ got' = got \cup ToSet(page.entries) /\ cursor' = page.next
        /\ pc' = (IF page.next = NoCursor THEN "scan" ELSE "fetch")
        /\ UNCHANGED <<target, req, index, snap, todo, doomed>>
    BY <1>2 DEF FetchPage, session, plan
  <2>2. req.size \in Nat
    BY <2>1, ExchangeConstants DEF EInv, Derived, Requests
  <2>3. snap.entries \in Seq(ListedIn(index, req.src, req.ex))
    BY <2>1, SnapshotEntries
  <2>4. cursor \in {NoCursor} \cup 1 .. n - 1
    BY DEF EInv, Typed
  <2>5. /\ page.next \in {NoCursor} \cup 1 .. n - 1
        /\ FirstOf(snap.entries, Reached(cursor)) \cup ToSet(page.entries)
             = FirstOf(snap.entries, IF page.next = NoCursor THEN n ELSE page.next)
    BY <2>2, <2>3, <2>4, PageGoesOn
  <2>6. got' = FirstOf(snap.entries, IF cursor' = NoCursor THEN n ELSE cursor')
    BY <2>1, <2>5 DEF EInv, Derived
  <2>7. FirstOf(snap.entries, n) = ToSet(snap.entries)
    BY <2>3 DEF FirstOf, ToSet
  <2>8. Typed'
    BY <2>1, <2>5 DEF EInv, Typed
  <2>9. PagesComplete'
    BY <2>1, <2>6, <2>7 DEF PagesComplete
  <2>10. Derived'
    BY <2>1, <2>6 DEF EInv, Derived, Reached
  <2> QED  BY <2>8, <2>9, <2>10 DEF EInv
<1>3. CASE Return /\ target' \in [Paths -> Versions]
  <2>1. NoFiles \in [Files -> Versions]
    BY ExchangeConstants DEF NoFiles, Versions
  <2> QED  BY <1>3, <2>1 DEF Return, EInv, Typed, Derived, PagesComplete
<1>4. CASE SnapshotGone
  BY <1>3, <1>4 DEF SnapshotGone, EInv, Typed
<1>5. CASE Plan
  BY <1>5 DEF Plan, session, fetched, EInv, Typed, Derived, PagesComplete
<1>6. CASE Carry
  BY <1>3, <1>6, AppliedTyped DEF Carry, EInv, Typed
<1>7. CASE UNCHANGED vars
  BY <1>7 DEF vars, session, fetched, plan, EInv, Typed, Derived, PagesComplete
<1> QED  BY <1>1, <1>2, <1>4, <1>5, <1>6, <1>7 DEF Next

LEMMA AlwaysHolds == Spec => []EInv
BY InitHolds, StepHolds, PTL DEF Spec
-----------------------------------------------------------------------------
\* The client plans from the whole snapshot, for every page size.
THEOREM NoEntryMissed == Spec => []PagesComplete
<1>1. EInv => PagesComplete
  BY DEF EInv
<1> QED  BY <1>1, AlwaysHolds, PTL

\* Snapshots, manifests and plans are made of entries, and the cursor is a place
\* in the middle of the snapshot.
THEOREM ExchangeTypeCorrect == Spec => []TypeOK
<1>1. EInv => TypeOK
  <2> SUFFICES ASSUME EInv PROVE TypeOK
    OBVIOUS
  <2>1. \A files, src, ex : ListedIn(files, src, ex) \subseteq Entries
    BY DEF ListedIn, Entries, Paths
  <2>2. snap.entries \in Seq(Entries) /\ got \subseteq Entries /\ todo \subseteq Entries
    <3>1. CASE pc = "idle"
      <4>1. snap.entries = << >> /\ got = {} /\ todo = {}
        BY <3>1 DEF EInv, Derived, NoSnapshot
      <4> QED  BY <4>1
    <3>2. CASE pc # "idle"
      <4>1. snap.entries \in Seq(ListedIn(index, req.src, req.ex))
        BY <3>2, SnapshotEntries
      <4>2. snap.entries \in Seq(Entries)
        BY <2>1, <4>1
      <4>3. todo \subseteq got
        BY <3>2 DEF EInv, Typed, Derived, toDownload
      <4> QED  BY <2>1, <3>2, <4>2, <4>3, SnapshotEntries
    <3> QED  BY <3>1, <3>2
  <2>3. doomed \subseteq Paths
    <3>1. PathsOf(scanLocal(target, req.ex)) \subseteq Paths
      BY EntryFields DEF PathsOf, scanLocal
    <3> QED  BY <3>1 DEF EInv, Typed, Derived, toDelete
  <2> QED  BY <2>2, <2>3 DEF EInv, Typed, TypeOK
<1> QED  BY <1>1, AlwaysHolds, PTL

\* The snapshot is what a walk of the source directory finds.
THEOREM SnapshotIsWalk == Spec => IndexedAsWalked
<1>1. EInv /\ [Next]_vars =>
        [pc = "idle" /\ pc' = "fetch" /\ Closed(req'.ex)
           => ToSet(snap'.entries) = BuildSnapshot(index', req'.src, req'.ex)]_vars
  <2> SUFFICES ASSUME Next, pc = "idle", pc' = "fetch", Closed(req'.ex)
               PROVE  ToSet(snap'.entries) = BuildSnapshot(index', req'.src, req'.ex)
    BY DEF vars
  <2>1. CreateSession
    BY DEF Next, FetchPage, SnapshotGone, Plan, Carry
  <2> QED  BY <2>1, SnapshotLists, ListedIsWalked DEF CreateSession
<1> QED  BY <1>1, AlwaysHolds, PTL DEF Spec, IndexedAsWalked

\* The file opened for an entry is one the index knows with this checksum.
THEOREM ObjectsAreFound == Spec => ObjectsFound
<1>1. [Next]_vars =>
        [pc = "idle" /\ pc' = "fetch"
           => \A e \in ToSet(snap'.entries) : index'[Opened(snap', e.version)] = e.version]_vars
  <2> SUFFICES ASSUME Next, pc = "idle", pc' = "fetch", NEW e \in ToSet(snap'.entries)
               PROVE  index'[Opened(snap', e.version)] = e.version
    BY DEF vars
  <2> DEFINE files == index'  src == req'.src  ex == req'.ex
             by == ByChecksum(snap', e.version)
  <2>1. CreateSession
    BY DEF Next, FetchPage, SnapshotGone, Plan, Carry
  <2>2. snap'.dir = src /\ ToSet(snap'.entries) = ListedIn(files, src, ex)
    BY <2>1, SnapshotLists DEF CreateSession, SourceDir
  <2>3. by \in ListedIn(files, src, ex) /\ by.version = e.version
    BY <2>2 DEF ByChecksum
  <2>4. PICK f \in Files : by.path \in Rel(f, src) /\ files[f] = by.version
    BY <2>3 DEF ListedIn
  <2>5. f = Join(src, by.path)
    BY <2>4 DEF Rel, Join
  <2> QED  BY <2>2, <2>3, <2>4, <2>5 DEF Opened
<1> QED  BY <1>1, PTL DEF Spec, ObjectsFound

\* Nothing excluded is touched, and nothing in an excluded directory or in the
\* client's own stores is deleted.
THEOREM ExcludedStays == Spec => []ExcludedUntouched
<1>1. EInv => ExcludedUntouched
  <2> SUFFICES ASSUME EInv PROVE ExcludedUntouched
    OBVIOUS
  <2>1. CASE pc # "planned"
    BY <2>1 DEF EInv, Typed, Derived, ExcludedUntouched
  <2>2. CASE pc = "planned"
    <3>1. \A p \in doomed : Sees(p, req.ex)
      BY <2>2, EntryFields DEF EInv, Derived, toDelete, PathsOf, scanLocal
    <3>2. \A e \in todo : Listed(req.ex, e.path)
      BY <2>2, SnapshotEntries DEF EInv, Derived, toDownload, ListedIn
    <3> QED  BY <3>1, <3>2 DEF ExcludedUntouched, Sees, Listed
  <2> QED  BY <2>1, <2>2
<1> QED  BY <1>1, AlwaysHolds, PTL

\* A run that is carried out makes the target what a walk of the source directory
\* would have found, beside what is excluded there.
LEMMA AppliedMirrors ==
  ASSUME NoReservedFiles, EInv, pc = "planned", Closed(req.ex)
  PROVE  Present(Applied(target, todo, doomed))
           = BuildSnapshot(index, req.src, req.ex)
               \cup {e \in Present(target) : ~Sees(e.path, req.ex)}
<1> DEFINE before == scanLocal(target, req.ex)
           after == Applied(target, todo, doomed)
           kept == {e \in Present(target) : ~Sees(e.path, req.ex)}
<1>1. todo = got \ before /\ doomed = PathsOf(before) \ PathsOf(got)
  BY DEF EInv, Derived, toDownload, toDelete
<1>2. got = ListedIn(index, req.src, req.ex) /\ got = BuildSnapshot(index, req.src, req.ex)
  <2>1. got = ToSet(snap.entries)
    BY DEF EInv, PagesComplete
  <2> QED  BY <2>1, SnapshotEntries, ListedIsWalked DEF EInv, Typed
<1>3. \A d \in got, e \in got : d.path = e.path => d = e
  BY <1>2, OnePerPath
<1>4. \A e \in got : /\ e.path \in Files /\ e.version > 0 /\ Listed(req.ex, e.path)
                     /\ e = Entry(e.path, e.version)
  BY <1>2 DEF ListedIn, Entry
<1>5. \A e \in got : Sees(e.path, req.ex) /\ e.path \in Paths
  BY <1>4 DEF NoReservedFiles, Closed, Listed, Sees, Paths
<1>6. \A e \in before : /\ e.path \in Paths /\ Sees(e.path, req.ex)
                        /\ target[e.path] = e.version /\ e.version > 0
  BY EntryFields DEF scanLocal
<1>7. \A e \in todo : after[e.path] = e.version
  <2>1. \A e \in todo : (CHOOSE d \in todo : d.path = e.path) = e
    BY <1>1, <1>3
  <2> QED  BY <1>1, <1>5, <2>1 DEF Applied, PathsOf
<1>8. \A p \in Paths : p \notin PathsOf(todo) /\ p \notin doomed => after[p] = target[p]
  BY DEF Applied
<1>9. \A e \in got : e \notin todo => after[e.path] = e.version
  <2> SUFFICES ASSUME NEW e \in got, e \notin todo PROVE after[e.path] = e.version
    OBVIOUS
  <2>1. e.path \notin PathsOf(todo) /\ e.path \notin doomed
    BY <1>1, <1>3 DEF PathsOf
  <2>2. target[e.path] = e.version
    BY <1>1, <1>6
  <2> QED  BY <1>5, <1>8, <2>1, <2>2
<1> HIDE DEF before, after
<1>10. ASSUME NEW e \in got PROVE e \in Present(after)
  BY <1>4, <1>5, <1>7, <1>9 DEF Present
<1>11. ASSUME NEW e \in kept PROVE e \in Present(after)
  <2>1. e.path \in Paths /\ target[e.path] > 0 /\ e = Entry(e.path, target[e.path])
        /\ ~Sees(e.path, req.ex)
    BY EntryFields DEF Present
  <2>2. e.path \notin PathsOf(todo) /\ e.path \notin doomed
    BY <1>1, <1>5, <1>6, <2>1 DEF PathsOf
  <2>3. after[e.path] = target[e.path]
    BY <1>8, <2>1, <2>2
  <2> QED  BY <2>1, <2>3 DEF Present
<1>12. ASSUME NEW p \in Paths, after[p] > 0
       PROVE  Entry(p, after[p]) \in got \cup kept
  <2>1. CASE p \in PathsOf(todo)
    <3>1. PICK e \in todo : e.path = p
      BY <2>1 DEF PathsOf
    <3> QED  BY <1>1, <1>4, <1>7, <3>1
  <2>2. CASE p \notin PathsOf(todo)
    <3>1. p \notin doomed
      BY <1>12, <2>2 DEF after, Applied
    <3>2. after[p] = target[p]
      BY <1>8, <2>2, <3>1
    <3>3. CASE Sees(p, req.ex)
      <4>1. Entry(p, target[p]) \in before
        BY <1>12, <3>2, <3>3 DEF before, scanLocal
      <4>2. p \in PathsOf(got)
        BY <1>1, <3>1, <4>1, EntryFields DEF PathsOf
      <4>3. PICK e \in got : e.path = p
        BY <4>2 DEF PathsOf
      <4>4. after[p] = e.version
        BY <1>7, <1>9, <4>3
      <4> QED  BY <1>4, <4>3, <4>4
    <3>4. CASE ~Sees(p, req.ex)
      BY <1>12, <3>2, <3>4, EntryFields DEF Present
    <3> QED  BY <3>3, <3>4
  <2> QED  BY <2>1, <2>2
<1>13. Present(after) \subseteq got \cup kept
  BY <1>12 DEF Present
<1> QED  BY <1>2, <1>10, <1>11, <1>13 DEF after

\* No run adds to the mirror, or takes from it, what a walk would not have.
THEOREM RunMirrorsWalk == NoReservedFiles => (Spec => MirrorsWalk)
<1> SUFFICES ASSUME NoReservedFiles PROVE Spec => MirrorsWalk
  OBVIOUS
<1>1. EInv /\ [Next]_vars =>
        [pc = "planned" /\ pc' = "idle" /\ Closed(req.ex)
           => target' = target
              \/ Present(target') = BuildSnapshot(index, req.src, req.ex)
                   \cup {e \in Present(target) : ~Sees(e.path, req.ex)}]_vars
  <2> SUFFICES ASSUME EInv, Next, pc = "planned", pc' = "idle", Closed(req.ex),
                      target' # target
               PROVE  Present(target') = BuildSnapshot(index, req.src, req.ex)
                        \cup {e \in Present(target) : ~Sees(e.path, req.ex)}
    BY DEF vars
  <2>1. Carry
    BY DEF Next, CreateSession, FetchPage, SnapshotGone, Plan
  <2>2. target' = Applied(target, todo, doomed)
    BY <2>1 DEF Carry
  <2> QED  BY <2>2, AppliedMirrors
<1> QED  BY <1>1, AlwaysHolds, PTL DEF Spec, MirrorsWalk
=============================================================================
