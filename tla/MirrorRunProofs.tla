--------------------------- MODULE MirrorRunProofs ---------------------------
(***************************************************************************)
(* The runs of MirrorRun for any paths, contents, guard and concurrency,   *)
(* and any number of changes and faults: what holds of every target, and,  *)
(* if no two files of the module are written in one second, what a run     *)
(* that reports success leaves, and that all runs keep MirrorPromise.      *)
(***************************************************************************)
EXTENDS MirrorRun, FiniteSetTheorems, TLAPS

\* Numbers have a first one.
LEMMA FirstOfNumbers ==
  ASSUME NEW S \in SUBSET Nat, IsFiniteSet(S), S # {}
  PROVE  First(S) \in S
<1> DEFINE Below(p) == {q \in S : q < p}
           T == {Below(p) : p \in S}
<1>1. IsWellFoundedOn(StrictSubsetOrdering(S), FiniteSubsetsOf(S))
  BY FS_StrictSubsetOrderingWellFounded
<1>2. T \subseteq FiniteSubsetsOf(S) /\ T # {}
  <2>1. \A p \in S : Below(p) \in SUBSET S
    OBVIOUS
  <2>2. \A p \in S : IsFiniteSet(Below(p))
    BY <2>1, FS_Subset
  <2> QED  BY <2>1, <2>2 DEF FiniteSubsetsOf
<1>3. PICK b \in T : \A c \in T : ~(<<c, b>> \in StrictSubsetOrdering(S))
  BY <1>1, <1>2, WFMin
<1>4. PICK p \in S : b = Below(p)
  BY <1>3
<1>5. ASSUME NEW q \in S, q < p PROVE FALSE
  <2>1. Below(q) \subseteq b /\ q \in b /\ q \notin Below(q)
    <3>1. \A x, y, z \in S : (x < y /\ y < z => x < z) /\ ~(x < x)
      OBVIOUS
    <3>2. b = {x \in S : x < p}
      BY <1>4
    <3> HIDE DEF T
    <3>3. \A x \in S : x < q => x < p
      BY <1>5, <3>1
    <3> QED  BY <1>5, <3>1, <3>2, <3>3
  <2>2. <<Below(q), b>> \in StrictSubsetOrdering(S)
    BY <1>4, <2>1 DEF StrictSubsetOrdering
  <2> QED  BY <1>3, <2>2
<1>6. \A q \in S : p <= q
  BY <1>5
<1> HIDE DEF T
<1> QED  BY <1>6 DEF First

LEMMA FirstIn ==
  ASSUME NEW S \in SUBSET Paths, S # {}
  PROVE  First(S) \in S
<1>1. IsFiniteSet(S) /\ S \in SUBSET Nat
  BY MirrorConstants, FS_Subset
<1> QED  BY <1>1, FirstOfNumbers
-----------------------------------------------------------------------------
\* What was deleted and what will be is what the guard let pass.
Counting ==
  LET planned == deleted + Cardinality(doomed)
  IN /\ planned <= total
     /\ total >= GuardFiles => planned * 100 <= GuardPercent * total

\* The paths that wait for content c.
Wanted(c) == {p \in todo : remote[p].content = c}

\* Downloads and deletions are about different paths, and a group is about
\* paths of its content.
Grouping ==
  /\ \A p \in todo : remote[p] # Gone
  /\ \A p \in doomed : remote[p] = Gone
  /\ \A c \in Contents :
       /\ group[c].left \subseteq Wanted(c)
       /\ group[c].phase # "none" => Wanted(c) # {}
       /\ group[c].phase = "promoting" => meta[c] # NoObject

SInv == TypeOK /\ Counting /\ Grouping /\ LinksResolve

LocalEntries == {Gone} \cup [content : Contents, stamp : {0, Linked}]
GroupStates == [phase : Phases, left : SUBSET Paths]
-----------------------------------------------------------------------------
LEMMA InitHolds == Init => SInv
<1> SUFFICES ASSUME Init PROVE SInv
  OBVIOUS
<1>1. local \in [Paths -> LocalEntries]
  <2>1. \A c \in Contents : Entry(c, 0) \in LocalEntries
    BY DEF Entry, LocalEntries
  <2>2. local \in [Paths -> {Gone} \cup {Entry(c, 0) : c \in Contents}]
    BY DEF Init
  <2>3. {Gone} \cup {Entry(c, 0) : c \in Contents} \subseteq LocalEntries
    BY <2>1 DEF LocalEntries
  <2> QED  BY <2>2, <2>3
<1>2. NoGroup \in GroupStates /\ NoGroup.left = {} /\ NoGroup.phase = "none"
  BY DEF NoGroup, GroupStates, Phases
<1>3. Cardinality(Paths) \in Nat /\ Cardinality({}) = 0
  BY MirrorConstants, FS_CardinalityType, FS_EmptySet
<1>4. TypeOK
  <2>1. source \in [Paths -> Entries] /\ remote \in [Paths -> Entries]
    BY DEF Init, Entries
  <2>2. /\ meta \in [Contents -> {NoObject, Raw} \cup 1 .. MaxStamp]
        /\ group \in [Contents -> GroupStates]
    BY <1>2 DEF Init
  <2>3. /\ clock \in 0 .. MaxStamp /\ faults \in 0 .. MaxFaults
        /\ total \in 0 .. Cardinality(Paths) /\ deleted \in 0 .. total
    BY <1>3, MirrorConstants DEF Init
  <2>4. /\ pc \in {"idle", "scan", "download", "delete", "done"}
        /\ todo \subseteq Paths /\ doomed \subseteq Paths /\ failed \in BOOLEAN
        /\ full \subseteq Contents /\ husks \subseteq Deep
    BY DEF Init
  <2> QED  BY <1>1, <2>1, <2>2, <2>3, <2>4 DEF TypeOK, LocalEntries, GroupStates
<1>5. Counting
  BY <1>3, MirrorConstants DEF Init, Counting
<1>6. Grouping
  BY <1>2 DEF Init, Grouping, Wanted
<1>7. LinksResolve
  <2>1. \A p \in Paths : local[p] = Gone \/ \E c \in Contents : local[p] = Entry(c, 0)
    <3>1. local \in [Paths -> {Gone} \cup {Entry(c, 0) : c \in Contents}]
      BY DEF Init
    <3> QED  BY <3>1
  <2>2. Gone.stamp # Linked /\ \A c \in Contents : Entry(c, 0).stamp # Linked
    BY DEF Gone, Entry, Linked
  <2>3. \A p \in Paths : local[p].stamp # Linked
    BY <2>1, <2>2
  <2> QED  BY <2>3 DEF LinksResolve
<1> QED  BY <1>4, <1>5, <1>6, <1>7 DEF SInv

\* The end of a run, however it ends, forgets the plan.
LEMMA ReturnKeeps ==
  ASSUME SInv, NEW state \in {"idle", "done"}, Return(state),
         UNCHANGED <<module, local, meta>>, faults' \in 0 .. MaxFaults,
         full' \subseteq Contents, husks' \subseteq Deep
  PROVE  SInv'
<1>1. NoGroup \in GroupStates /\ NoGroup.left = {} /\ NoGroup.phase = "none"
  BY DEF NoGroup, GroupStates, Phases
<1>2. \A c \in Contents : group'[c] = NoGroup
  BY DEF Return
<1>3. Cardinality(Paths) \in Nat /\ Cardinality({}) = 0
  BY MirrorConstants, FS_CardinalityType, FS_EmptySet
<1>4. TypeOK'
  <2>1. group' \in [Contents -> GroupStates]
    BY <1>1 DEF Return
  <2>2. total' \in 0 .. Cardinality(Paths) /\ deleted' \in 0 .. total'
    BY <1>3 DEF Return
  <2> QED  BY <2>1, <2>2 DEF Return, SInv, TypeOK, GroupStates, module
<1>5. Counting'
  BY <1>3, MirrorConstants DEF Return, Counting
<1>6. Grouping'
  BY <1>1, <1>2 DEF Return, Grouping, Wanted
<1>7. LinksResolve'
  BY DEF SInv, LinksResolve
<1> QED  BY <1>4, <1>5, <1>6, <1>7 DEF SInv

\* A change of the module alone.
LEMMA ModuleKeeps ==
  ASSUME SInv, source' \in [Paths -> Entries], clock' \in 0 .. MaxStamp,
         UNCHANGED <<target, pc, plan, group, failed, faults>>
  PROVE  SInv'
<1>1. TypeOK'
  BY DEF SInv, TypeOK, target, litter, plan
<1>2. Counting' /\ LinksResolve'
  BY DEF SInv, Counting, LinksResolve, target, plan
<1>3. Grouping'
  BY DEF SInv, Grouping, Wanted, target, plan
<1> QED  BY <1>1, <1>2, <1>3 DEF SInv

LEMMA WriteKeeps ==
  ASSUME SInv, NEW p \in Paths, NEW content \in Contents, Write(p, content)
  PROVE  SInv'
<1>1. PICK stamp \in clock .. clock + 1 :
        /\ 0 < stamp /\ stamp <= MaxStamp
        /\ source' = [source EXCEPT ![p] = Entry(content, stamp)] /\ clock' = stamp
  BY DEF Write
<1>2. stamp \in 1 .. MaxStamp
  BY <1>1, MirrorConstants DEF SInv, TypeOK
<1>3. Entry(content, stamp) \in Entries
  BY <1>2 DEF Entry, Entries
<1>4. source' \in [Paths -> Entries] /\ clock' \in 0 .. MaxStamp
  BY <1>1, <1>2, <1>3, MirrorConstants DEF SInv, TypeOK
<1> QED  BY <1>4, ModuleKeeps DEF Write

LEMMA EraseKeeps ==
  ASSUME SInv, NEW p \in Paths, Erase(p)
  PROVE  SInv'
<1>1. source' \in [Paths -> Entries] /\ clock' \in 0 .. MaxStamp
  BY MirrorConstants DEF Erase, SInv, TypeOK, Entries
<1> QED  BY <1>1, ModuleKeeps DEF Erase
-----------------------------------------------------------------------------
(***************************************************************************)
(* The steps of a download group.                                          *)
(***************************************************************************)
\* What a step of content c's group may make of it.
Onward(c, g) ==
  /\ g \in GroupStates /\ g.left \subseteq group[c].left
  /\ group[c].phase # "none"
  /\ g.phase = "promoting" => meta'[c] # NoObject

LEMMA GroupKeeps ==
  ASSUME SInv, NEW c \in Contents, NEW g, group' = [group EXCEPT ![c] = g], Onward(c, g),
         local' \in [Paths -> LocalEntries],
         meta' \in [Contents -> {NoObject, Raw} \cup 1 .. MaxStamp],
         \A d \in Contents : meta[d] # NoObject => meta'[d] # NoObject,
         \A p \in Paths : local'[p] = local[p] \/ local'[p] = Gone
                            \/ (local'[p] = Entry(c, Linked) /\ meta[c] # NoObject),
         full' \subseteq Contents, husks' \subseteq Deep,
         UNCHANGED <<module, pc, plan>>, failed' \in BOOLEAN, faults' \in 0 .. MaxFaults
  PROVE  SInv'
<1>1. group' \in [Contents -> GroupStates]
  BY DEF SInv, TypeOK, GroupStates, Onward
<1>2. TypeOK'
  BY <1>1 DEF SInv, TypeOK, LocalEntries, GroupStates, module, plan
<1>3. Counting'
  BY DEF SInv, Counting, plan
<1>4. Grouping'
  <2>1. \A d \in Contents : Wanted(d)' = Wanted(d)
    BY DEF Wanted, plan
  <2>2. \A d \in Contents : group'[d] = IF d = c THEN g ELSE group[d]
    BY DEF SInv, TypeOK
  <2> QED  BY <2>1, <2>2 DEF SInv, Grouping, Onward, plan
<1>5. LinksResolve'
  <2> SUFFICES ASSUME NEW p \in Paths, local'[p].stamp = Linked
               PROVE  meta'[local'[p].content] # NoObject
    BY DEF LinksResolve
  <2>1. CASE local'[p] = local[p]
    <3>1. local[p].content \in Contents
      BY <2>1 DEF SInv, TypeOK, Gone, Linked
    <3> QED  BY <2>1, <3>1 DEF SInv, LinksResolve
  <2>2. CASE local'[p] = Gone
    BY <2>2 DEF Gone, Linked
  <2>3. CASE local'[p] = Entry(c, Linked) /\ meta[c] # NoObject
    BY <2>3 DEF Entry
  <2> QED  BY <2>1, <2>2, <2>3
<1> QED  BY <1>2, <1>3, <1>4, <1>5 DEF SInv

\* A group goes to its next phase, while paths and objects stay.
LEMMA PhaseKeeps ==
  ASSUME SInv, NEW c \in Contents, NEW phase \in Phases, Step(c, phase),
         group[c].phase # "none", phase = "promoting" => meta'[c] # NoObject,
         meta' \in [Contents -> {NoObject, Raw} \cup 1 .. MaxStamp],
         \A d \in Contents : meta[d] # NoObject => meta'[d] # NoObject,
         full' \subseteq Contents, husks' \subseteq Deep,
         UNCHANGED <<module, local, pc, plan>>,
         failed' \in BOOLEAN, faults' \in 0 .. MaxFaults
  PROVE  SInv'
<1> DEFINE g == [group[c] EXCEPT !.phase = phase]
<1>1. group[c] \in GroupStates
  BY DEF SInv, TypeOK, GroupStates
<1>2. g \in GroupStates /\ g.left = group[c].left /\ g.phase = phase
  BY <1>1 DEF GroupStates
<1>3. group' = [group EXCEPT ![c] = g]
  BY DEF Step
<1> HIDE DEF g
<1>4. Onward(c, g)
  BY <1>2 DEF Onward
<1>5. local' \in [Paths -> LocalEntries]
  BY DEF SInv, TypeOK, LocalEntries
<1> QED  BY <1>3, <1>4, <1>5, GroupKeeps

\* The stamp that a group gives its object is one of the manifest.
LEMMA FirstStampIn ==
  ASSUME SInv, NEW c \in Contents, group[c].phase # "none"
  PROVE  \E q \in Paths : /\ q \in todo /\ remote[q].content = c
                          /\ remote[q] # Gone /\ remote[q].stamp \in 1 .. MaxStamp
                          /\ FirstStamp(c) = remote[q].stamp
<1>1. Wanted(c) # {} /\ Wanted(c) \in SUBSET Paths
  BY DEF SInv, Grouping, Wanted, TypeOK
<1>2. First(Wanted(c)) \in Wanted(c)
  BY <1>1, FirstIn
<1>3. FirstStamp(c) = remote[First(Wanted(c))].stamp
  BY DEF FirstStamp, Wanted
<1>4. \A q \in Wanted(c) : /\ q \in Paths /\ q \in todo /\ remote[q].content = c
                           /\ remote[q] # Gone
  BY DEF SInv, Grouping, Wanted, TypeOK
<1>5. \A q \in Wanted(c) : remote[q].stamp \in 1 .. MaxStamp
  BY <1>4 DEF SInv, TypeOK, Entries
<1> QED  BY <1>2, <1>3, <1>4, <1>5

LEMMA GroupStepKeeps ==
  ASSUME SInv, NEW c \in Contents, Group(c)
  PROVE  SInv'
<1>0. /\ MaxFaults \in Nat /\ faults \in 0 .. MaxFaults /\ failed \in BOOLEAN
      /\ group[c] \in GroupStates /\ local \in [Paths -> LocalEntries]
      /\ meta \in [Contents -> {NoObject, Raw} \cup 1 .. MaxStamp]
      /\ full \subseteq Contents /\ husks \subseteq Deep
  BY MirrorConstants DEF SInv, TypeOK, GroupStates, LocalEntries
<1>1. CASE Pick(c) \/ Launch(c)
  BY <1>0, <1>1, PhaseKeeps DEF Pick, Launch, target, litter, Phases
<1>2. CASE Get(c)
  <2>1. meta'[c] # NoObject /\ meta' \in [Contents -> {NoObject, Raw} \cup 1 .. MaxStamp]
    BY <1>0, <1>2 DEF Get, Obtained, NoObject, Raw
  <2>2. \A d \in Contents : meta[d] # NoObject => meta'[d] # NoObject
    BY <1>0, <1>2, <2>1 DEF Get
  <2> QED  BY <1>0, <1>2, <2>1, <2>2, PhaseKeeps DEF Get, litter, Phases
<1>3. CASE GetFails(c) \/ PromoteFails(c)
  <2>1. /\ faults' \in 0 .. MaxFaults /\ full' \subseteq Contents
        /\ UNCHANGED <<module, local, meta, husks, pc, plan>>
        /\ failed' = TRUE /\ Step(c, "done") /\ group[c].phase # "none"
    BY <1>0, <1>3 DEF GetFails, PromoteFails, target, litter
  <2> QED  BY <1>0, <2>1, PhaseKeeps DEF Phases
<1>4. CASE Remove(c)
  <2>1. local' \in [Paths -> LocalEntries]
    BY <1>0, <1>4 DEF Remove, LocalEntries
  <2>2. \A p \in Paths : local'[p] = local[p] \/ local'[p] = Gone
    BY <1>0, <1>4 DEF Remove
  <2>3. group' = [group EXCEPT ![c] = group[c]] /\ Onward(c, group[c])
    BY <1>0, <1>4 DEF Remove, AtPath, Onward, SInv, TypeOK, Grouping
  <2>4. husks' \subseteq Deep /\ full' = full
    BY <1>0, <1>4 DEF Remove, Husks
  <2> QED  BY <1>0, <1>4, <2>1, <2>2, <2>3, <2>4, GroupKeeps DEF Remove
<1>5. CASE Link(c)
  <2>1. PICK p \in Paths :
          /\ AtPath(c, p) /\ local' = [local EXCEPT ![p] = Entry(c, Linked)]
          /\ group' = [group EXCEPT ![c].left = @ \ {p}]
    BY <1>5 DEF Link
  <2> DEFINE g == [group[c] EXCEPT !.left = @ \ {p}]
  <2>2. g \in GroupStates /\ g.left \subseteq group[c].left /\ g.phase = "promoting"
    BY <1>0, <2>1 DEF GroupStates, AtPath
  <2>3. group' = [group EXCEPT ![c] = g]
    BY <2>1
  <2> HIDE DEF g
  <2>4. Onward(c, g) /\ meta[c] # NoObject
    BY <1>5, <2>1, <2>2 DEF Onward, AtPath, Link, SInv, Grouping
  <2>5. Entry(c, Linked) \in LocalEntries
    BY DEF Entry, LocalEntries
  <2>6. local' \in [Paths -> LocalEntries]
    BY <1>0, <2>1, <2>5
  <2>7. \A q \in Paths : local'[q] = local[q] \/ local'[q] = Entry(c, Linked)
    BY <1>0, <2>1
  <2> QED  BY <1>0, <1>5, <2>3, <2>4, <2>6, <2>7, GroupKeeps DEF Link, litter
<1>6. CASE Stamp(c)
  <2>1. FirstStamp(c) \in 1 .. MaxStamp
    BY <1>6, FirstStampIn DEF Stamp
  <2>2. /\ meta' \in [Contents -> {NoObject, Raw} \cup 1 .. MaxStamp]
        /\ \A d \in Contents : meta[d] # NoObject => meta'[d] # NoObject
    BY <1>0, <1>6, <2>1, MirrorConstants DEF Stamp, NoObject
  <2> QED  BY <1>0, <1>6, <2>2, PhaseKeeps DEF Stamp, litter, Phases
<1> QED  BY <1>1, <1>2, <1>3, <1>4, <1>5, <1>6 DEF Group
-----------------------------------------------------------------------------
(***************************************************************************)
(* The steps of a run outside its groups.                                  *)
(***************************************************************************)
LEMMA StartKeeps ==
  ASSUME SInv, Start, todo = {} /\ doomed = {},
         \A c \in Contents : group[c] = NoGroup
  PROVE  SInv'
<1>1. TypeOK' /\ LinksResolve' /\ Counting'
  BY DEF Start, SInv, TypeOK, LinksResolve, Counting, module, target, litter
<1>2. Grouping'
  BY DEF Start, Grouping, Wanted, NoGroup, target
<1> QED  BY <1>1, <1>2 DEF SInv

\* A product of numbers is one.
LEMMA ProductIn == \A a, b \in Nat : a * b \in Nat
OBVIOUS

\* What the guard lets pass is within its share.
LEMMA GuardLets ==
  ASSUME NEW files \in Nat, NEW planned \in Nat, ~Tripped(files, planned),
         files >= GuardFiles
  PROVE  planned * 100 <= GuardPercent * files
<1>1. GuardPercent * files \in Nat /\ GuardFiles \in Nat
  BY ProductIn, MirrorConstants
<1> QED  BY <1>1 DEF Tripped

LEMMA PlanKeeps ==
  ASSUME SInv, Plan
  PROVE  SInv'
<1> DEFINE wanted == {p \in Paths : remote[p] # Gone /\ Differs(p)}
           unknown == {p \in Shown : remote[p] = Gone}
           left(c) == {p \in wanted : remote[p].content = c}
           Made(c) == [phase |-> IF left(c) = {} THEN "none" ELSE "waiting",
                       left |-> left(c)]
<1>1. CASE Return("idle")
  BY <1>1, ReturnKeeps DEF Plan, SInv, TypeOK, target, litter
<1>2. CASE ~Return("idle")
  <2>1. /\ ~Tripped(Cardinality(Shown), Cardinality(unknown))
        /\ pc' = "download" /\ todo' = wanted /\ doomed' = unknown
        /\ total' = Cardinality(Shown) /\ deleted' = 0
        /\ group' = [c \in Contents |-> Made(c)]
        /\ UNCHANGED <<module, target, remote, failed, faults>>
    BY <1>2 DEF Plan
  <2>2. /\ IsFiniteSet(Shown) /\ Cardinality(Shown) \in Nat
        /\ Cardinality(Shown) <= Cardinality(Paths) /\ Cardinality(Paths) \in Nat
    BY MirrorConstants, FS_Subset, FS_CardinalityType DEF Shown
  <2>3. Cardinality(unknown) \in Nat /\ Cardinality(unknown) <= Cardinality(Shown)
    BY <2>2, FS_Subset, FS_CardinalityType
  <2> HIDE DEF wanted, unknown
  <2>4. Counting'
    BY <2>1, <2>2, <2>3, GuardLets DEF Counting
  <2>5. wanted \subseteq Paths /\ unknown \subseteq Paths
    BY DEF wanted, unknown, Shown
  <2>6. \A c \in Contents : Made(c) \in GroupStates
    BY <2>5 DEF GroupStates, Phases
  <2>7. group' \in [Contents -> GroupStates]
    BY <2>1, <2>6
  <2>8. TypeOK'
    BY <2>1, <2>2, <2>5, <2>7 DEF SInv, TypeOK, GroupStates, module, target, litter
  <2>9. Grouping'
    <3>1. (\A p \in todo' : remote'[p] # Gone) /\ (\A p \in doomed' : remote'[p] = Gone)
      BY <2>1 DEF wanted, unknown
    <3>2. \A c \in Contents :
            /\ Wanted(c)' = left(c) /\ group'[c].left = left(c)
            /\ group'[c].phase = IF left(c) = {} THEN "none" ELSE "waiting"
      BY <2>1 DEF Wanted
    <3> HIDE DEF left
    <3> QED  BY <3>1, <3>2 DEF Grouping
  <2>10. LinksResolve'
    BY <2>1 DEF SInv, LinksResolve, target
  <2> QED  BY <2>4, <2>8, <2>9, <2>10 DEF SInv
<1> QED  BY <1>1, <1>2

LEMMA DeleteKeeps ==
  ASSUME SInv, Delete
  PROVE  SInv'
<1> DEFINE d == First(doomed)
<1>1. d \in doomed /\ d \in Paths
  BY FirstIn DEF Delete, SInv, TypeOK
<1>2. /\ doomed' = doomed \ {d} /\ deleted' \in {deleted, deleted + 1}
      /\ local' \in {local, [local EXCEPT ![d] = Gone]} /\ faults' \in 0 .. MaxFaults
      /\ UNCHANGED <<module, meta, litter, pc, remote, todo, total, group, failed>>
  BY MirrorConstants DEF Delete, SInv, TypeOK
<1> HIDE DEF d
<1>3. IsFiniteSet(doomed) /\ Cardinality(doomed) \in Nat
  BY MirrorConstants, FS_Subset, FS_CardinalityType DEF SInv, TypeOK
<1>4. /\ Cardinality(doomed') = Cardinality(doomed) - 1
      /\ Cardinality(doomed') \in Nat
  BY <1>1, <1>2, <1>3, FS_RemoveElement, FS_CardinalityType
<1>5. /\ total \in Nat /\ deleted \in Nat /\ Cardinality(Paths) \in Nat
      /\ GuardPercent * total \in Nat
  <2>1. Cardinality(Paths) \in Nat
    BY MirrorConstants, FS_CardinalityType
  <2>2. total \in Nat /\ deleted \in Nat
    BY <2>1 DEF SInv, TypeOK
  <2> QED  BY <2>1, <2>2, ProductIn, MirrorConstants
<1>6. deleted' + Cardinality(doomed') <= deleted + Cardinality(doomed)
  BY <1>2, <1>3, <1>4, <1>5
<1>7. Counting'
  BY <1>2, <1>3, <1>4, <1>5, <1>6 DEF SInv, Counting
<1>8. local' \in [Paths -> LocalEntries] /\ \A p \in Paths : local'[p] \in {local[p], Gone}
  BY <1>1, <1>2 DEF SInv, TypeOK, LocalEntries
<1>9. deleted' \in 0 .. total
  BY <1>2, <1>4, <1>5, <1>7 DEF Counting
<1>10. TypeOK'
  BY <1>2, <1>8, <1>9 DEF SInv, TypeOK, LocalEntries, module, litter
<1>11. Grouping'
  BY <1>2 DEF SInv, Grouping, Wanted
<1>12. LinksResolve'
  BY <1>2, <1>8 DEF SInv, LinksResolve, Gone, Linked
<1> QED  BY <1>7, <1>10, <1>11, <1>12 DEF SInv

\* Between runs there is no plan.
Planless ==
  pc \in {"idle", "scan", "done"} =>
    todo = {} /\ doomed = {} /\ ~failed /\ \A c \in Contents : group[c] = NoGroup

LEMMA PlanlessInit == Init => Planless
BY DEF Init, Planless

LEMMA PlanlessStep == SInv /\ Planless /\ [Next]_vars => Planless'
<1> SUFFICES ASSUME SInv, Planless, [Next]_vars PROVE Planless'
  OBVIOUS
<1>1. ASSUME NEW c \in Contents, Group(c) PROVE Planless'
  <2>1. pc \in {"download", "delete"} \/ group[c] = NoGroup
    BY DEF SInv, TypeOK, Planless
  <2>2. group[c].phase # "none" /\ pc' = pc
    BY <1>1 DEF Group, Pick, Launch, Get, GetFails, Remove, Link, Stamp, PromoteFails, AtPath
  <2> QED  BY <2>1, <2>2 DEF Planless, NoGroup
<1>2. CASE Start \/ Again
  BY <1>2 DEF Start, Again, Planless, plan
<1>3. CASE Plan
  BY <1>3 DEF Plan, Planless, Return
<1>4. CASE Downloaded
  BY <1>4 DEF Downloaded, Planless, Return
<1>5. CASE Delete
  BY <1>5 DEF Delete, Planless
<1>6. CASE Commit \/ Kill
  BY <1>6 DEF Commit, Kill, Planless, Return
<1>7. ASSUME UNCHANGED <<pc, plan, group, failed>> PROVE Planless'
  BY <1>7 DEF Planless, plan
<1>8. ASSUME NEW p \in Paths, Erase(p) PROVE Planless'
  BY <1>7, <1>8 DEF Erase
<1>9. ASSUME NEW p \in Paths, NEW content \in Contents, Write(p, content) PROVE Planless'
  BY <1>7, <1>9 DEF Write
<1>10. CASE UNCHANGED vars
  BY <1>7, <1>10 DEF vars
<1> QED  BY <1>1, <1>2, <1>3, <1>4, <1>5, <1>6, <1>8, <1>9, <1>10 DEF Next, Run

LEMMA StepKeeps == SInv /\ Planless /\ [Next]_vars => SInv'
<1> SUFFICES ASSUME SInv, Planless, [Next]_vars PROVE SInv'
  OBVIOUS
<1>0. faults \in 0 .. MaxFaults /\ full \subseteq Contents /\ husks \subseteq Deep
  BY DEF SInv, TypeOK
<1>1. ASSUME NEW c \in Contents, Group(c) PROVE SInv'
  BY <1>1, GroupStepKeeps
<1>2. CASE Start
  BY <1>2, StartKeeps DEF Start, Planless
<1>3. CASE Plan
  BY <1>3, PlanKeeps
<1>4. CASE Downloaded
  <2>1. CASE Return("idle")
    BY <1>0, <1>4, <2>1, ReturnKeeps DEF Downloaded, target, litter
  <2>2. CASE pc' = "delete" /\ UNCHANGED <<plan, group, failed, module, target, faults>>
    BY <2>2 DEF SInv, TypeOK, Counting, Grouping, Wanted, LinksResolve, plan, module, target,
                  litter
  <2> QED  BY <1>4, <2>1, <2>2 DEF Downloaded
<1>5. CASE Delete
  BY <1>5, DeleteKeeps
<1>6. CASE Commit
  BY <1>0, <1>6, ReturnKeeps DEF Commit, target, litter
<1>7. CASE Kill
  <2>1. full' \subseteq Contents /\ faults' \in 0 .. MaxFaults
    BY <1>0, <1>7, MirrorConstants DEF Kill, InPhase
  <2> QED  BY <1>0, <1>7, <2>1, ReturnKeeps DEF Kill
<1>8. CASE Again
  BY <1>8 DEF Again, SInv, TypeOK, Counting, Grouping, Wanted, LinksResolve, plan, module,
              target, litter
<1>9. ASSUME NEW p \in Paths, Erase(p) PROVE SInv'
  BY <1>9, EraseKeeps
<1>10. ASSUME NEW p \in Paths, NEW content \in Contents, Write(p, content) PROVE SInv'
  BY <1>10, WriteKeeps
<1>11. CASE UNCHANGED vars
  BY <1>11 DEF vars, SInv, TypeOK, Counting, Grouping, Wanted, LinksResolve, plan, module,
               target, litter
<1> QED
  BY <1>1, <1>2, <1>3, <1>4, <1>5, <1>6, <1>7, <1>8, <1>9, <1>10, <1>11 DEF Next, Run

LEMMA Always == Spec => [](SInv /\ Planless)
BY InitHolds, PlanlessInit, StepKeeps, PlanlessStep, PTL DEF Spec

\* A target is a tree of plain files and links, an object has a stamp of the
\* manifest or of its download, and a group is in one of its phases.
THEOREM MirrorTypeCorrect == Spec => []TypeOK
<1>1. SInv => TypeOK
  BY DEF SInv
<1> QED  BY <1>1, Always, PTL

\* No link of the target is ever without its object, wherever runs fail or are
\* killed (client.go:547-562).
THEOREM NoDanglingLink == Spec => []LinksResolve
<1>1. SInv => LinksResolve
  BY DEF SInv
<1> QED  BY <1>1, Always, PTL

\* Runs have nothing of a transfer but the promise of ObjectStore: an object
\* comes to stay, whatever fails, is killed or is promoted meanwhile
\* (client.go:469-475, 530-545).
THEOREM RunsUseStore == \A c \in Contents : Spec => Store(c)!Spec
<1> SUFFICES ASSUME NEW c \in Contents PROVE Spec => Store(c)!Spec
  OBVIOUS
<1>1. Init => Store(c)!Init
  BY DEF Init, Store!Init
<1>2. SInv /\ [Next]_vars => [Store(c)!Store]_(IF meta[c] = NoObject THEN {} ELSE {c})
  <2> SUFFICES ASSUME SInv, [Next]_vars, meta[c] # NoObject, meta'[c] = NoObject
               PROVE  FALSE
    BY DEF Store!Store
  <2>1. meta \in [Contents -> {NoObject, Raw} \cup 1 .. MaxStamp]
    BY DEF SInv, TypeOK
  <2>2. PICK d \in Contents : Get(d) \/ Stamp(d)
    <3>1. meta' # meta
      OBVIOUS
    <3> QED
      BY <3>1 DEF Next, vars, module, target, plan, Run, Kill, Erase, Write, Group, Start, Plan,
         Pick, Launch, GetFails, Remove, Link, PromoteFails, Downloaded, Delete, Commit, Again
  <2>3. CASE Get(d)
    BY <2>1, <2>3 DEF Get, Obtained, NoObject, Raw
  <2>4. CASE Stamp(d)
    <3>1. FirstStamp(d) \in 1 .. MaxStamp
      BY <2>4, FirstStampIn DEF Stamp
    <3>2. FirstStamp(d) # NoObject
      BY <3>1, MirrorConstants DEF NoObject
    <3> QED  BY <2>1, <2>4, <3>2 DEF Stamp
  <2> QED  BY <2>2, <2>3, <2>4
<1> QED  BY <1>1, <1>2, Always, PTL DEF Spec, Store!Spec

\* No run deletes more than the guard's share of the files there were
\* (README.md:368-373, client.go:362-374).
THEOREM GuardHolds == Spec => []GuardKept
<1>1. SInv => GuardKept
  <2> SUFFICES ASSUME SInv, total >= GuardFiles
               PROVE  deleted * 100 <= GuardPercent * total
    BY DEF GuardKept
  <2>1. Cardinality(doomed) \in Nat /\ Cardinality(Paths) \in Nat
    BY MirrorConstants, FS_Subset, FS_CardinalityType DEF SInv, TypeOK
  <2>2. total \in Nat /\ deleted \in Nat
    BY <2>1 DEF SInv, TypeOK
  <2>3. GuardPercent * total \in Nat
    BY <2>2, ProductIn, MirrorConstants
  <2> QED  BY <2>1, <2>2, <2>3 DEF SInv, Counting
<1> QED  BY <1>1, Always, PTL
-----------------------------------------------------------------------------
(***************************************************************************)
(* If every write has a second of its own, a stamp tells the content.      *)
(***************************************************************************)
Stamped == {source[p] : p \in Paths} \cup {remote[p] : p \in Paths}
             \cup {Entry(c, meta[c]) : c \in Contents}

Agree ==
  /\ \A e \in Stamped : e.stamp <= clock
  /\ \A e, f \in Stamped : e.stamp > 0 /\ e.stamp = f.stamp => e.content = f.content

\* The path shows the manifest's content through a link, with a stamp that the
\* manifest has for this content.
Shows(p) ==
  LET c == remote[p].content
  IN /\ local[p] = Entry(c, Linked)
     /\ \E q \in Paths : remote[q] = Entry(c, meta[c])

\* A path that the plan leaves alone is right; another one waits for its group
\* or is linked to the group's object.
InGroup(p, g) ==
  /\ g.phase # "none"
  /\ p \in g.left \/ local[p] = Entry(remote[p].content, Linked)
  /\ g.phase = "done" => failed \/ Shows(p)

Placed(p) ==
  /\ p \notin todo => Shows(p)
  /\ p \in todo => InGroup(p, group[remote[p].content])

Listed == {p \in Paths : remote[p] # Gone}

EInv ==
  /\ Agree
  /\ pc = "download" => \A p \in Listed : Placed(p)
  /\ pc \in {"delete", "done"} => \A p \in Listed : Shows(p)
  /\ pc = "delete" => \A c \in Contents : group[c].phase \in {"none", "done"}

LEMMA ListedContent ==
  ASSUME SInv, NEW p \in Listed
  PROVE  /\ p \in Paths /\ remote[p].content \in Contents
         /\ remote[p].stamp \in 1 .. MaxStamp /\ remote[p] \in Stamped
         /\ remote[p] = Entry(remote[p].content, remote[p].stamp)
BY DEF Listed, SInv, TypeOK, Entries, Stamped, Entry

LEMMA StampsAreNumbers == SInv => \A e \in Stamped : e.stamp \in Int
<1> SUFFICES ASSUME SInv PROVE \A e \in Stamped : e.stamp \in Int
  OBVIOUS
<1>1. \A q \in Paths : source[q].stamp \in Int /\ remote[q].stamp \in Int
  BY DEF SInv, TypeOK, Entries, Gone
<1>2. \A c \in Contents : Entry(c, meta[c]).stamp \in Int
  BY DEF SInv, TypeOK, Entry, NoObject, Raw
<1> QED  BY <1>1, <1>2 DEF Stamped

LEMMA ExactInit == Init => EInv
<1> SUFFICES ASSUME Init PROVE EInv
  OBVIOUS
<1>1. \A e \in Stamped : e = Gone \/ e.stamp = NoObject
  BY DEF Init, Stamped, Entry
<1>2. \A e \in Stamped : e.stamp <= 0
  BY <1>1 DEF Gone, NoObject
<1>3. Agree
  BY <1>2 DEF Agree, Init, Stamped, Entry, Gone, NoObject
<1> QED  BY <1>3 DEF EInv, Init

\* Stamps go on agreeing while nothing new is stamped.
LEMMA AgreeKeeps ==
  ASSUME SInv, Agree, clock' = clock,
         \A e \in Stamped' : e \in Stamped \/ (e.stamp \in Int /\ e.stamp < 0)
  PROVE  Agree'
<1>1. clock \in Nat
  BY MirrorConstants DEF SInv, TypeOK
<1>2. \A e \in Stamped' : e.stamp <= clock /\ (e.stamp > 0 => e \in Stamped)
  BY <1>1 DEF Agree
<1> QED  BY <1>2 DEF Agree

\* A write takes a stamp of its own.
LEMMA WriteAgrees ==
  ASSUME SInv, EInv, ~OneSecond, NEW p \in Paths, NEW content \in Contents,
         Write(p, content)
  PROVE  EInv'
<1> DEFINE new == Entry(content, clock + 1)
<1>1. /\ source' = [source EXCEPT ![p] = new] /\ clock' = clock + 1
      /\ UNCHANGED <<target, pc, plan, group, failed, faults>>
  BY DEF Write
<1>2. clock \in Nat
  BY MirrorConstants DEF SInv, TypeOK
<1>3. \A e \in Stamped' : e \in Stamped \/ e = new
  <2>1. \A q \in Paths : source'[q] \in {source[q], new} /\ remote'[q] = remote[q]
    BY <1>1 DEF SInv, TypeOK, plan
  <2>2. \A c \in Contents : Entry(c, meta'[c]) = Entry(c, meta[c])
    BY <1>1 DEF target
  <2> HIDE DEF new
  <2> QED  BY <2>1, <2>2 DEF Stamped
<1>4. new.stamp = clock + 1
  BY DEF Entry
<1>5. \A e \in Stamped : e.stamp <= clock /\ e.stamp # clock + 1
  BY <1>2, StampsAreNumbers DEF EInv, Agree
<1> HIDE DEF new
<1>6. Agree'
  BY <1>1, <1>2, <1>3, <1>4, <1>5, StampsAreNumbers DEF EInv, Agree
<1> QED  BY <1>1, <1>6 DEF EInv, Listed, Placed, InGroup, Shows, target, plan

LEMMA EraseAgrees ==
  ASSUME SInv, EInv, NEW p \in Paths, Erase(p)
  PROVE  EInv'
<1>1. /\ source' = [source EXCEPT ![p] = Gone] /\ clock' = clock + 1
      /\ UNCHANGED <<target, pc, plan, group, failed, faults>>
  BY DEF Erase
<1>2. clock \in Nat
  BY MirrorConstants DEF SInv, TypeOK
<1>3. \A e \in Stamped' : e \in Stamped \/ e = Gone
  <2>1. \A q \in Paths : source'[q] \in {source[q], Gone} /\ remote'[q] = remote[q]
    BY <1>1 DEF SInv, TypeOK, plan
  <2>2. \A c \in Contents : Entry(c, meta'[c]) = Entry(c, meta[c])
    BY <1>1 DEF target
  <2> QED  BY <2>1, <2>2 DEF Stamped
<1>4. Gone.stamp = -1
  BY DEF Gone
<1>5. Agree'
  BY <1>1, <1>2, <1>3, <1>4, StampsAreNumbers DEF EInv, Agree
<1> QED  BY <1>1, <1>5 DEF EInv, Listed, Placed, InGroup, Shows, target, plan

LEMMA StartAgrees ==
  ASSUME SInv, EInv, Start
  PROVE  EInv'
<1>1. \A e \in Stamped' : e \in Stamped
  BY DEF Start, Stamped, module, target
<1>2. Agree'
  BY <1>1 DEF Start, EInv, Agree, module
<1> QED  BY <1>2 DEF Start, EInv

\* A path that does not differ already shows what it shall.
LEMMA SameShows ==
  ASSUME SInv, Agree, NEW p \in Listed, ~Differs(p)
  PROVE  Shows(p)
<1> DEFINE d == local[p].content
<1>1. /\ p \in Paths /\ remote[p] \in Stamped /\ remote[p].stamp \in 1 .. MaxStamp
      /\ remote[p] = Entry(remote[p].content, remote[p].stamp)
  BY ListedContent
<1>2. Seen(p).stamp = remote[p].stamp
  BY DEF Differs
<1>3. local[p] \in LocalEntries
  BY <1>1 DEF SInv, TypeOK, LocalEntries
<1>4. local[p].stamp = Linked
  BY <1>1, <1>2, <1>3, MirrorConstants DEF Seen, LocalEntries, Gone, Linked
<1>5. d \in Contents /\ local[p] = Entry(d, Linked)
  BY <1>3, <1>4 DEF LocalEntries, Gone, Linked, Entry
<1>6. Entry(d, meta[d]) \in Stamped /\ Entry(d, meta[d]).stamp = remote[p].stamp
  BY <1>2, <1>4, <1>5 DEF Seen, Stamped, Entry
<1>7. Entry(d, meta[d]).content = remote[p].content /\ meta[d] = remote[p].stamp
  BY <1>1, <1>6 DEF Agree, Entry
<1>8. d = remote[p].content
  BY <1>7 DEF Entry
<1> QED  BY <1>1, <1>5, <1>7, <1>8 DEF Shows

LEMMA PlanPlaces ==
  ASSUME SInv, EInv, Plan
  PROVE  EInv'
<1>1. UNCHANGED <<module, target, remote>>
  BY DEF Plan, Return
<1>2. Agree'
  BY <1>1 DEF EInv, Agree, Stamped, module, target
<1>3. CASE Return("idle")
  BY <1>2, <1>3 DEF Return, EInv
<1>4. CASE ~Return("idle")
  <2> DEFINE wanted == {p \in Paths : remote[p] # Gone /\ Differs(p)}
             left(c) == {p \in wanted : remote[p].content = c}
  <2>1. /\ pc' = "download" /\ todo' = wanted
        /\ group' = [c \in Contents |->
             [phase |-> IF left(c) = {} THEN "none" ELSE "waiting", left |-> left(c)]]
    BY <1>4 DEF Plan
  <2>2. ASSUME NEW p \in Listed' PROVE Placed(p)'
    <3>1. p \in Listed
      BY <1>1 DEF Listed
    <3>2. CASE p \in wanted
      <4>1. remote[p].content \in Contents /\ p \in left(remote[p].content)
        BY <3>1, <3>2, ListedContent
      <4>2. /\ group'[remote[p].content].phase = "waiting"
            /\ group'[remote[p].content].left = left(remote[p].content)
        BY <2>1, <4>1
      <4> HIDE DEF left
      <4> QED  BY <1>1, <2>1, <3>2, <4>1, <4>2 DEF Placed, InGroup
    <3>3. CASE p \notin wanted
      <4>1. ~Differs(p)
        BY <3>1, <3>3 DEF Listed
      <4>2. Shows(p)'
        BY <1>1, <3>1, <4>1, SameShows DEF EInv, Shows, target
      <4> QED  BY <2>1, <3>3, <4>2 DEF Placed, InGroup
    <3> QED  BY <3>2, <3>3
  <2> QED  BY <1>2, <2>1, <2>2 DEF EInv
<1> QED  BY <1>3, <1>4
-----------------------------------------------------------------------------
\* A phase that brings nothing new into place.
LEMMA PhasePlaces ==
  ASSUME SInv, EInv, pc = "download", NEW c \in Contents, NEW phase \in Phases,
         Step(c, phase), phase # "none", phase = "done" => failed',
         failed => failed', UNCHANGED <<module, local, meta, pc, plan>>
  PROVE  EInv'
<1>1. \A d \in Contents :
        /\ group'[d].left = group[d].left
        /\ group'[d].phase = IF d = c THEN phase ELSE group[d].phase
  BY DEF Step, SInv, TypeOK
<1>2. Agree' /\ Listed' = Listed /\ \A p \in Listed : Shows(p)' = Shows(p)
  BY DEF EInv, Agree, Stamped, Listed, Shows, module, plan
<1>3. ASSUME NEW p \in Listed PROVE Placed(p)'
  <2>1. Placed(p) /\ remote[p].content \in Contents
    BY ListedContent DEF EInv
  <2> QED  BY <1>1, <1>2, <2>1 DEF Placed, InGroup, plan
<1> QED  BY <1>2, <1>3 DEF EInv

\* The object of a content that some path shows is there.
LEMMA ShownObject ==
  ASSUME SInv, NEW p \in Listed, Shows(p)
  PROVE  meta[remote[p].content] # NoObject
<1>1. PICK q \in Paths : remote[q] = Entry(remote[p].content, meta[remote[p].content])
  BY DEF Shows
<1>2. remote[q].stamp # NoObject
  BY DEF SInv, TypeOK, Entries, Gone, NoObject
<1> QED  BY <1>1, <1>2 DEF Entry

LEMMA GetPlaces ==
  ASSUME SInv, EInv, pc = "download", NEW c \in Contents, Get(c)
  PROVE  EInv'
<1>1. /\ group[c].phase = "getting" /\ Step(c, "promoting")
      /\ meta' = [meta EXCEPT ![c] = Obtained(c)]
      /\ UNCHANGED <<module, local, pc, plan, failed>>
  BY DEF Get
<1>2. CASE meta[c] # NoObject
  <2>1. meta' = meta
    BY <1>1, <1>2 DEF Obtained, SInv, TypeOK
  <2> QED  BY <1>1, <2>1, PhasePlaces DEF Phases
<1>3. CASE meta[c] = NoObject
  <2>1. \A d \in Contents : meta'[d] = IF d = c THEN Raw ELSE meta[d]
    BY <1>1, <1>3 DEF Obtained, SInv, TypeOK
  <2>2. \A e \in Stamped' : e \in Stamped \/ e = Entry(c, Raw)
    <3>1. \A d \in Contents :
            Entry(d, meta'[d]) = Entry(d, meta[d]) \/ Entry(d, meta'[d]) = Entry(c, Raw)
      BY <2>1
    <3> QED  BY <1>1, <3>1 DEF Stamped, module, plan
  <2>3. Agree'
    <3>1. Entry(c, Raw).stamp \in Int /\ Entry(c, Raw).stamp < 0
      BY DEF Entry, Raw
    <3> QED  BY <1>1, <2>2, <3>1, AgreeKeeps DEF EInv, module
  <2>4. \A p \in Listed : Shows(p) => Shows(p)'
    <3> SUFFICES ASSUME NEW p \in Listed, Shows(p) PROVE Shows(p)'
      OBVIOUS
    <3>1. remote[p].content # c /\ remote[p].content \in Contents
      BY <1>3, ShownObject, ListedContent
    <3> QED  BY <1>1, <2>1, <3>1 DEF Shows, plan
  <2>5. \A d \in Contents :
          /\ group'[d].left = group[d].left
          /\ group'[d].phase = IF d = c THEN "promoting" ELSE group[d].phase
    BY <1>1 DEF Step, SInv, TypeOK
  <2>6. ASSUME NEW p \in Listed PROVE Placed(p)'
    <3>1. Placed(p) /\ remote[p].content \in Contents
      BY ListedContent DEF EInv
    <3> QED  BY <1>1, <2>4, <2>5, <3>1 DEF Placed, InGroup, plan
  <2>7. Listed' = Listed
    BY <1>1 DEF Listed, plan
  <2> QED  BY <1>1, <2>3, <2>6, <2>7 DEF EInv
<1> QED  BY <1>2, <1>3

\* A promotion touches paths of its own group only.
LEMMA AtPathFacts ==
  ASSUME SInv, NEW c \in Contents, NEW p \in Paths, AtPath(c, p)
  PROVE  /\ p \in group[c].left /\ p \in todo /\ remote[p].content = c
         /\ group[c].phase = "promoting"
<1>1. group[c].left \subseteq Wanted(c) /\ group[c].left \in SUBSET Paths
  BY DEF SInv, Grouping, TypeOK
<1>2. p \in group[c].left
  BY <1>1, FirstIn DEF AtPath
<1> QED  BY <1>1, <1>2 DEF Wanted, AtPath

LEMMA RemovePlaces ==
  ASSUME SInv, EInv, pc = "download", NEW c \in Contents, Remove(c)
  PROVE  EInv'
<1>1. PICK x \in Paths : AtPath(c, x) /\ local' = [local EXCEPT ![x] = Gone]
  BY DEF Remove
<1>2. /\ x \in group[c].left /\ x \in todo /\ remote[x].content = c
      /\ group[c].phase = "promoting"
  BY <1>1, AtPathFacts
<1>3. UNCHANGED <<module, meta, pc, plan, group, failed>>
  BY DEF Remove
<1>4. \A p \in Paths : p # x => local'[p] = local[p]
  BY <1>1 DEF SInv, TypeOK
<1>5. ASSUME NEW p \in Listed PROVE Placed(p)'
  <2>1. Placed(p) /\ p \in Paths
    BY ListedContent DEF EInv
  <2> QED  BY <1>2, <1>3, <1>4, <2>1 DEF Placed, InGroup, Shows, plan
<1>6. Agree' /\ Listed' = Listed
  BY <1>3 DEF EInv, Agree, Stamped, Listed, module, plan
<1> QED  BY <1>3, <1>5, <1>6 DEF EInv

LEMMA LinkPlaces ==
  ASSUME SInv, EInv, pc = "download", NEW c \in Contents, Link(c)
  PROVE  EInv'
<1>1. PICK x \in Paths : /\ AtPath(c, x) /\ local' = [local EXCEPT ![x] = Entry(c, Linked)]
                         /\ group' = [group EXCEPT ![c].left = @ \ {x}]
  BY DEF Link
<1>2. /\ x \in group[c].left /\ x \in todo /\ remote[x].content = c
      /\ group[c].phase = "promoting"
  BY <1>1, AtPathFacts
<1>3. UNCHANGED <<module, meta, pc, plan, failed>>
  BY DEF Link
<1>4. \A p \in Paths : local'[p] = IF p = x THEN Entry(c, Linked) ELSE local[p]
  BY <1>1 DEF SInv, TypeOK
<1>5. \A d \in Contents :
        /\ group'[d].phase = group[d].phase
        /\ group'[d].left = IF d = c THEN group[c].left \ {x} ELSE group[d].left
  BY <1>1 DEF SInv, TypeOK
<1>6. ASSUME NEW p \in Listed PROVE Placed(p)'
  <2>1. Placed(p) /\ p \in Paths /\ remote[p].content \in Contents
    BY ListedContent DEF EInv
  <2>2. CASE p = x
    BY <1>2, <1>3, <1>4, <1>5, <2>1, <2>2 DEF Placed, InGroup, plan
  <2>3. CASE p # x
    BY <1>3, <1>4, <1>5, <2>1, <2>3 DEF Placed, InGroup, Shows, plan
  <2> QED  BY <2>2, <2>3
<1>7. Agree' /\ Listed' = Listed
  BY <1>3 DEF EInv, Agree, Stamped, Listed, module, plan
<1> QED  BY <1>3, <1>6, <1>7 DEF EInv

LEMMA StampPlaces ==
  ASSUME SInv, EInv, pc = "download", NEW c \in Contents, Stamp(c)
  PROVE  EInv'
<1>1. /\ group[c].phase = "promoting" /\ group[c].left = {} /\ Step(c, "done")
      /\ meta' = [meta EXCEPT ![c] = FirstStamp(c)]
      /\ UNCHANGED <<module, local, pc, plan, failed>>
  BY DEF Stamp
<1>2. PICK q \in Paths : remote[q].content = c /\ remote[q] # Gone
                         /\ FirstStamp(c) = remote[q].stamp
  BY <1>1, FirstStampIn
<1>3. remote[q] = Entry(c, FirstStamp(c)) /\ remote[q] \in Stamped
  BY <1>2, ListedContent DEF Listed
<1>4. \A d \in Contents : meta'[d] = IF d = c THEN FirstStamp(c) ELSE meta[d]
  BY <1>1 DEF SInv, TypeOK
<1>5. \A e \in Stamped' : e \in Stamped
  <2>1. \A d \in Contents :
          Entry(d, meta'[d]) = Entry(d, meta[d]) \/ Entry(d, meta'[d]) = remote[q]
    BY <1>3, <1>4
  <2> QED  BY <1>1, <1>3, <2>1 DEF Stamped, module, plan
<1>6. Agree' /\ Listed' = Listed
  BY <1>1, <1>5, AgreeKeeps DEF EInv, Listed, module, plan
<1>7. \A d \in Contents :
        /\ group'[d].left = group[d].left
        /\ group'[d].phase = IF d = c THEN "done" ELSE group[d].phase
  BY <1>1 DEF Step, SInv, TypeOK
<1>8. ASSUME NEW p \in Listed PROVE Placed(p)'
  <2>1. Placed(p) /\ p \in Paths /\ remote[p].content \in Contents
    BY ListedContent DEF EInv
  <2>2. CASE remote[p].content = c
    <3>1. local[p] = Entry(c, Linked)
      <4>1. p \notin todo => local[p] = Entry(c, Linked)
        BY <2>1, <2>2 DEF Placed, InGroup, Shows
      <4>2. p \in todo => p \in group[c].left \/ local[p] = Entry(c, Linked)
        BY <2>1, <2>2 DEF Placed, InGroup
      <4> QED  BY <1>1, <4>1, <4>2
    <3>2. Shows(p)'
      BY <1>1, <1>3, <1>4, <2>2, <3>1 DEF Shows, plan
    <3> QED  BY <1>1, <1>7, <2>1, <2>2, <3>1, <3>2 DEF Placed, InGroup, plan
  <2>3. CASE remote[p].content # c
    <3>1. Shows(p)' = Shows(p)
      BY <1>1, <1>4, <2>1, <2>3 DEF Shows, plan
    <3> QED  BY <1>1, <1>7, <2>1, <2>3, <3>1 DEF Placed, InGroup, plan
  <2> QED  BY <2>2, <2>3
<1> QED  BY <1>1, <1>6, <1>8 DEF EInv

\* Groups work while the run downloads.
LEMMA GroupsDownload ==
  ASSUME SInv, Planless, EInv, NEW c \in Contents, Group(c)
  PROVE  pc = "download"
<1>1. group[c].phase \notin {"none", "done"}
  BY DEF Group, Pick, Launch, Get, GetFails, Remove, Link, Stamp, PromoteFails, AtPath
<1> QED  BY <1>1 DEF SInv, TypeOK, Planless, EInv, NoGroup

LEMMA GroupPlaces ==
  ASSUME SInv, Planless, EInv, NEW c \in Contents, Group(c)
  PROVE  EInv'
<1>0. pc = "download"
  BY GroupsDownload
<1>1. CASE Pick(c) \/ Launch(c)
  BY <1>0, <1>1, PhasePlaces DEF Pick, Launch, target, Phases
<1>2. CASE GetFails(c) \/ PromoteFails(c)
  BY <1>0, <1>2, PhasePlaces DEF GetFails, PromoteFails, target, Phases
<1> QED
  BY <1>0, <1>1, <1>2, GetPlaces, RemovePlaces, LinkPlaces, StampPlaces DEF Group
-----------------------------------------------------------------------------
LEMMA DownloadedShows ==
  ASSUME SInv, EInv, Downloaded
  PROVE  EInv'
<1>1. Agree'
  BY DEF Downloaded, Return, EInv, Agree, Stamped, module, target, plan
<1>2. CASE Return("idle")
  BY <1>1, <1>2 DEF Return, EInv
<1>3. CASE ~failed /\ pc' = "delete" /\ UNCHANGED <<plan, group, failed>>
  <2>1. \A c \in Contents : group[c].phase \in {"none", "done"}
    BY <1>3 DEF Downloaded, InPhase, SInv, TypeOK, Phases
  <2>2. ASSUME NEW p \in Listed PROVE Shows(p)
    <3>1. Placed(p) /\ group[remote[p].content].phase \in {"none", "done"}
      BY <2>1, <2>2, ListedContent DEF Downloaded, EInv
    <3>2. p \notin todo => Shows(p)
      BY <3>1 DEF Placed, InGroup
    <3>3. p \in todo => group[remote[p].content].phase = "done"
      BY <3>1 DEF Placed, InGroup
    <3>4. p \in todo /\ group[remote[p].content].phase = "done" => failed \/ Shows(p)
      BY <3>1 DEF Placed, InGroup
    <3> QED  BY <1>3, <3>2, <3>3, <3>4
  <2>3. Listed' = Listed /\ \A p \in Listed : Shows(p)' = Shows(p)
    BY <1>3 DEF Downloaded, Listed, Shows, target, plan
  <2> QED  BY <1>1, <1>3, <2>1, <2>2, <2>3 DEF EInv
<1> QED  BY <1>2, <1>3 DEF Downloaded, Succeeded

LEMMA DeleteShows ==
  ASSUME SInv, EInv, Delete
  PROVE  EInv'
<1>1. First(doomed) \in doomed
  BY FirstIn DEF Delete, SInv, TypeOK
<1>2. UNCHANGED <<module, meta, pc, remote, group>> /\ pc = "delete"
  BY DEF Delete
<1>3. Agree' /\ Listed' = Listed
  BY <1>2 DEF EInv, Agree, Stamped, Listed, module
<1>4. \A p \in Listed : local'[p] = local[p]
  <2>1. First(doomed) \notin Listed
    BY <1>1 DEF SInv, Grouping, Listed
  <2> QED  BY <2>1 DEF Delete, Listed, SInv, TypeOK
<1>5. \A p \in Listed : Shows(p)'
  BY <1>2, <1>4 DEF EInv, Shows
<1> QED  BY <1>2, <1>3, <1>5 DEF EInv

LEMMA ExactStep == ~OneSecond /\ SInv /\ Planless /\ EInv /\ [Next]_vars => EInv'
<1> SUFFICES ASSUME ~OneSecond, SInv, Planless, EInv, [Next]_vars PROVE EInv'
  OBVIOUS
<1>1. ASSUME NEW c \in Contents, Group(c) PROVE EInv'
  BY <1>1, GroupPlaces
<1>2. CASE Start
  BY <1>2, StartAgrees
<1>3. CASE Plan
  BY <1>3, PlanPlaces
<1>4. CASE Downloaded
  BY <1>4, DownloadedShows
<1>5. CASE Delete
  BY <1>5, DeleteShows
<1>6. ASSUME UNCHANGED <<module, local, meta, remote>>, pc' = "idle" \/ (pc = "delete" /\ pc' = "done")
      PROVE  EInv'
  BY <1>6 DEF EInv, Agree, Stamped, Listed, Shows, module
<1>7. CASE Commit \/ Kill \/ Again
  BY <1>6, <1>7 DEF Commit, Kill, Again, Return, target, plan
<1>8. ASSUME NEW p \in Paths, Erase(p) PROVE EInv'
  BY <1>8, EraseAgrees
<1>9. ASSUME NEW p \in Paths, NEW content \in Contents, Write(p, content) PROVE EInv'
  BY <1>9, WriteAgrees
<1>10. CASE UNCHANGED vars
  BY <1>10 DEF vars, EInv, Agree, Stamped, Listed, Placed, InGroup, Shows, module, target, plan
<1> QED
  BY <1>1, <1>2, <1>3, <1>4, <1>5, <1>7, <1>8, <1>9, <1>10 DEF Next, Run

LEMMA ExactAlways ==
  ASSUME ~OneSecond
  PROVE  Spec => [](SInv /\ Planless /\ EInv)
<1>1. SInv /\ Planless /\ EInv /\ [Next]_vars => EInv'
  BY ExactStep
<1> QED
  BY <1>1, InitHolds, PlanlessInit, ExactInit, StepKeeps, PlanlessStep, PTL DEF Spec

\* What a path shows is what the manifest lists.
LEMMA ShowsHolds ==
  ASSUME NEW p, Shows(p)
  PROVE  /\ Holds(p)
         /\ \E q \in Paths : remote[q] = Entry(remote[p].content, Seen(p).stamp)
<1>1. local[p].content = remote[p].content /\ local[p].stamp = Linked
  BY DEF Shows, Entry
<1>2. Seen(p).stamp = meta[remote[p].content] /\ local[p] # Gone
  BY <1>1 DEF Seen, Entry, Gone, Linked
<1> QED  BY <1>1, <1>2 DEF Shows, Holds

\* If every write has a second of its own, a run that reports success has left
\* every file of its manifest with its content, after any number of runs that
\* failed or were killed (README.md:3, client.go:142-148, 176-204).
THEOREM SuccessIsMirror ==
  ASSUME ~OneSecond
  PROVE  Spec => []MirrorExact
<1>1. EInv => MirrorExact
  BY ShowsHolds DEF EInv, Listed, MirrorExact
<1> QED  BY <1>1, ExactAlways, PTL

\* And with the mode and mtime that the manifest has for that content: its own
\* if no other file shares the content, else those of one of the sharers, which
\* need not be its own (client.go:564-576).
THEOREM SuccessIsStamped ==
  ASSUME ~OneSecond
  PROVE  Spec => []StampsOfContent
<1>1. EInv => StampsOfContent
  BY ShowsHolds DEF EInv, Listed, StampsOfContent
<1> QED  BY <1>1, ExactAlways, PTL

-----------------------------------------------------------------------------
(***************************************************************************)
(* The runs keep MirrorPromise.                                            *)
(***************************************************************************)
\* Only the absent file has the content of no file.
LEMMA NoFileIsGone ==
  ASSUME SInv
  PROVE  /\ ContentsOf(local) \in Promise!Trees /\ ContentsOf(remote) \in Promise!Trees
         /\ \A p \in Paths : /\ remote[p] = Gone <=> remote[p].content = Gone.content
                             /\ local[p] = Gone <=> local[p].content = Gone.content
<1>1. /\ local \in [Paths -> {Gone} \cup [content : Contents, stamp : {0, Linked}]]
      /\ remote \in [Paths -> {Gone} \cup [content : Contents, stamp : 1 .. MaxStamp]]
  BY DEF SInv, TypeOK, Entries
<1>2. Gone.content \notin Contents
  BY MirrorConstants
<1> QED  BY <1>1, <1>2 DEF ContentsOf, Promise!Trees

\* Replacing the file of one path.
LEMMA OneFileChanges ==
  ASSUME SInv, NEW p \in Paths, NEW e, local' = [local EXCEPT ![p] = e]
  PROVE  ContentsOf(local)' = [ContentsOf(local) EXCEPT ![p] = e.content]
BY DEF ContentsOf, SInv, TypeOK

\* A step that the promise does not tell from standing still, or for the end of
\* a run.
LEMMA SameFiles ==
  ASSUME UNCHANGED <<local, remote>>, pc' = pc \/ (pc # "idle" /\ pc' = "idle")
  PROVE  [Promise!Next]_(Promise!vars)
<1>1. ContentsOf(local)' = ContentsOf(local) /\ ContentsOf(remote)' = ContentsOf(remote)
  BY DEF ContentsOf
<1>2. CASE pc' = pc
  BY <1>1, <1>2 DEF Promise!vars, Stage
<1>3. CASE pc # "idle" /\ pc' = "idle"
  BY <1>1, <1>3 DEF Promise!Next, Promise!End, Stage
<1> QED  BY <1>2, <1>3

LEMMA GroupRefines ==
  ASSUME SInv, Planless, EInv, NEW c \in Contents, Group(c)
  PROVE  [Promise!Next]_(Promise!vars)
<1>0. pc = "download"
  BY GroupsDownload
<1>1. ASSUME NEW x \in Paths, AtPath(c, x), NEW e, local' = [local EXCEPT ![x] = e],
             e.content \in {c, Gone.content}, UNCHANGED <<pc, plan>>
      PROVE  Promise!Change(x)
  <2>1. remote[x].content = c /\ remote[x] # Gone
    BY <1>1, AtPathFacts DEF SInv, Grouping
  <2>2. ContentsOf(remote)[x] = c /\ c # Gone.content /\ ContentsOf(remote)' = ContentsOf(remote)
    BY <1>1, <2>1, NoFileIsGone DEF ContentsOf, plan
  <2>3. ContentsOf(local)' = [ContentsOf(local) EXCEPT ![x] = e.content]
    BY <1>1, OneFileChanges
  <2>4. Stage = "working" /\ Stage' = Stage
    BY <1>0, <1>1 DEF Stage
  <2> QED  BY <1>1, <2>2, <2>3, <2>4 DEF Promise!Change
<1>2. CASE Remove(c)
  BY <1>1, <1>2 DEF Remove, Promise!Next
<1>3. CASE Link(c)
  <2>1. Entry(c, Linked).content = c
    BY DEF Entry
  <2> QED  BY <1>1, <1>3, <2>1 DEF Link, Promise!Next
<1>4. CASE UNCHANGED <<local, remote, pc>>
  BY <1>4, SameFiles
<1> QED
  BY <1>2, <1>3, <1>4
     DEF Group, Pick, Launch, Get, GetFails, Stamp, PromoteFails, target, plan

LEMMA DeleteRefines ==
  ASSUME SInv, EInv, Delete
  PROVE  [Promise!Next]_(Promise!vars)
<1> DEFINE p == First(doomed)
<1>1. p \in doomed /\ p \in Paths /\ remote[p] = Gone
  BY FirstIn DEF Delete, SInv, TypeOK, Grouping
<1>2. CASE local' = [local EXCEPT ![p] = Gone]
  <2>1. ContentsOf(local)' = [ContentsOf(local) EXCEPT ![p] = Gone.content]
    BY <1>1, <1>2, OneFileChanges
  <2>2. ContentsOf(remote)[p] = Gone.content /\ ContentsOf(remote)' = ContentsOf(remote)
    BY <1>1 DEF ContentsOf, Delete
  <2>3. Stage = "clean" /\ Stage' = "clean"
    BY DEF Delete, Stage
  <2> HIDE DEF p
  <2>4. Promise!Delete(p)
    BY <2>1, <2>2, <2>3 DEF Promise!Delete
  <2> QED  BY <1>1, <2>4 DEF Promise!Next
<1>3. CASE UNCHANGED local
  BY <1>3, SameFiles DEF Delete
<1> QED  BY <1>2, <1>3 DEF Delete

\* When the downloads are over without an error all that the manifest has is in
\* place.
LEMMA DownloadedRefines ==
  ASSUME SInv, EInv, Downloaded
  PROVE  [Promise!Next]_(Promise!vars)
<1>1. UNCHANGED <<local, remote>> /\ pc = "download" /\ pc' \in {"idle", "delete"}
  BY DEF Downloaded, Return, target, plan
<1>2. CASE pc' = "idle"
  BY <1>1, <1>2, SameFiles
<1>3. CASE pc' = "delete"
  <2>1. \A q \in Paths : remote[q] # Gone => local[q].content = remote[q].content
    <3> SUFFICES ASSUME NEW q \in Paths, remote[q] # Gone
                 PROVE  local[q].content = remote[q].content
      OBVIOUS
    <3>1. q \in Listed' /\ EInv'
      BY <1>1, DownloadedShows DEF Listed
    <3>2. Shows(q)'
      BY <1>3, <3>1 DEF EInv
    <3> QED  BY <1>1, <3>2 DEF Shows, Entry
  <2>2. Promise!InPlace
    BY <2>1, NoFileIsGone DEF Promise!InPlace, ContentsOf
  <2>3. Stage = "working" /\ Stage' = "clean"
    BY <1>1, <1>3 DEF Stage
  <2>4. ContentsOf(local)' = ContentsOf(local) /\ ContentsOf(remote)' = ContentsOf(remote)
    BY <1>1 DEF ContentsOf
  <2> QED  BY <2>2, <2>3, <2>4 DEF Promise!Next, Promise!Complete
<1> QED  BY <1>1, <1>2, <1>3

LEMMA StepRefines ==
  SInv /\ SInv' /\ Planless /\ EInv /\ [Next]_vars => [Promise!Next]_(Promise!vars)
<1> SUFFICES ASSUME SInv, SInv', Planless, EInv, [Next]_vars
             PROVE  [Promise!Next]_(Promise!vars)
  OBVIOUS
<1>1. CASE Start
  <2>1. ContentsOf(local)' = ContentsOf(local)
    BY <1>1 DEF Start, target, ContentsOf
  <2>2. ContentsOf(remote)' \in Promise!Trees
    <3>1. (ContentsOf(remote) \in Promise!Trees)'
      BY NoFileIsGone, PTL
    <3> QED  BY <3>1
  <2>3. Stage = "idle" /\ Stage' = "working"
    BY <1>1 DEF Start, Stage
  <2> QED  BY <2>1, <2>2, <2>3 DEF Promise!Next, Promise!Begin
<1>2. CASE Plan
  <2>1. UNCHANGED <<local, remote>> /\ pc = "scan" /\ pc' \in {"idle", "download"}
    BY <1>2 DEF Plan, Return, target
  <2>2. CASE pc' = "download"
    BY <2>1, <2>2 DEF Promise!vars, Stage, ContentsOf
  <2> QED  BY <2>1, <2>2, SameFiles
<1>3. CASE Commit
  <2>1. UNCHANGED <<local, remote>> /\ pc = "delete" /\ pc' = "done"
    BY <1>3 DEF Commit, Return, target
  <2> QED  BY <2>1 DEF Promise!Next, Promise!Succeed, Stage, ContentsOf
<1>4. CASE Kill \/ Again
  BY <1>4, SameFiles DEF Kill, Again, Return, target, plan
<1>5. ASSUME NEW p \in Paths, Erase(p) \/ \E content \in Contents : Write(p, content)
      PROVE  [Promise!Next]_(Promise!vars)
  BY <1>5, SameFiles DEF Erase, Write, target, plan
<1>6. CASE UNCHANGED vars
  BY <1>6, SameFiles DEF vars, target, plan
<1> QED
  BY <1>1, <1>2, <1>3, <1>4, <1>5, <1>6, GroupRefines, DeleteRefines, DownloadedRefines
     DEF Next, Run

LEMMA InitRefines == Init => Promise!Init
<1> SUFFICES ASSUME Init PROVE Promise!Init
  OBVIOUS
<1>1. ContentsOf(local) \in Promise!Trees
  BY InitHolds, NoFileIsGone
<1>2. ContentsOf(remote) = [p \in Paths |-> Gone.content] /\ Stage = "idle"
  BY DEF Init, ContentsOf, Stage
<1> QED  BY <1>1, <1>2 DEF Promise!Init

\* If every write has a second of its own, every run keeps the promise: the only
\* file that a path of its manifest gets is the manifest's, a file that the
\* module lost is deleted only when all that the module has is in place, and only
\* then success is reported (README.md:186, client.go:142-204, 528-576).
THEOREM RunsKeepPromise ==
  ASSUME ~OneSecond
  PROVE  Spec => ImplementsPromise
<1>1. SInv /\ Planless /\ [Next]_vars => SInv'
  BY StepKeeps
<1> QED
  BY <1>1, InitRefines, StepRefines, ExactAlways, PTL DEF Spec, ImplementsPromise, Promise!Spec
=============================================================================
