------------------------ MODULE ObjectTransferProofs -----------------------
(***************************************************************************)
(* The type invariant of ObjectTransfer; and, as long as runs do not share *)
(* a target directory, that a stored object has its checksum and that what *)
(* was received is kept, for any contents, any changes of the file in the  *)
(* module and any faults.                                                  *)
(***************************************************************************)
EXTENDS ObjectTransfer, FiniteSetTheorems, TLAPS

\* A run that copies has a file open.
Open == \A r \in Runs : At(r, "copy") => run[r].fd # NoFile

TInv == TypeOK /\ Open

\* What relates the run, its open file and the names on the disk, if there is
\* only one run at a time.
OneRun == \A r, s \in Runs : r = s

Tidy ==
  /\ \A r \in Runs : At(r, "copy") => part # NoFile /\ run[r].fd = part
  /\ \A r \in Runs : At(r, "rename") => part # NoFile /\ data[part] = Wanted
  /\ StoredObjectVerified

\* What a run knows of the part file while it asks for the rest of it; an answer
\* that begins anew meets an empty part file, or has nothing to send.
Resuming ==
  /\ \A r \in Runs : At(r, "ask") => run[r].offset = SizeOf(part)
  /\ \A r \in Runs : At(r, "answered")
       => run[r].append \/ SizeOf(part) = 0 \/ run[r].end = 0

LEMMA InodeNumbers == Inodes \subseteq Nat \ {0} /\ NoFile \notin Inodes
<1>1. Cardinality(Runs) \in Nat
  BY TransferConstants, FS_CardinalityType
<1> QED  BY <1>1 DEF Inodes, NoFile

LEMMA ContentsAreSequences ==
  ASSUME NEW c \in Contents
  PROVE  c \in Seq(Nat) /\ Len(c) \in Nat /\ \A k \in 1 .. Len(c) : c[k] \in Nat
<1>1. c \in Seq(Nat \ {0})
  BY TransferConstants
<1> QED  BY <1>1

\* Writing a block gives a file again.
LEMMA WriteAtType ==
  ASSUME NEW file \in Seq(Nat), NEW at \in Nat, NEW block \in Nat
  PROVE  WriteAt(file, at, block) \in Seq(Nat)
<1> DEFINE size == IF at >= Len(file) THEN at + 1 ELSE Len(file)
<1>1. size \in Nat /\ Len(file) \in Nat
  OBVIOUS
<1>2. \A k \in 1 .. size :
        (IF k = at + 1 THEN block ELSE IF k <= Len(file) THEN file[k] ELSE Hole) \in Nat
  BY <1>1 DEF Hole
<1> QED  BY <1>1, <1>2 DEF WriteAt
-----------------------------------------------------------------------------
LEMMA InitTyped == Init => TInv /\ Tidy
<1> SUFFICES ASSUME Init PROVE TInv /\ Tidy
  OBVIOUS
<1>1. data \in [Inodes -> Seq(Nat)]
  BY DEF Init
<1>2. run \in [Runs -> State]
  BY TransferConstants DEF Init, Idle, State, NoFile
<1>3. \A r \in Runs : run[r].pc = "idle"
  BY DEF Init, Idle
<1>4. TypeOK
  BY <1>1, <1>2, TransferConstants DEF Init, TypeOK
<1>5. Open /\ Tidy
  BY <1>3 DEF Init, Open, Tidy, At, StoredObjectVerified
<1> QED  BY <1>4, <1>5 DEF TInv

\* A run that takes a step leaves the others as they are.
LEMMA BecomeTyped ==
  ASSUME TInv, NEW r \in Runs, NEW state \in State, Become(r, state),
         state.pc = "copy" => state.fd # NoFile
  PROVE  run' \in [Runs -> State] /\ Open'
BY DEF TInv, TypeOK, Become, Open, At

LEMMA FailTyped ==
  ASSUME TInv, NEW r \in Runs, Fail(r)
  PROVE  run' \in [Runs -> State] /\ Open'
<1>1. Idle \in State /\ Idle.pc = "idle"
  BY TransferConstants DEF Idle, State, NoFile
<1> QED  BY <1>1, BecomeTyped DEF Fail

LEMMA DownloadTyped ==
  ASSUME TInv, NEW r \in Runs, Download(r)
  PROVE  TInv'
<1> DEFINE s == run[r]
<1>r. s \in State /\ (s.pc = "copy" => s.fd # NoFile)
  BY DEF TInv, TypeOK, Open, At
<1>s. source \in Contents /\ data \in [Inodes -> Seq(Nat)]
      /\ part \in Inodes \cup {NoFile} /\ object \in Inodes \cup {NoFile}
      /\ (part = NoFile \/ part # object)
  BY DEF TInv, TypeOK
<1>k. ASSUME run' \in [Runs -> State], Open', UNCHANGED <<source, disk, faults>>
      PROVE  TInv'
  BY <1>k DEF TInv, TypeOK, disk, faults
<1>1. CASE Begin(r)
  <2> DEFINE state == [Idle EXCEPT !.pc = IF Cached THEN "done" ELSE "stat"]
  <2>1. state \in State /\ state.pc # "copy"
    BY TransferConstants DEF Idle, State, NoFile
  <2> QED  BY <1>1, <1>k, <2>1, BecomeTyped DEF Begin
<1>2. CASE StatPart(r)
  <2> DEFINE state == [s EXCEPT !.pc = "ask", !.offset = SizeOf(part)]
  <2>1. SizeOf(part) \in Nat
    BY <1>s DEF SizeOf
  <2>2. state \in State /\ state.pc # "copy"
    BY <1>r, <2>1 DEF State
  <2> QED  BY <1>2, <1>k, <2>2, BecomeTyped DEF StatPart
<1>3. CASE Ask(r)
  <2>1. CASE Fail(r)
    BY <1>3, <2>1, <1>k, FailTyped DEF Ask
  <2>2. CASE ~Fail(r)
    <3> DEFINE ranged == s.offset > 0 /\ Len(source) > 0
               state == [s EXCEPT !.pc = "answered", !.append = ranged,
                           !.body = source, !.end = Len(source),
                           !.next = IF ranged THEN s.offset ELSE 0]
    <3>1. Become(r, state) /\ UNCHANGED <<source, disk, faults>>
      BY <1>3, <2>2 DEF Ask
    <3>2. Len(source) \in Nat /\ ranged \in BOOLEAN /\ s.offset \in Nat
      BY <1>r, <1>s, ContentsAreSequences DEF State
    <3>3. state \in State /\ state.pc # "copy"
      BY <1>r, <1>s, <3>2 DEF State
    <3> QED  BY <3>1, <3>3, <1>k, BecomeTyped
  <2> QED  BY <2>1, <2>2
<1>4. CASE OpenPart(r)
  <2>1. PICK i \in IF part = NoFile THEN Unused ELSE {part} :
          /\ part' = i
          /\ data' = IF part = NoFile \/ Restarts(r) THEN [data EXCEPT ![i] = <<>>] ELSE data
          /\ Become(r, [s EXCEPT !.pc = "copy", !.fd = i, !.at = 0])
    BY <1>4 DEF OpenPart
  <2>2. i \in Inodes /\ i # NoFile /\ i # object
    BY <1>s, InodeNumbers DEF Unused
  <2>3. [s EXCEPT !.pc = "copy", !.fd = i, !.at = 0] \in State
    BY <1>r, <2>2 DEF State
  <2>4. run' \in [Runs -> State] /\ Open'
    <3> DEFINE state == [s EXCEPT !.pc = "copy", !.fd = i, !.at = 0]
    <3>1. state.fd = i
      BY <1>r DEF State
    <3> HIDE DEF state
    <3> QED  BY <2>1, <2>2, <2>3, <3>1, BecomeTyped DEF state
  <2>5. data' \in [Inodes -> Seq(Nat)]
    BY <1>s, <2>1, <2>2
  <2>6. UNCHANGED <<source, object, faults>>
    BY <1>4 DEF OpenPart
  <2> QED
    BY <2>1, <2>2, <2>4, <2>5, <2>6 DEF TInv, TypeOK, faults
<1>5. CASE Copy(r)
  <2> DEFINE at == IF s.append THEN Len(data[s.fd]) ELSE s.at
             block == s.body[s.next + 1]
             state == [s EXCEPT !.next = @ + 1, !.at = @ + 1]
  <2>1. /\ s.pc = "copy" /\ s.next < Len(s.body)
        /\ data' = [data EXCEPT ![s.fd] = WriteAt(@, at, block)]
        /\ Become(r, state)
        /\ UNCHANGED <<source, part, object, faults>>
    BY <1>5 DEF Copy, At
  <2>2. s.fd \in Inodes /\ s.next \in Nat /\ s.at \in Nat /\ s.body \in Contents
        /\ s.append \in BOOLEAN
    BY <1>r, <2>1 DEF State
  <2>3. data[s.fd] \in Seq(Nat) /\ at \in Nat
    BY <1>s, <2>2
  <2>4. block \in Nat
    BY <2>1, <2>2, ContentsAreSequences
  <2>5. WriteAt(data[s.fd], at, block) \in Seq(Nat)
    BY <2>3, <2>4, WriteAtType
  <2>6. data' \in [Inodes -> Seq(Nat)]
    BY <1>s, <2>1, <2>2, <2>5
  <2>7. state \in State /\ state.fd = s.fd
    <3>1. s.next + 1 \in Nat /\ s.at + 1 \in Nat
      BY <2>2
    <3>2. state \in State
      BY <1>r, <3>1 DEF State
    <3>3. state.fd = s.fd
      BY <1>r DEF State
    <3> QED  BY <3>2, <3>3
  <2>8. run' \in [Runs -> State] /\ Open'
    BY <1>r, <2>1, <2>7, BecomeTyped
  <2> QED
    BY <1>s, <2>1, <2>6, <2>8 DEF TInv, TypeOK, faults
<1>6. CASE CopyEnd(r)
  <2> DEFINE state == [s EXCEPT !.pc = "sum", !.fd = NoFile]
  <2>1. state \in State /\ state.pc # "copy"
    BY <1>r DEF State
  <2> QED  BY <1>6, <1>k, <2>1, BecomeTyped DEF CopyEnd
<1>7. CASE CopyShort(r)
  BY <1>7, <1>k, FailTyped DEF CopyShort
<1>8. CASE Sum(r)
  <2> DEFINE state == [s EXCEPT !.pc = "rename"]
  <2>1. state \in State /\ state.pc # "copy"
    BY <1>r DEF State
  <2>2. (Become(r, state) \/ Fail(r)) /\ UNCHANGED <<source, disk, faults>>
    BY <1>8 DEF Sum
  <2> QED  BY <1>k, <2>1, <2>2, BecomeTyped, FailTyped
<1>9. CASE Rename(r)
  <2> DEFINE state == [s EXCEPT !.pc = "done"]
  <2>1. state \in State /\ state.pc # "copy"
    BY <1>r DEF State
  <2>2. Become(r, state) \/ Fail(r)
    BY <1>9 DEF Rename
  <2>3. run' \in [Runs -> State] /\ Open'
    BY <2>1, <2>2, BecomeTyped, FailTyped
  <2>4. \/ object' = part /\ part' = NoFile /\ part # NoFile
        \/ UNCHANGED <<part, object>>
    BY <1>9 DEF Rename, MovedPart
  <2>5. UNCHANGED <<source, data, faults>>
    BY <1>9 DEF Rename
  <2> QED  BY <1>s, <2>3, <2>4, <2>5 DEF TInv, TypeOK, faults
<1> QED
  BY <1>1, <1>2, <1>3, <1>4, <1>5, <1>6, <1>7, <1>8, <1>9 DEF Download

\* Only the body of an open answer changes with the file in the module.
LEMMA ChangeKeeps ==
  ASSUME TInv, NEW content \in Contents, NEW inPlace \in BOOLEAN, Change(content, inPlace)
  PROVE  /\ run' \in [Runs -> State]
         /\ \A r \in Runs : run'[r].pc = run[r].pc /\ run'[r].fd = run[r].fd
<1>1. run \in [Runs -> State]
  BY DEF TInv, TypeOK
<1>2. run' = [r \in Runs |->
                IF inPlace /\ run[r].pc \in {"answered", "copy"} /\ run[r].body = source
                THEN [run[r] EXCEPT !.body = content] ELSE run[r]]
  BY DEF Change
<1>3. ASSUME NEW r \in Runs
      PROVE  /\ [run[r] EXCEPT !.body = content] \in State
             /\ [run[r] EXCEPT !.body = content].pc = run[r].pc
             /\ [run[r] EXCEPT !.body = content].fd = run[r].fd
  BY <1>1, <1>3 DEF State
<1> QED  BY <1>1, <1>2, <1>3

LEMMA NextTyped == TInv /\ [Next]_vars => TInv'
<1> SUFFICES ASSUME TInv, [Next]_vars PROVE TInv'
  OBVIOUS
<1>1. CASE UNCHANGED vars
  BY <1>1 DEF vars, disk, faults, TInv, TypeOK, Open, At
<1>2. ASSUME NEW r \in Runs, Download(r) PROVE TInv'
  BY <1>2, DownloadTyped
<1>3. ASSUME NEW r \in Runs, Again(r) PROVE TInv'
  <2>1. Fail(r) /\ UNCHANGED <<source, disk, faults>>
    BY <1>3 DEF Again, Fail
  <2>2. run' \in [Runs -> State] /\ Open'
    BY <2>1, FailTyped
  <2> QED  BY <2>1, <2>2 DEF TInv, TypeOK, disk, faults
<1>4. ASSUME NEW r \in Runs, Cut(r) PROVE TInv'
  <2>1. run' \in [Runs -> State] /\ Open'
    BY <1>4, FailTyped DEF Cut
  <2> QED  BY <1>4, <2>1, TransferConstants DEF Cut, TInv, TypeOK, disk
<1>5. ASSUME NEW r \in Runs, Kill(r) PROVE TInv'
  <2>1. run' \in [Runs -> State] /\ Open'
    BY <1>5, FailTyped DEF Kill
  <2> QED  BY <1>5, <2>1, TransferConstants DEF Kill, TInv, TypeOK, disk
<1>6. ASSUME NEW content \in Contents, NEW inPlace \in BOOLEAN, Change(content, inPlace)
      PROVE  TInv'
  <2>1. run' \in [Runs -> State] /\ Open'
    BY <1>6, ChangeKeeps DEF TInv, Open, At
  <2> QED  BY <1>6, <2>1, TransferConstants DEF Change, TInv, TypeOK, disk
<1> QED
  BY <1>1, <1>2, <1>3, <1>4, <1>5, <1>6 DEF Next

\* Every state is well typed, whatever the runs do to each other.
THEOREM TransferTypeCorrect == Spec => []TypeOK
<1>1. TInv => TypeOK
  BY DEF TInv
<1> QED  BY <1>1, InitTyped, NextTyped, PTL DEF Spec
-----------------------------------------------------------------------------
\* A step that leaves the disk alone, and in which the run neither starts to
\* copy nor finds its file verified.
LEMMA QuietStep ==
  ASSUME Tidy, UNCHANGED disk,
         \A r \in Runs : \/ run'[r].pc = run[r].pc /\ run'[r].fd = run[r].fd
                         \/ run'[r].pc \notin {"copy", "rename"}
  PROVE  Tidy'
<1>1. UNCHANGED <<data, part, object>>
  BY DEF disk
<1>2. ASSUME NEW r \in Runs, run'[r].pc = "copy"
      PROVE  part' # NoFile /\ run'[r].fd = part'
  BY <1>1, <1>2 DEF Tidy, At
<1>3. ASSUME NEW r \in Runs, run'[r].pc = "rename"
      PROVE  part' # NoFile /\ data'[part'] = Wanted
  BY <1>1, <1>3 DEF Tidy, At
<1> QED  BY <1>1, <1>2, <1>3 DEF Tidy, At, StoredObjectVerified

LEMMA DownloadTidy ==
  ASSUME TInv, Tidy, OneRun, NEW r \in Runs, Download(r)
  PROVE  Tidy'
<1> DEFINE s == run[r]
<1>r. s \in State /\ run \in [Runs -> State] /\ (\A q \in Runs : q = r)
  BY DEF TInv, TypeOK, OneRun
<1>s. /\ data \in [Inodes -> Seq(Nat)]
      /\ part \in Inodes \cup {NoFile} /\ object \in Inodes \cup {NoFile}
      /\ (part = NoFile \/ part # object)
  BY DEF TInv, TypeOK
<1>b. ASSUME NEW state \in State, Become(r, state) PROVE run'[r] = state
  BY <1>r, <1>b DEF Become
<1>f. ASSUME Fail(r) PROVE run'[r].pc = "idle"
  BY <1>r, <1>f DEF Fail, Become, Idle
<1>1. CASE Begin(r) \/ StatPart(r) \/ Ask(r) \/ CopyEnd(r) \/ CopyShort(r)
  <2>1. UNCHANGED disk
    BY <1>1 DEF Begin, StatPart, Ask, CopyEnd, CopyShort
  <2>2. run'[r].pc \notin {"copy", "rename"}
    <3>1. CASE Begin(r)
      BY <1>r, <3>1 DEF Begin, Become, Idle
    <3>2. CASE StatPart(r) \/ CopyEnd(r)
      BY <1>r, <3>2 DEF StatPart, CopyEnd, Become, State
    <3>3. CASE Ask(r) /\ ~Fail(r)
      <4> DEFINE ranged == s.offset > 0 /\ Len(source) > 0
                 state == [s EXCEPT !.pc = "answered", !.append = ranged,
                             !.body = source, !.end = Len(source),
                             !.next = IF ranged THEN s.offset ELSE 0]
      <4>1. Become(r, state)
        BY <3>3 DEF Ask
      <4>2. state.pc = "answered"
        <5> HIDE DEF ranged
        <5> QED  BY <1>r DEF State
      <4>3. run'[r] = state
        <5> HIDE DEF state
        <5> QED  BY <1>r, <4>1 DEF Become
      <4> HIDE DEF state
      <4> QED  BY <4>2, <4>3
    <3>4. CASE Fail(r)
      BY <1>f, <3>4
    <3> QED  BY <1>1, <3>1, <3>2, <3>3, <3>4 DEF CopyShort
  <2> QED  BY <1>r, <2>1, <2>2, QuietStep
<1>2. CASE OpenPart(r)
  <2>1. PICK i \in IF part = NoFile THEN Unused ELSE {part} :
          /\ part' = i
          /\ data' = IF part = NoFile \/ Restarts(r) THEN [data EXCEPT ![i] = <<>>] ELSE data
          /\ Become(r, [s EXCEPT !.pc = "copy", !.fd = i, !.at = 0])
    BY <1>2 DEF OpenPart
  <2>2. i \in Inodes /\ i # NoFile /\ i # object /\ object' = object
    BY <1>2, <1>s, <2>1, InodeNumbers DEF Unused, OpenPart
  <2>3. run'[r].pc = "copy" /\ run'[r].fd = i
    BY <1>r, <2>1 DEF Become, State
  <2>4. object # NoFile => data'[object] = data[object]
    BY <1>s, <2>1, <2>2
  <2> QED
    BY <1>r, <2>1, <2>2, <2>3, <2>4 DEF Tidy, At, StoredObjectVerified
<1>3. CASE Copy(r)
  <2>1. /\ s.pc = "copy" /\ part # NoFile /\ s.fd = part
        /\ UNCHANGED <<part, object>>
    BY <1>3 DEF Copy, Tidy, At
  <2>2. object # NoFile => data'[object] = data[object]
    BY <1>3, <1>s, <2>1 DEF Copy
  <2>3. run'[r].pc = "copy" /\ run'[r].fd = s.fd
    BY <1>3, <1>r, <2>1 DEF Copy, Become, State
  <2> QED
    BY <1>r, <2>1, <2>2, <2>3 DEF Tidy, At, StoredObjectVerified
<1>4. CASE Sum(r)
  <2>1. UNCHANGED disk
    BY <1>4 DEF Sum
  <2>2. CASE Fail(r)
    BY <1>r, <1>f, <2>1, <2>2, QuietStep
  <2>3. CASE ~Fail(r)
    <3>1. part # NoFile /\ data[part] = Wanted
      BY <1>4, <2>3 DEF Sum, Verified
    <3>2. run'[r].pc = "rename"
      BY <1>4, <2>3, <1>r DEF Sum, Become, State
    <3> QED  BY <1>r, <2>1, <3>1, <3>2 DEF Tidy, At, disk, StoredObjectVerified
  <2> QED  BY <2>2, <2>3
<1>5. CASE Rename(r)
  <2>1. part # NoFile /\ data[part] = Wanted
    BY <1>5 DEF Rename, Tidy, At
  <2>2. object' = part /\ UNCHANGED data
    BY <1>5, <2>1 DEF Rename
  <2>3. run'[r].pc = "done"
    BY <1>5, <1>r, <2>1 DEF Rename, Become, State
  <2> QED  BY <1>r, <2>1, <2>2, <2>3 DEF Tidy, At, StoredObjectVerified
<1> QED
  BY <1>1, <1>2, <1>3, <1>4, <1>5 DEF Download

LEMMA NextTidy == TInv /\ Tidy /\ OneRun /\ [Next]_vars => Tidy'
<1> SUFFICES ASSUME TInv, Tidy, OneRun, [Next]_vars PROVE Tidy'
  OBVIOUS
<1>1. CASE UNCHANGED vars
  <2>1. UNCHANGED disk /\ UNCHANGED run
    BY <1>1 DEF vars, disk
  <2> QED  BY <2>1, QuietStep
<1>2. ASSUME NEW r \in Runs, Download(r) PROVE Tidy'
  BY <1>2, DownloadTidy
<1>3. ASSUME NEW r \in Runs, Again(r) \/ Cut(r) \/ Kill(r) PROVE Tidy'
  <2>1. UNCHANGED disk /\ Fail(r)
    BY <1>3 DEF Again, Cut, Kill, Fail
  <2>2. run'[r].pc = "idle" /\ \A q \in Runs : q = r
    BY <2>1 DEF Fail, Become, Idle, TInv, TypeOK, OneRun
  <2> QED  BY <2>1, <2>2, QuietStep
<1>4. ASSUME NEW content \in Contents, NEW inPlace \in BOOLEAN, Change(content, inPlace)
      PROVE  Tidy'
  BY <1>4, ChangeKeeps, QuietStep DEF Change
<1> QED
  BY <1>1, <1>2, <1>3, <1>4 DEF Next

\* A stored object always has its checksum, for any blocks and any number of
\* changes, lost connections and kills, if runs of one target do not overlap.
THEOREM ObjectVerified == ASSUME OneRun PROVE Spec => []StoredObjectVerified
<1>1. Init => TInv /\ Tidy
  BY InitTyped
<1>2. TInv /\ Tidy /\ [Next]_vars => TInv' /\ Tidy'
  BY NextTyped, NextTidy, OneRun
<1>3. Tidy => StoredObjectVerified
  BY DEF Tidy
<1> QED  BY <1>1, <1>2, <1>3, PTL DEF Spec

\* Only Rename gives the object another file, and that one is verified.
LEMMA StepStores ==
  ASSUME TInv, Tidy, OneRun, [Next]_vars
  PROVE  [Store!Store]_(IF object = NoFile THEN {} ELSE {data[object]})
<1> DEFINE Stored == IF object = NoFile THEN {} ELSE {data[object]}
<1>1. Tidy'
  BY NextTidy
<1>2. object # NoFile => object' # NoFile
  <2>1. ASSUME NEW r \in Runs, Download(r), ~Rename(r) PROVE object' = object
    <3>1. UNCHANGED disk => object' = object
      BY DEF disk
    <3> QED
      BY <2>1, <3>1 DEF Download, Begin, StatPart, Ask, OpenPart, Copy, CopyEnd, CopyShort, Sum
  <2>2. ASSUME NEW r \in Runs, Rename(r) PROVE object' = object \/ object' # NoFile
    BY <2>2 DEF Rename
  <2>3. object' = object \/ object' # NoFile
    BY <2>1, <2>2 DEF Next, Again, Cut, Kill, Change, disk, vars
  <2> QED  BY <2>3
<1>3. Stored \in {{}, {Wanted}} /\ Stored' \in {{}, {Wanted}}
  BY <1>1 DEF Tidy, StoredObjectVerified
<1>4. Stored # {} => Stored' # {}
  BY <1>2
<1> QED  BY <1>3, <1>4 DEF Store!Store

\* The transfers of an object store it at once and for good, if runs of one
\* target do not overlap: see ImplementsStore.
THEOREM TransferIsStore == ASSUME OneRun PROVE Spec => ImplementsStore
<1>1. Init => TInv /\ Tidy /\ Store!Init
  BY InitTyped DEF Init, Store!Init
<1>2. TInv /\ Tidy /\ [Next]_vars => TInv' /\ Tidy'
  BY NextTyped, NextTidy, OneRun
<1>3. TInv /\ Tidy /\ [Next]_vars
        => [Store!Store]_(IF object = NoFile THEN {} ELSE {data[object]})
  BY StepStores, OneRun
<1> QED  BY <1>1, <1>2, <1>3, PTL DEF Spec, ImplementsStore, Store!Spec
-----------------------------------------------------------------------------
\* A step that leaves the disk alone and the run where it is, or takes it out of
\* its request.
LEMMA RestingStep ==
  ASSUME Resuming, UNCHANGED disk,
         \A r \in Runs : \/ /\ run'[r].pc = run[r].pc /\ run'[r].offset = run[r].offset
                            /\ run'[r].append = run[r].append /\ run'[r].end = run[r].end
                         \/ run'[r].pc \notin {"ask", "answered"}
  PROVE  Resuming'
<1>1. SizeOf(part)' = SizeOf(part)
  BY DEF disk, SizeOf
<1> QED  BY <1>1 DEF Resuming, At

LEMMA DownloadResumes ==
  ASSUME TInv, Tidy, Resuming, OneRun, NEW r \in Runs, Download(r)
  PROVE  Resuming'
<1> DEFINE s == run[r]
<1>r. s \in State /\ run \in [Runs -> State] /\ (\A q \in Runs : q = r)
  BY DEF TInv, TypeOK, OneRun
<1>s. /\ data \in [Inodes -> Seq(Nat)] /\ part \in Inodes \cup {NoFile}
      /\ source \in Contents
  BY DEF TInv, TypeOK
<1>d. ASSUME run'[r].pc \notin {"ask", "answered"} PROVE Resuming'
  BY <1>r, <1>d DEF Resuming, At
<1>f. ASSUME Fail(r) PROVE Resuming'
  <2>1. run'[r].pc = "idle"
    BY <1>r, <1>f DEF Fail, Become, Idle
  <2> QED  BY <2>1, <1>d
<1>1. CASE Begin(r)
  BY <1>r, <1>1, <1>d DEF Begin, Become, Idle
<1>2. CASE StatPart(r)
  <2>1. run'[r].pc = "ask" /\ run'[r].offset = SizeOf(part)
    BY <1>r, <1>2 DEF StatPart, Become, State
  <2>2. SizeOf(part)' = SizeOf(part)
    BY <1>2 DEF StatPart, disk, SizeOf
  <2> QED  BY <1>r, <2>1, <2>2 DEF Resuming, At
<1>3. CASE Ask(r) /\ ~Fail(r)
  <2> DEFINE ranged == s.offset > 0 /\ Len(source) > 0
             state == [s EXCEPT !.pc = "answered", !.append = ranged,
                         !.body = source, !.end = Len(source),
                         !.next = IF ranged THEN s.offset ELSE 0]
  <2>1. Become(r, state) /\ UNCHANGED disk /\ s.offset = SizeOf(part)
    BY <1>3 DEF Ask, Resuming, At
  <2>2. s.offset \in Nat /\ Len(source) \in Nat /\ ranged \in BOOLEAN
    BY <1>r, <1>s, ContentsAreSequences DEF State
  <2>3. state.pc = "answered" /\ state.append = ranged /\ state.end = Len(source)
    <3> HIDE DEF ranged
    <3> QED  BY <1>r DEF State
  <2>4. run'[r] = state
    <3> HIDE DEF state
    <3> QED  BY <1>r, <2>1 DEF Become
  <2>5. SizeOf(part)' = SizeOf(part)
    BY <2>1 DEF disk, SizeOf
  <2>6. ranged \/ SizeOf(part) = 0 \/ Len(source) = 0
    BY <2>1, <2>2
  <2>7. run'[r].pc = "answered" /\ (run'[r].append \/ SizeOf(part) = 0 \/ run'[r].end = 0)
    <3> HIDE DEF state, ranged
    <3> QED  BY <2>3, <2>4, <2>6
  <2> HIDE DEF state
  <2> QED  BY <1>r, <2>5, <2>7 DEF Resuming, At
<1>4. CASE OpenPart(r) \/ Copy(r) \/ CopyEnd(r) \/ CopyShort(r) \/ Sum(r) \/ Rename(r)
  <2>1. CASE Fail(r)
    BY <1>f, <2>1
  <2>2. CASE ~Fail(r)
    <3>1. run'[r].pc \in {"copy", "sum", "rename", "done"}
      <4>1. CASE OpenPart(r)
        BY <1>r, <4>1 DEF OpenPart, Become, State
      <4>2. CASE Copy(r)
        BY <1>r, <4>2 DEF Copy, Become, State, At
      <4>3. CASE CopyEnd(r) \/ CopyShort(r)
        BY <1>r, <2>2, <4>3 DEF CopyEnd, CopyShort, Become, State
      <4>4. CASE Sum(r) \/ Rename(r)
        BY <1>r, <2>2, <4>4 DEF Sum, Rename, Become, State
      <4> QED  BY <1>4, <4>1, <4>2, <4>3, <4>4
    <3> QED  BY <3>1, <1>d
  <2> QED  BY <2>1, <2>2
<1> QED
  BY <1>1, <1>2, <1>3, <1>4, <1>f DEF Download

LEMMA NextResumes == TInv /\ Tidy /\ Resuming /\ OneRun /\ [Next]_vars => Resuming'
<1> SUFFICES ASSUME TInv, Tidy, Resuming, OneRun, [Next]_vars PROVE Resuming'
  OBVIOUS
<1>1. CASE UNCHANGED vars
  <2>1. UNCHANGED disk /\ UNCHANGED run
    BY <1>1 DEF vars, disk
  <2> QED  BY <2>1, RestingStep
<1>2. ASSUME NEW r \in Runs, Download(r) PROVE Resuming'
  BY <1>2, DownloadResumes
<1>3. ASSUME NEW r \in Runs, Again(r) \/ Cut(r) \/ Kill(r) PROVE Resuming'
  <2>1. UNCHANGED disk /\ Fail(r)
    BY <1>3 DEF Again, Cut, Kill, Fail
  <2>2. run'[r].pc = "idle" /\ \A q \in Runs : q = r
    BY <2>1 DEF Fail, Become, Idle, TInv, TypeOK, OneRun
  <2> QED  BY <2>1, <2>2, RestingStep
<1>4. ASSUME NEW content \in Contents, NEW inPlace \in BOOLEAN, Change(content, inPlace)
      PROVE  Resuming'
  <2>1. run \in [Runs -> State]
    BY DEF TInv, TypeOK
  <2>2. ASSUME NEW r \in Runs
        PROVE  /\ run'[r].pc = run[r].pc /\ run'[r].offset = run[r].offset
               /\ run'[r].append = run[r].append /\ run'[r].end = run[r].end
    <3>1. run'[r] = run[r] \/ run'[r] = [run[r] EXCEPT !.body = content]
      BY <1>4, <2>1 DEF Change
    <3> QED  BY <2>1, <3>1 DEF State
  <2>3. UNCHANGED disk
    BY <1>4 DEF Change
  <2> QED  BY <2>2, <2>3, RestingStep
<1> QED
  BY <1>1, <1>2, <1>3, <1>4 DEF Next

\* Writing a block never makes a file shorter.
LEMMA WriteAtGrows ==
  ASSUME NEW file \in Seq(Nat), NEW at \in Nat, NEW block \in Nat
  PROVE  Len(WriteAt(file, at, block)) >= Len(file)
<1> DEFINE size == IF at >= Len(file) THEN at + 1 ELSE Len(file)
           f == [k \in 1 .. size |->
                   IF k = at + 1 THEN block ELSE IF k <= Len(file) THEN file[k] ELSE Hole]
<1>1. size \in Nat /\ size >= Len(file)
  OBVIOUS
<1>2. Len(f) = size
  <2>1. DOMAIN f = 1 .. size
    OBVIOUS
  <2>2. f \in Seq(Nat)
    BY WriteAtType DEF WriteAt
  <2> HIDE DEF f, size
  <2> QED  BY <1>1, <2>1, <2>2
<1>3. WriteAt(file, at, block) = f
  BY DEF WriteAt
<1> HIDE DEF f, size
<1> QED  BY <1>1, <1>2, <1>3

\* What a step keeps of the part file that is there.
Keeps == part # NoFile => Len(data'[part]) >= Len(data[part])

LEMMA DownloadKeeps ==
  ASSUME TInv, Tidy, Resuming, OneRun, NEW r \in Runs, Download(r)
  PROVE  Keeps \/ (At(r, "answered") /\ run[r].end = 0)
<1> DEFINE s == run[r]
<1>s. /\ data \in [Inodes -> Seq(Nat)] /\ part \in Inodes \cup {NoFile}
      /\ s \in State
  BY DEF TInv, TypeOK
<1>l. part # NoFile => data[part] \in Seq(Nat) /\ Len(data[part]) \in Nat
  BY <1>s
<1>1. CASE OpenPart(r)
  <2>1. SUFFICES ASSUME part # NoFile, s.end # 0, ~s.append
                 PROVE  Len(data'[part]) >= Len(data[part])
    BY <1>l, <1>1 DEF OpenPart, Restarts, Keeps, At
  <2>2. Len(data[part]) = 0
    BY <1>1, <2>1 DEF OpenPart, Resuming, At, SizeOf
  <2>3. data' = [data EXCEPT ![part] = <<>>]
    BY <1>1, <2>1 DEF OpenPart, Restarts
  <2> QED  BY <1>s, <2>1, <2>2, <2>3
<1>2. CASE Copy(r)
  <2> DEFINE at == IF s.append THEN Len(data[s.fd]) ELSE s.at
             block == s.body[s.next + 1]
  <2>1. /\ s.pc = "copy" /\ s.next < Len(s.body)
        /\ data' = [data EXCEPT ![s.fd] = WriteAt(@, at, block)]
        /\ part # NoFile /\ s.fd = part
    BY <1>2 DEF Copy, At, Tidy
  <2>2. at \in Nat
    BY <1>s, <1>l, <2>1 DEF State
  <2>3. block \in Nat
    BY <1>s, <2>1, ContentsAreSequences DEF State
  <2>4. data'[part] = WriteAt(data[part], at, block)
    BY <1>s, <2>1
  <2>5. Len(WriteAt(data[part], at, block)) >= Len(data[part])
    BY <1>l, <2>1, <2>2, <2>3, WriteAtGrows
  <2> QED  BY <2>4, <2>5 DEF Keeps
<1>3. CASE UNCHANGED data
  BY <1>3, <1>l DEF Keeps
<1> QED
  BY <1>1, <1>2, <1>3
     DEF Download, Begin, StatPart, Ask, CopyEnd, CopyShort, Sum, Rename, disk

\* What was received of an object is kept by every later step, for any blocks and
\* any number of changes, lost connections and kills, if runs of one target do
\* not overlap; unless the file has become empty.
THEOREM NothingThrownAway == ASSUME OneRun PROVE Spec => ReceivedIsKept
<1>1. Init => TInv /\ Tidy /\ Resuming
  BY InitTyped DEF Init, Resuming, At, Idle
<1>2. TInv /\ Tidy /\ Resuming /\ [Next]_vars => TInv' /\ Tidy' /\ Resuming'
  BY NextTyped, NextTidy, NextResumes, OneRun
<1>3. TInv /\ Tidy /\ Resuming /\ [Next]_vars =>
        [\/ part # NoFile => Len(data'[part]) >= Len(data[part])
         \/ \E r \in Runs : At(r, "answered") /\ run[r].end = 0]_vars
  <2> SUFFICES ASSUME TInv, Tidy, Resuming, Next
               PROVE  Keeps \/ \E r \in Runs : At(r, "answered") /\ run[r].end = 0
    BY DEF Keeps
  <2>1. ASSUME NEW r \in Runs, Download(r) PROVE Keeps \/ (At(r, "answered") /\ run[r].end = 0)
    BY <2>1, DownloadKeeps, OneRun
  <2>2. CASE UNCHANGED data
    <3>1. part # NoFile => Len(data[part]) \in Nat
      BY DEF TInv, TypeOK
    <3> QED  BY <2>2, <3>1 DEF Keeps
  <2> QED  BY <2>1, <2>2 DEF Next, Again, Cut, Kill, Change, disk
<1> QED  BY <1>1, <1>2, <1>3, PTL DEF Spec, ReceivedIsKept
=============================================================================
