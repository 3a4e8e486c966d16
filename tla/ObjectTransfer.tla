--------------------------- MODULE ObjectTransfer --------------------------
(***************************************************************************)
(* The download of one object, downloadObject of internal/client/client.go,*)
(* against handleObject and http.ServeContent on the server.               *)
(*                                                                         *)
(* The object is named by the checksum of its content, Wanted; files hold  *)
(* sequences of blocks, so that the checksum of a file is its content.     *)
(* Runs are the client processes that sync into one target directory: they *)
(* share the part file and the object, and each may be killed between any  *)
(* two steps.  Files are modelled as inodes, because a file that is open   *)
(* stays the same file when it is renamed.                                 *)
(***************************************************************************)
EXTENDS Integers, Sequences, FiniteSets

CONSTANTS
  Runs,         \* the client processes with this target
  Contents,     \* what the file in the module may contain
  Wanted,       \* what it contained when the snapshot was taken
  MaxChanges,   \* bound on the changes of the file in the module
  MaxCuts,      \* bound on the lost connections and error answers
  MaxKills      \* bound on the killed runs

ASSUME TransferConstants ==
  /\ IsFiniteSet(Runs) /\ Wanted \in Contents
  /\ \A c \in Contents : c \in Seq(Nat \ {0})
  /\ MaxChanges \in Nat /\ MaxCuts \in Nat /\ MaxKills \in Nat

Hole == 0                              \* what a gap in a file reads as
Inodes == 1 .. Cardinality(Runs) + 2   \* those in use are open, part or object
NoFile == 0

VARIABLES
  source,   \* the content of the file in the module
  data,     \* the content of each inode of the client's disk
  part,     \* the inode of .sync-http-objects/.staging/<checksum>.part
  object,   \* the inode of .sync-http-objects/<checksum>
  run,      \* the state of each run
  changes, cuts, kills

vars == <<source, data, part, object, run, changes, cuts, kills>>
disk == <<data, part, object>>
faults == <<changes, cuts, kills>>

\* offset is what the run found in the part file, fd the inode it writes to and
\* at where it writes next.  body is the file the server reads from, from the
\* position next to the position end.
State == [pc : {"idle", "stat", "ask", "answered", "copy", "sum", "rename", "done"},
          offset : Nat, append : BOOLEAN, fd : Inodes \cup {NoFile}, at : Nat,
          body : Contents, next : Nat, end : Nat]

Idle == [pc |-> "idle", offset |-> 0, append |-> FALSE, fd |-> NoFile, at |-> 0,
         body |-> Wanted, next |-> 0, end |-> 0]

Init ==
  /\ source = Wanted
  /\ data = [i \in Inodes |-> <<>>]
  /\ part = NoFile /\ object = NoFile
  /\ run = [r \in Runs |-> Idle]
  /\ changes = 0 /\ cuts = 0 /\ kills = 0

At(r, pc) == run[r].pc = pc
Become(r, state) == run' = [run EXCEPT ![r] = state]
Fail(r) == Become(r, Idle)

SizeOf(inode) == IF inode = NoFile THEN 0 ELSE Len(data[inode])
Unused == {i \in Inodes : i \notin {part, object} /\ \A r \in Runs : run[r].fd # i}
-----------------------------------------------------------------------------
(* A stored object is taken when it is there and has the right size. *)
Cached == object # NoFile /\ Len(data[object]) = Len(Wanted)

Begin(r) ==
  /\ At(r, "idle")
  /\ Become(r, [Idle EXCEPT !.pc = IF Cached THEN "done" ELSE "stat"])
  /\ UNCHANGED <<source, disk, faults>>

StatPart(r) ==
  /\ At(r, "stat")
  /\ Become(r, [run[r] EXCEPT !.pc = "ask", !.offset = SizeOf(part)])
  /\ UNCHANGED <<source, disk, faults>>

(***************************************************************************)
(* handleObject opens the file of that moment; ServeContent answers 200,   *)
(* 206 from the offset, or 416, on which downloadObject returns the error. *)
(***************************************************************************)
Satisfiable(offset, size) == offset < size \/ size = 0

Ask(r) ==
  LET size == Len(source)
      ranged == run[r].offset > 0 /\ size > 0
  IN /\ At(r, "ask")
     /\ \/ /\ run[r].offset > 0 => Satisfiable(run[r].offset, size)
           /\ Become(r, [run[r] EXCEPT !.pc = "answered", !.append = ranged,
                           !.body = source, !.end = size,
                           !.next = IF ranged THEN run[r].offset ELSE 0])
        \/ /\ run[r].offset > 0 /\ ~Satisfiable(run[r].offset, size)
           /\ Fail(r)
     /\ UNCHANGED <<source, disk, faults>>

\* A mutant: a resumed download truncates the part file.
Truncates(r) == TRUE
\* The part file is truncated unless a range was asked for and granted.
Restarts(r) == ~run[r].append

OpenPart(r) ==
  /\ At(r, "answered")
  /\ \E i \in IF part = NoFile THEN Unused ELSE {part} :
       /\ part' = i
       /\ data' = IF part = NoFile \/ Restarts(r) THEN [data EXCEPT ![i] = <<>>] ELSE data
       /\ Become(r, [run[r] EXCEPT !.pc = "copy", !.fd = i, !.at = 0])
  /\ UNCHANGED <<source, object, faults>>

\* Blocks written behind the end leave a hole before them.
WriteAt(file, at, block) ==
  [k \in 1 .. IF at >= Len(file) THEN at + 1 ELSE Len(file) |->
     IF k = at + 1 THEN block ELSE IF k <= Len(file) THEN file[k] ELSE Hole]

Copy(r) ==
  LET s == run[r]
      at == IF s.append THEN Len(data[s.fd]) ELSE s.at
  IN /\ At(r, "copy")
     /\ s.next < s.end /\ s.next < Len(s.body)
     /\ data' = [data EXCEPT ![s.fd] = WriteAt(@, at, s.body[s.next + 1])]
     /\ Become(r, [s EXCEPT !.next = @ + 1, !.at = @ + 1])
     /\ UNCHANGED <<source, part, object, faults>>

CopyEnd(r) ==
  /\ At(r, "copy") /\ run[r].next >= run[r].end
  /\ Become(r, [run[r] EXCEPT !.pc = "sum", !.fd = NoFile])
  /\ UNCHANGED <<source, disk, faults>>

\* The file was cut shorter while it was sent: the body ends early.
CopyShort(r) ==
  /\ At(r, "copy") /\ run[r].next < run[r].end /\ run[r].next >= Len(run[r].body)
  /\ Fail(r)
  /\ UNCHANGED <<source, disk, faults>>

\* A mutant: a file of the right size is taken for the right file.
RightSize(content) == Len(content) = Len(Wanted)
Verified(content) == content = Wanted

\* fileChecksum reads the file of that name, which is left there on a mismatch.
Sum(r) ==
  /\ At(r, "sum")
  /\ \/ /\ part # NoFile /\ Verified(data[part])
        /\ Become(r, [run[r] EXCEPT !.pc = "rename"])
     \/ /\ ~(part # NoFile /\ Verified(data[part]))
        /\ Fail(r)
  /\ UNCHANGED <<source, disk, faults>>

\* A mutant: the part file is linked to the new name, not moved.
KeptPart == part
\* The part file after its renaming.
MovedPart == NoFile

Rename(r) ==
  /\ At(r, "rename")
  /\ \/ /\ part # NoFile
        /\ object' = part /\ part' = MovedPart
        /\ Become(r, [run[r] EXCEPT !.pc = "done"])
     \/ /\ part = NoFile /\ Fail(r)
        /\ UNCHANGED <<part, object>>
  /\ UNCHANGED <<source, data, faults>>
-----------------------------------------------------------------------------
(* The same object is asked for again by a later run. *)
Again(r) ==
  /\ At(r, "done")
  /\ Become(r, Idle)
  /\ UNCHANGED <<source, disk, faults>>

(* The connection is lost, the session has expired or the run was cancelled. *)
Cut(r) ==
  /\ cuts < MaxCuts /\ cuts' = cuts + 1
  /\ At(r, "ask") \/ (At(r, "copy") /\ run[r].next < run[r].end)
  /\ Fail(r)
  /\ UNCHANGED <<source, disk, changes, kills>>

Kill(r) ==
  /\ kills < MaxKills /\ kills' = kills + 1
  /\ ~At(r, "idle")
  /\ Fail(r)
  /\ UNCHANGED <<source, disk, changes, cuts>>

(***************************************************************************)
(* The file in the module changes: a new file is renamed over it, or the   *)
(* file that answers are being sent from is written to.                    *)
(***************************************************************************)
Change(content, inPlace) ==
  /\ changes < MaxChanges /\ changes' = changes + 1
  /\ source' = content
  /\ run' = [r \in Runs |->
               IF inPlace /\ run[r].pc \in {"answered", "copy"} /\ run[r].body = source
               THEN [run[r] EXCEPT !.body = content] ELSE run[r]]
  /\ UNCHANGED <<disk, cuts, kills>>

Download(r) ==
  \/ Begin(r) \/ StatPart(r) \/ Ask(r) \/ OpenPart(r)
  \/ Copy(r) \/ CopyEnd(r) \/ CopyShort(r) \/ Sum(r) \/ Rename(r)

Next ==
  \/ \E r \in Runs : Download(r) \/ Again(r) \/ Cut(r) \/ Kill(r)
  \/ \E content \in Contents, inPlace \in BOOLEAN : Change(content, inPlace)

Spec == Init /\ [][Next]_vars

\* A run that was started goes on, and the scheduler starts another after one
\* that failed.
FairSpec == Spec /\ \A r \in Runs : WF_vars(Download(r))
-----------------------------------------------------------------------------
TypeOK ==
  /\ source \in Contents
  /\ data \in [Inodes -> Seq(Nat)]
  /\ part \in Inodes \cup {NoFile} /\ object \in Inodes \cup {NoFile}
  /\ part = NoFile \/ part # object
  /\ run \in [Runs -> State]
  /\ changes \in 0 .. MaxChanges /\ cuts \in 0 .. MaxCuts /\ kills \in 0 .. MaxKills

\* The object of a checksum always has that checksum, whatever the file in the
\* module became while it was sent, and wherever runs were cut off or killed:
\* "checksum verified, then atomically moved" (README.md:185, client.go:530-544).
\* The size test that accepts a stored object (client.go:471) relies on it.
StoredObjectVerified == object # NoFile => data[object] = Wanted

Store == INSTANCE ObjectStore WITH
  stored <- IF object = NoFile THEN {} ELSE {data[object]}

\* An object comes into its place verified and whole, in one step, and from then
\* on neither a later run nor the rest of an earlier one changes or removes it
\* (README.md:185, client.go:469-475, 530-544).
ImplementsStore == Store!Spec

\* What was received of an object is never thrown away: a download that failed
\* is resumed from where it stopped (README.md:14, client.go:497-499, 511-517).
\* The one exception is that the file in the module had become empty.
ReceivedIsKept ==
  [][\/ part # NoFile => Len(data'[part]) >= Len(data[part])
     \/ \E r \in Runs : At(r, "answered") /\ run[r].end = 0]_vars

\* A download that lost connections cut off is completed by a later run, if the
\* file did not change and no run was killed (README.md:14).
CutsAreResumed == [](changes = 0 /\ kills = 0) => <>(object # NoFile)

\* The same wherever runs were killed: an object whose file stays as the snapshot
\* saw it is stored in the end (README.md:14).
EventuallyStored == <>[](source = Wanted) => <>(object # NoFile)
=============================================================================
