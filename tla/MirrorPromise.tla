--------------------------- MODULE MirrorPromise ----------------------------
(***************************************************************************)
(* What the runs of a client promise the reader of the target directory,   *)
(* with no objects, links, stamps, groups or guard: a run takes a manifest *)
(* and first touches paths that the manifest has, and these only to give   *)
(* them its content; when all of them have it the run may delete what the  *)
(* manifest does not have, and report success.  It may end at any time.    *)
(***************************************************************************)
CONSTANTS
  Paths,
  Contents,
  NoFile     \* what a path without a file has for a content

VARIABLES
  files,     \* the content of every path of the target
  manifest,  \* the content of every path in the manifest of the last run
  stage      \* where the run is

vars == <<files, manifest, stage>>

Trees == [Paths -> Contents \cup {NoFile}]
InPlace == \A p \in Paths : manifest[p] # NoFile => files[p] = manifest[p]

Init ==
  /\ files \in Trees
  /\ manifest = [p \in Paths |-> NoFile]
  /\ stage = "idle"

Begin ==
  /\ stage = "idle" /\ stage' = "working"
  /\ manifest' \in Trees
  /\ UNCHANGED files

\* A path is without a file for a moment when its file is replaced.
Change(p) ==
  /\ stage = "working" /\ manifest[p] # NoFile
  /\ \E content \in {manifest[p], NoFile} : files' = [files EXCEPT ![p] = content]
  /\ UNCHANGED <<manifest, stage>>

Complete ==
  /\ stage = "working" /\ stage' = "clean"
  /\ InPlace
  /\ UNCHANGED <<files, manifest>>

Delete(p) ==
  /\ stage = "clean" /\ manifest[p] = NoFile
  /\ files' = [files EXCEPT ![p] = NoFile]
  /\ UNCHANGED <<manifest, stage>>

Succeed ==
  /\ stage = "clean" /\ stage' = "done"
  /\ UNCHANGED <<files, manifest>>

\* The run fails or is killed, or the next one is awaited.
End ==
  /\ stage # "idle" /\ stage' = "idle"
  /\ UNCHANGED <<files, manifest>>

Next ==
  \/ Begin \/ Complete \/ Succeed \/ End
  \/ \E p \in Paths : Change(p) \/ Delete(p)

Spec == Init /\ [][Next]_vars
=============================================================================
