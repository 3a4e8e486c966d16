----------------------------- MODULE LockPaths -----------------------------
(***************************************************************************)
(* The pure part of internal/lock/manager.go: how a lock key is cleaned,   *)
(* when two keys conflict, and which file a key is persisted in.           *)
(*                                                                         *)
(* A key is a slash-separated path, here the sequence of its segments.  A  *)
(* segment is the sequence of its words, so that the underscore of "a_b"   *)
(* (one segment, two words) and the slash of "a/b" (two segments of one    *)
(* word) stay distinguishable until normalizePath turns "/" into "_".      *)
(* The empty path << >> is ".".                                            *)
(***************************************************************************)
EXTENDS Integers, SequencesExt

Here   == <<".">>      \* the segment "."
Parent == <<"..">>     \* the segment ".."

\* filepath.Clean on a relative path: empty and "." segments vanish, ".."
\* cancels the segment before it, a leading ".." stays.
cleanPath(key) ==
  FoldLeft(LAMBDA done, seg :
             CASE seg \in {<< >>, Here} -> done
               [] seg = Parent /\ done # << >> /\ Last(done) # Parent -> Front(done)
               [] OTHER -> Append(done, seg),
           << >>, key)

\* A mutant: an ancestor of a locked path is taken for free.
overlapsBelowOnly(a, b) == IsPrefix(b, a)

\* Two clean paths conflict when one is the other or an ancestor of it; the
\* root "." is an ancestor of everything.
overlaps(a, b) == IsPrefix(a, b) \/ IsPrefix(b, a)

\* The words of the file name: segments lose their boundaries, and "." is
\* stored under the name "root".
normalizePath(path) == IF path = << >> THEN <<"root">> ELSE FlattenSeq(path)

lockFile(path) == normalizePath(path)
=============================================================================
