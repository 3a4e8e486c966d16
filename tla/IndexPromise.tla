---------------------------- MODULE IndexPromise ----------------------------
(***************************************************************************)
(* What an index of a module's tree promises, with no events, watches or   *)
(* timers: it may only be behind while a change waits for its scan or the  *)
(* scan for its end, and a scan that no change disturbed ends with exactly *)
(* what there is.  SnapshotIndexer keeps this promise step by step, and    *)
(* SyncServer has no more of the indexer than it.                          *)
(***************************************************************************)
VARIABLES
  view,    \* the index that would describe the tree
  index,   \* the index there is
  dirty,   \* has a change to be answered by a scan?
  scan     \* is a scan going on?

vars == <<view, index, dirty, scan>>

Init == dirty \in BOOLEAN /\ scan \in BOOLEAN /\ (scan \/ dirty \/ index = view)

\* The tree becomes whatever it becomes, and this never goes unnoticed.
Change ==
  /\ dirty' = TRUE
  /\ UNCHANGED <<index, scan>>

\* A scan answers the changes that came before it, and some of them again.
Begin ==
  /\ dirty /\ dirty' \in BOOLEAN
  /\ ~scan /\ scan' = TRUE
  /\ UNCHANGED <<view, index>>

\* What a scan found that a change overtook may be anything.
Publish ==
  /\ scan /\ scan' = FALSE
  /\ dirty \/ index' = view
  /\ UNCHANGED <<view, dirty>>

\* Only a change makes a scan fail.
Fail ==
  /\ scan /\ scan' = FALSE
  /\ dirty
  /\ UNCHANGED <<view, index, dirty>>

\* The process ends; the next one begins with a scan.
Crash ==
  /\ scan' = FALSE /\ dirty' = TRUE
  /\ UNCHANGED <<view, index>>

Next == Change \/ Begin \/ Publish \/ Fail \/ Crash

Spec == Init /\ [][Next]_vars
=============================================================================
