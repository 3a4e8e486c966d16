------------------------- MODULE MCSnapshotIndexer -------------------------
(* A module of one file in the root and one or two in a subdirectory.      *)
EXTENDS SnapshotIndexer, TLC

CONSTANTS a, b, d, root

TwoFiles  == {a, b}
TwoDirOf  == (a :> root) @@ (b :> d)
=============================================================================
