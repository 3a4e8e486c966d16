---------------------------- MODULE MCMirrorRun -----------------------------
(* MirrorRun with two files in the directory 1, the second one deeper.       *)
EXTENDS MirrorRun

Apart == {}
InOne == {<<2, 1>>, <<3, 1>>}
DeepInOne == {<<3, 1>>}
=============================================================================
