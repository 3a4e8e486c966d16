-------------------------- MODULE MCObjectTransfer -------------------------
(* Instances of ObjectTransfer for TLC. *)
EXTENDS ObjectTransfer

\* Three blocks; one that differs in its last block, a shorter and an empty one.
Three == <<1, 2, 3>>
Various == {Three, <<1, 2, 4>>, <<1, 2>>, <<>>}
Same == {Three}
=============================================================================
