----------------------------- MODULE ObjectStore -----------------------------
(***************************************************************************)
(* What the store of objects in a target promises of one object, with no   *)
(* part files, requests or faults: some day the verified content is there, *)
(* at once and for good.  ObjectTransfer keeps this promise, and it is all *)
(* that MirrorRun takes of a transfer.                                     *)
(***************************************************************************)
CONSTANT
  Wanted   \* the content that has the object's checksum

VARIABLE
  stored   \* what is stored under the object's name: nothing, or one content

Init == stored = {}

Store == stored = {} /\ stored' = {Wanted}

Spec == Init /\ [][Store]_stored
=============================================================================
