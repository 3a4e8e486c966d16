--------------------------- MODULE MCLockManager ---------------------------
(* Small instances of LockManager for TLC: the module locks of "core",     *)
(* "core/sub" (written "docs/../core/sub") and "docs".                     *)
EXTENDS LockManager

Core    == <<"module:core">>
Docs    == <<"module:docs">>
Sub     == <<"sub">>

NestedKeys   == {<<Core>>, <<Docs, Parent, Core, Sub>>, <<Docs, Here>>}
ShortAndLong == {1, 2}
=============================================================================
