------------------------- MODULE MCManifestExchange -------------------------
(* ManifestExchange with a file beside, in and next to a directory.          *)
EXTENDS ManifestExchange

MCFiles == {<<"a">>, <<"tmp", "/", "a">>, <<"tmp", "a">>, <<"tmp", "/", "tmp", "/", "a">>}
MCStores == {<<"objects", "/", "a">>}
MCReserved == {<<"objects">>}
\* The root, a directory, a file.
MCSources == {<< >>, <<"tmp">>, <<"a">>}
\* Nothing, "a", "tmp", "tmp/**".
MCExcludes == {[names |-> {}, trees |-> {}], [names |-> {<<"a">>}, trees |-> {}],
               [names |-> {<<"tmp">>}, trees |-> {}],
               [names |-> {}, trees |-> {<<"tmp">>}]}
=============================================================================
