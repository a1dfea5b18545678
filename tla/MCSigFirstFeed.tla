--------------------------- MODULE MCSigFirstFeed ---------------------------
(***************************************************************************)
(* SigFirstFeed with one lost connection as the only end, a server that    *)
(* extends items and one that extends heartbeats, and one datagram of each *)
(* kind drain skips: an unknown type, an item without its signature, and   *)
(* an empty one.                                                           *)
(***************************************************************************)
EXTENDS SigFirstFeed

MCEnds == {{Transport}}

MCVersions == {<< <<7>>, <<>> >>, << <<>>, <<7>> >>}  \* by type tag

MCOthers == {<<9, 0, 1, 101>>, <<DGSigFirst, 0, 1>>, <<>>}
=============================================================================
