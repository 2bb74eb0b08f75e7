----------------------------- MODULE MCScanner -----------------------------
(* Bucket 2 lies between the two that are traversed; configuration "a"       *)
(* excludes it.  Bucket 3 has a directory marker.  Bucket 1 fills a chunk    *)
(* and a page with a rest.                                                  *)
EXTENDS Scanner

MCScopes == {"a", "b"}
MCBuckets == {1, 2, 3}
MCObjects == {<<1, 1>>, <<1, 2>>, <<1, 3>>, <<2, 1>>, <<3, 1>>, <<3, 2>>}
MCExcluded == [s \in MCScopes |-> IF s = "a" THEN {2} ELSE {1}]
MCDirectories == {<<3, 1>>}
=============================================================================
