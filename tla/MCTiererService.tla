-------------------------- MODULE MCTiererService --------------------------
(* Two buckets: the first fills a chunk, the second leaves a partial one.    *)
(* One configuration: the liveness of a process does not depend on those    *)
(* that ran before it.                                                      *)
EXTENDS TiererService

MCScopes == {"a"}
MCBuckets == {1, 2}
MCObjects == {<<1, 1>>, <<1, 2>>, <<2, 1>>}
MCExcluded == [s \in MCScopes |-> {}]
=============================================================================
