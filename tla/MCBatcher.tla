----------------------------- MODULE MCBatcher -----------------------------
(* Small instances of Batcher.  With MaxEvents = 3 and MaxKeys = 2:         *)
(*   r1 and r3 each hold two events of one key: neither fills a batch and   *)
(*     they do not fit into one;                                            *)
(*   r2 holds one event of r1's key: it fits next to either, fills the      *)
(*     batch, and its key merges with r1's;                                 *)
(*   r4 holds two other keys: it fills a batch and, although its events     *)
(*     would fit next to r2, its keys do not;                               *)
(*   r5 is larger than a batch.                                           *)
EXTENDS Batcher, TLC

CONSTANTS r1, r2, r3, r4, r5, ka, kb, kc

MCRequest ==
  [r \in Requests |->
     CASE r = r1 -> [events |-> 2, increments |-> ka :> 2]
       [] r = r2 -> [events |-> 1, increments |-> ka :> 1]
       [] r = r3 -> [events |-> 2, increments |-> kb :> 2]
       [] r = r4 -> [events |-> 2, increments |-> (kb :> 1) @@ (kc :> 1)]
       [] r = r5 -> [events |-> 4, increments |-> kb :> 4]]
=============================================================================
