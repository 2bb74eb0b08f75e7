--------------------------- MODULE MCCounterStore ---------------------------
(* Two updaters: the first applies c1 and then c2, the second c3.  c1 and   *)
(* c3 share key a, so either may overflow it for the other; c1 also writes  *)
(* key b, whose state decides about both.                                   *)
EXTENDS CounterStore, TLC

CONSTANTS c1, c2, c3, s1, s2, a, b

MCOwner == (c1 :> s1) @@ (c2 :> s1) @@ (c3 :> s2)
MCBatch == (c1 :> ((a :> 1) @@ (b :> 2))) @@ (c2 :> (b :> 1)) @@ (c3 :> (a :> 1))
=============================================================================
