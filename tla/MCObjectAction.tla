--------------------------- MODULE MCObjectAction ---------------------------
(* One attempt a day for the marker, two attempts or one object's bytes for  *)
(* restores; or no limits at all.  The tags of others are alike.             *)
EXTENDS ObjectAction, TLC

MCLimits ==
  {[transition |-> [attempts |-> 1, bytes |-> 0], restore |-> [attempts |-> 2, bytes |-> 3]],
   [transition |-> [attempts |-> 0, bytes |-> 0], restore |-> [attempts |-> 0, bytes |-> 0]]}

Symmetry == Permutations(UserTags)
=============================================================================
