---------------------------- MODULE BatchPromise ----------------------------
(***************************************************************************)
(* What the batcher promises the HTTP handler, and through it Vector, about *)
(* one request: Submit returns nil only after the request's events were     *)
(* counted, it counts them at most once, and never after refusing them.     *)
(* When Submit returns another error the events may have been counted, may   *)
(* be counted later, or never: the reply is ambiguous.  Requests that are    *)
(* merged into a batch are counted together.                                *)
(***************************************************************************)
EXTENDS Naturals

CONSTANT Requests

VARIABLES
  status,   \* per request: what its caller knows
  counted   \* per request: how often its events are in the counters

vars == <<status, counted>>

Init ==
  /\ status = [r \in Requests |-> "open"]
  /\ counted = [r \in Requests |-> 0]

Move(r, from, to) ==
  /\ status[r] = from
  /\ status' = [status EXCEPT ![r] = to]
  /\ UNCHANGED counted

Accept(r) == Move(r, "open", "accepted")
Refuse(r) == Move(r, "open", "refused")
Fail(r) == Move(r, "accepted", "failed")
Ack(r) == counted[r] = 1 /\ Move(r, "accepted", "acked")

(* One execution of the counter script on a batch. *)
Count(batch) ==
  /\ \A r \in batch : status[r] \in {"accepted", "failed"} /\ counted[r] = 0
  /\ counted' = [r \in Requests |-> counted[r] + (IF r \in batch THEN 1 ELSE 0)]
  /\ UNCHANGED status

Next ==
  \/ \E r \in Requests : Accept(r) \/ Refuse(r) \/ Fail(r) \/ Ack(r)
  \/ \E batch \in SUBSET Requests : Count(batch)

Spec == Init /\ [][Next]_vars

-----------------------------------------------------------------------------
(* The promise itself, as an invariant of the abstract specification.       *)
Kept ==
  \A r \in Requests :
    /\ counted[r] \in {0, 1}
    /\ status[r] = "acked" => counted[r] = 1
    /\ status[r] \in {"open", "refused"} => counted[r] = 0
=============================================================================
