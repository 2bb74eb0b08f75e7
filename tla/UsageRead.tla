----------------------------- MODULE UsageRead -----------------------------
(***************************************************************************)
(* From counters to a decision: ReadChunk and ReadCoverage of              *)
(* src/internal/tierer/redis.go, Evaluate of evaluator.go, and the hour      *)
(* windows and the counter expiry of src/internal/contracts/contracts.go,    *)
(* for one object.                                                          *)
(*                                                                         *)
(* Accesses reach the updater, which counts each under the hour of its      *)
(* arrival, some time later (batching).  The coverage producer, external,    *)
(* publishes a completed hour when every access that arrived in it is        *)
(* counted.  processChunk fixes the evaluation hour, reads the counters with *)
(* one script and the coverage with another, and evaluates.                  *)
(***************************************************************************)
EXTENDS Integers, FiniteSets

CONSTANTS
  Accesses,        \* accesses of the object
  FirstHour, LastHour,  \* bound: the hours of a run
  LowWindow, HighWindow, IncludeCurrent, LowThreshold, HighThreshold,  \* Policy
  Retention,       \* ACCESS_RETENTION, in whole hours
  LastModified,    \* the object's
  None             \* an access that has not arrived

Longest == IF LowWindow > HighWindow THEN LowWindow ELSE HighWindow

ASSUME WindowAssumption ==
  /\ LowWindow \in Nat \ {0} /\ HighWindow \in Nat \ {0}
  /\ FirstHour \in Nat /\ FirstHour >= Longest /\ LastHour \in Nat
  /\ LowThreshold \in Nat /\ HighThreshold \in Nat
  /\ IncludeCurrent \in BOOLEAN /\ LastModified \in Nat
  /\ None \notin Nat /\ IsFiniteSet(Accesses)

(* ValidateRetention: strictly more than the longest window and one hour.   *)
ASSUME RetentionAssumption == Retention \in Nat /\ Retention >= Longest + 1

Hours == FirstHour - Longest..LastHour

VARIABLES
  now,        \* the hour of the synchronized clocks
  arrival,    \* per access: the hour the updater accepted it in
  counted,    \* the accesses in the counters
  coverage,   \* the hours with the complete coverage value
  pc,         \* where processChunk is
  hour,       \* evaluationHour
  lowSum, highSum,  \* what ReadChunk returned
  result,     \* what Evaluate returned
  closed      \* history: the low window was covered when the counters were read

external == <<now, arrival, counted, coverage>>
vars == <<external, pc, hour, lowSum, highSum, result, closed>>

NoResult == [low |-> FALSE, high |-> FALSE]

Init ==
  /\ now = FirstHour
  /\ arrival = [a \in Accesses |-> None]
  /\ counted = {}
  /\ coverage \in SUBSET (FirstHour - Longest..FirstHour - 1)
  /\ pc = "idle"
  /\ hour = FirstHour
  /\ lowSum = 0 /\ highSum = 0
  /\ result = NoResult
  /\ closed = FALSE

-----------------------------------------------------------------------------
(* Windows and expiry *)

HourWindow(evaluation, hours, includeCurrent) ==
  LET end == IF includeCurrent THEN evaluation + 1 ELSE evaluation
  IN  end - hours..end - 1

LowHours == HourWindow(hour, LowWindow, FALSE)
HighHours == HourWindow(hour, HighWindow, IncludeCurrent)

(* The bug of counting the retention from the start of the hour. *)
CounterExpiryFromStart(h) == h + Retention

CounterExpiry(h) == h + 1 + Retention

(* The counter of hour h may be gone before the current hour is over. *)
Expired(h) == now + 1 > CounterExpiry(h)

Sum(hours) == Cardinality({a \in counted : arrival[a] \in hours})

-----------------------------------------------------------------------------
(* The updater, the clock and the coverage producer *)

Arrive(a) ==
  /\ arrival[a] = None
  /\ arrival' = [arrival EXCEPT ![a] = now]
  /\ UNCHANGED <<now, counted, coverage>>

Count(a) ==
  /\ arrival[a] # None /\ a \notin counted
  /\ counted' = counted \cup {a}
  /\ UNCHANGED <<now, arrival, coverage>>

Publish(h) ==
  /\ h < now
  /\ \A a \in Accesses : arrival[a] = h => a \in counted
  /\ coverage' = coverage \cup {h}
  /\ UNCHANGED <<now, arrival, counted>>

Invalidate(h) ==
  /\ coverage' = coverage \ {h}
  /\ UNCHANGED <<now, arrival, counted>>

(* A chunk is read and evaluated before the end of the hour after its own.  *)
HourPasses ==
  /\ now < LastHour
  /\ pc \in {"begun", "counters"} => now = hour
  /\ now' = now + 1
  /\ UNCHANGED <<arrival, counted, coverage>>

Environment ==
  /\ \/ \E a \in Accesses : Arrive(a) \/ Count(a)
     \/ \E h \in Hours : Publish(h) \/ Invalidate(h)
     \/ HourPasses
  /\ UNCHANGED <<pc, hour, lowSum, highSum, result, closed>>

-----------------------------------------------------------------------------
(* processChunk *)

BeginChunk ==
  /\ pc \in {"idle", "evaluated"}
  /\ pc' = "begun"
  /\ hour' = now
  /\ result' = NoResult
  /\ UNCHANGED <<external, lowSum, highSum, closed>>

(* The counter script of ReadChunk: a missing key is a zero. *)
ReadCounters ==
  /\ pc = "begun"
  /\ pc' = "counters"
  /\ lowSum' = Sum({h \in LowHours : ~Expired(h)})
  /\ highSum' = Sum({h \in HighHours : ~Expired(h)})
  /\ closed' = (LowHours \subseteq coverage)
  /\ UNCHANGED <<external, hour, result>>

(* The bugs of comparing with <= and >=. *)
EvaluateInclusive(complete) ==
  [low |-> complete /\ LastModified <= hour - LowWindow /\ lowSum <= LowThreshold,
   high |-> highSum >= HighThreshold]

Evaluate(complete) ==
  [low |-> complete /\ LastModified <= hour - LowWindow /\ lowSum < LowThreshold,
   high |-> highSum > HighThreshold]

(* The coverage script and the evaluation. *)
ReadCoverage ==
  /\ pc = "counters"
  /\ pc' = "evaluated"
  /\ result' = Evaluate(LowHours \subseteq coverage)
  /\ UNCHANGED <<external, hour, lowSum, highSum, closed>>

Next == Environment \/ BeginChunk \/ ReadCounters \/ ReadCoverage

Spec == Init /\ [][Next]_vars

-----------------------------------------------------------------------------
(* Properties *)

(* No counter of a window can expire while a chunk may still read it: the   *)
(* retention outlives the window although it counts from the end of the     *)
(* counted hour and the evaluation hour may be over by the time of the read. *)
CountersOutliveWindow ==
  pc = "begun" => \A h \in LowHours \cup HighHours : ~Expired(h)

(* An object is high only if it was accessed more than HighThreshold times   *)
(* in the high window, also when counts arrive during the evaluation.        *)
HighSound == result.high => Sum(HighHours) > HighThreshold

(* An object is low only if it was accessed less than LowThreshold times in *)
(* the low window -- when the window was covered before the counters were   *)
(* read, so that they could not change any more.                            *)
LowSoundIfClosed == result.low /\ closed => Sum(LowHours) < LowThreshold

(* The documents ask for more.  "Publish coverage only after the producer    *)
(* has proven that all relevant audit records for the completed UTC hour    *)
(* were durably delivered and acknowledged": then a low decision on a        *)
(* complete window never misses an access counted in that window.           *)
LowSound == result.low => Sum(LowHours) < LowThreshold
=============================================================================
