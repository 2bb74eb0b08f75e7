-------------------------- MODULE UsageReadProofs --------------------------
(***************************************************************************)
(* A decision on the usage of an object is what the covered counters say,    *)
(* for all windows, thresholds, retentions and accesses.                     *)
(***************************************************************************)
EXTENDS UsageRead, FiniteSetTheorems, TLAPS

(* Every access of hour h is counted, and none can follow.                   *)
HourClosed(h) == h < now /\ \A a \in Accesses : arrival[a] = h => a \in counted

Shape ==
  /\ now \in Nat /\ hour \in Nat /\ FirstHour <= hour /\ hour <= now
  /\ pc \in {"idle", "begun", "counters", "evaluated"}
  /\ pc \in {"begun", "counters"} => now <= hour + 1
  /\ arrival \in [Accesses -> Nat \cup {None}]
  /\ counted \subseteq Accesses /\ \A a \in counted : arrival[a] # None
  /\ coverage \subseteq Nat /\ \A h \in coverage : HourClosed(h)
  /\ lowSum \in Nat /\ highSum \in Nat /\ closed \in BOOLEAN

(* What the chunk has read: all of the high window's accesses are still      *)
(* counted, and those of a closed low window are the same; so is what was    *)
(* concluded from them.                                                     *)
ReadInv ==
  /\ pc = "counters" => highSum <= Sum(HighHours) /\ (closed => lowSum = Sum(LowHours))
  /\ pc \in {"counters", "evaluated"} /\ closed => \A h \in LowHours : HourClosed(h)
  /\ pc # "evaluated" => result = NoResult
  /\ HighSound /\ LowSoundIfClosed

(* The hours of the windows *)
LEMMA Windows ==
  ASSUME Shape
  PROVE  /\ LowHours \subseteq Nat /\ HighHours \subseteq Nat
         /\ \A h \in LowHours \cup HighHours : h >= hour - Longest
         /\ \A h \in LowHours : h < hour
  BY WindowAssumption DEF Shape, LowHours, HighHours, HourWindow, Longest

(* Sums are numbers.                                                        *)
LEMMA SumType ==
  ASSUME Shape, NEW hours
  PROVE  Sum(hours) \in Nat
<1>1. {a \in counted : arrival[a] \in hours} \subseteq Accesses
  BY DEF Shape
<1>2. IsFiniteSet({a \in counted : arrival[a] \in hours})
  BY <1>1, WindowAssumption, FS_Subset
<1> QED
  BY <1>2, FS_CardinalityType DEF Sum

(* Counters only grow, and those of a closed window do not.                  *)
LEMMA SumGrows ==
  ASSUME Shape, Shape', Environment, NEW hours
  PROVE  /\ Sum(hours) \in Nat /\ Sum(hours)' \in Nat
         /\ Sum(hours) <= Sum(hours)'
         /\ (\A h \in hours : HourClosed(h)) => Sum(hours)' = Sum(hours)
         /\ \A h \in Nat : HourClosed(h) => HourClosed(h)'
<1> DEFINE S == {a \in counted : arrival[a] \in hours}
           T == {a \in counted' : arrival'[a] \in hours}
<1>1. \A a \in counted : a \in counted' /\ arrival'[a] = arrival[a]
  BY DEF Environment, Arrive, Count, Publish, Invalidate, HourPasses, Shape
<1>2. \A a \in Accesses : \/ arrival'[a] = arrival[a]
                          \/ arrival[a] = None /\ arrival'[a] = now /\ a \notin counted'
  BY DEF Environment, Arrive, Count, Publish, Invalidate, HourPasses, Shape
<1>3. now <= now' /\ counted' \subseteq Accesses
  BY DEF Environment, Arrive, Count, Publish, Invalidate, HourPasses, Shape
<1>4. S \subseteq T
  BY <1>1
<1>5. IsFiniteSet(T)
  BY <1>3, WindowAssumption, FS_Subset
<1>6. Cardinality(S) <= Cardinality(T)
  BY <1>4, <1>5, FS_Subset
<1>7. ASSUME \A h \in hours : HourClosed(h)
      PROVE  T \subseteq S
  BY <1>2, <1>3, <1>7 DEF HourClosed
<1>8. ASSUME NEW h \in Nat, HourClosed(h)
      PROVE  HourClosed(h)'
  BY <1>1, <1>2, <1>3, <1>8 DEF HourClosed, Shape
<1>9. /\ Sum(hours) = Cardinality(S) /\ Sum(hours)' = Cardinality(T)
      /\ Cardinality(S) \in Nat /\ Cardinality(T) \in Nat
  BY <1>4, <1>5, FS_Subset, FS_CardinalityType DEF Sum
<1>10. (\A h \in hours : HourClosed(h)) => S = T
  BY <1>4, <1>7
<1> QED
  BY <1>6, <1>8, <1>9, <1>10

(* A chunk reads its counters at the latest in the hour after its own, and   *)
(* the retention is longer than the window and that hour.                   *)
LEMMA NoneExpired ==
  ASSUME Shape
  PROVE  CountersOutliveWindow
<1> SUFFICES ASSUME pc = "begun", NEW h \in LowHours \cup HighHours
             PROVE  ~Expired(h)
  BY DEF CountersOutliveWindow
<1>1. h \in Nat /\ h >= hour - Longest /\ now <= hour + 1 /\ now \in Nat /\ hour \in Nat
  BY Windows DEF Shape
<1>2. Longest \in Nat
  BY WindowAssumption DEF Longest
<1> QED
  BY <1>1, <1>2, RetentionAssumption DEF Expired, CounterExpiry

(* The shape is kept.                                                       *)
LEMMA ShapeStep == Shape /\ [Next]_vars => Shape'
<1> SUFFICES ASSUME Shape, [Next]_vars PROVE Shape'
  OBVIOUS
<1> USE WindowAssumption DEF vars, external
<1>1. CASE Environment
  <2>0. UNCHANGED <<pc, hour, lowSum, highSum, closed>>
    BY <1>1 DEF Environment
  <2>1. ASSUME NEW a \in Accesses, Arrive(a) PROVE Shape'
    BY <2>0, <2>1 DEF Arrive, Shape, HourClosed
  <2>2. ASSUME NEW a \in Accesses, Count(a) PROVE Shape'
    BY <2>0, <2>2 DEF Count, Shape, HourClosed
  <2>3. ASSUME NEW h \in Hours, Publish(h) PROVE Shape'
    <3>1. h \in Nat
      BY DEF Hours, Longest
    <3> QED
      BY <2>0, <2>3, <3>1 DEF Publish, Shape, HourClosed
  <2>4. ASSUME NEW h \in Hours, Invalidate(h) PROVE Shape'
    BY <2>0, <2>4 DEF Invalidate, Shape, HourClosed
  <2>5. CASE HourPasses
    BY <2>0, <2>5 DEF HourPasses, Shape, HourClosed
  <2> QED
    BY <1>1, <2>1, <2>2, <2>3, <2>4, <2>5 DEF Environment
<1>2. CASE BeginChunk
  BY <1>2 DEF BeginChunk, Shape, HourClosed
<1>3. CASE ReadCounters
  <2>1. lowSum' \in Nat /\ highSum' \in Nat
    BY <1>3, SumType DEF ReadCounters
  <2> QED
    BY <1>3, <2>1 DEF ReadCounters, Shape, HourClosed
<1>4. CASE ReadCoverage
  BY <1>4 DEF ReadCoverage, Shape, HourClosed
<1>5. CASE UNCHANGED vars
  BY <1>5 DEF Shape, HourClosed
<1> QED
  BY <1>1, <1>2, <1>3, <1>4, <1>5 DEF Next

(* Before the first chunk nothing has been read.                             *)
LEMMA ShapeInvariance == Spec => []Shape
<1>1. ASSUME Init PROVE Shape
  <2>1. \A h \in coverage : h \in Nat /\ h < FirstHour
    <3>1. \A h \in FirstHour - Longest..FirstHour - 1 : h \in Nat /\ h < FirstHour
      BY WindowAssumption DEF Longest
    <3> QED
      BY <1>1, <3>1 DEF Init
  <2>2. /\ now = FirstHour /\ hour = FirstHour /\ pc = "idle" /\ counted = {}
        /\ arrival = [a \in Accesses |-> None]
        /\ lowSum = 0 /\ highSum = 0 /\ closed = FALSE
    BY <1>1 DEF Init
  <2>3. \A h \in coverage : HourClosed(h)
    BY <2>1, <2>2, WindowAssumption DEF HourClosed
  <2>4. FirstHour \in Nat /\ arrival \in [Accesses -> Nat \cup {None}]
    BY <2>2, WindowAssumption
  <2>5. coverage \subseteq Nat
    BY <2>1
  <2>6. now \in Nat /\ hour \in Nat /\ FirstHour <= hour /\ hour <= now
    BY <2>2, <2>4
  <2>7. counted \subseteq Accesses /\ \A a \in counted : arrival[a] # None
    BY <2>2
  <2> QED
    BY <2>2, <2>3, <2>4, <2>5, <2>6, <2>7 DEF Shape
<1> QED
  BY <1>1, ShapeStep, PTL DEF Spec

(* What was read stays true of the counters.                                 *)
LEMMA ReadStep ==
  ASSUME Shape, Shape', ReadInv, [Next]_vars
  PROVE  ReadInv'
<1> USE DEF vars, external
<1>1. CASE Environment
  <2>1. UNCHANGED <<pc, hour, lowSum, highSum, result, closed>>
    BY <1>1 DEF Environment
  <2>2. PICK low : low = LowHours /\ low = LowHours'
    BY <2>1 DEF LowHours
  <2>3. PICK high : high = HighHours /\ high = HighHours'
    BY <2>1 DEF HighHours
  <2>4. /\ Sum(low) \in Nat /\ Sum(high) \in Nat /\ Sum(low)' \in Nat /\ Sum(high)' \in Nat
        /\ low \subseteq Nat
    BY <1>1, <2>2, SumGrows, Windows
  <2>5. /\ Sum(high) <= Sum(high)'
        /\ (\A h \in low : HourClosed(h)) => Sum(low)' = Sum(low)
        /\ \A h \in low : HourClosed(h) => HourClosed(h)'
    BY <1>1, <2>4, SumGrows
  <2>6. /\ pc = "counters" => highSum <= Sum(high) /\ (closed => lowSum = Sum(low))
        /\ pc \in {"counters", "evaluated"} /\ closed => \A h \in low : HourClosed(h)
        /\ pc # "evaluated" => result = NoResult
        /\ result.high => Sum(high) > HighThreshold
        /\ result.low /\ closed => Sum(low) < LowThreshold
    BY <2>2, <2>3 DEF ReadInv, HighSound, LowSoundIfClosed
  <2>7. pc = "evaluated" \/ (~result.low /\ ~result.high)
    BY <2>6 DEF NoResult
  <2>8. /\ Sum(LowHours)' = Sum(low)' /\ Sum(HighHours)' = Sum(high)'
        /\ HighThreshold \in Nat /\ LowThreshold \in Nat /\ highSum \in Nat
    BY <2>2, <2>3, WindowAssumption DEF Sum, Shape
  <2>9. (\A h \in low : HourClosed(h)') => (\A h \in LowHours : HourClosed(h))'
    BY <2>2
  <2>10. HighSound' /\ LowSoundIfClosed'
    BY <2>1, <2>4, <2>5, <2>6, <2>7, <2>8 DEF HighSound, LowSoundIfClosed
  <2> QED
    BY <2>1, <2>4, <2>5, <2>6, <2>7, <2>8, <2>9, <2>10 DEF ReadInv
<1>2. CASE BeginChunk
  BY <1>2 DEF BeginChunk, ReadInv, HighSound, LowSoundIfClosed, NoResult
<1>3. CASE ReadCounters
  <2>1. /\ pc = "begun" /\ pc' = "counters"
        /\ lowSum' = Sum({h \in LowHours : ~Expired(h)})
        /\ highSum' = Sum({h \in HighHours : ~Expired(h)})
        /\ closed' = (LowHours \subseteq coverage)
        /\ UNCHANGED <<now, arrival, counted, coverage, hour, result>>
    BY <1>3 DEF ReadCounters
  <2>2. CountersOutliveWindow
    BY NoneExpired
  <2>3. /\ {h \in LowHours : ~Expired(h)} = LowHours
        /\ {h \in HighHours : ~Expired(h)} = HighHours
    BY <2>1, <2>2 DEF CountersOutliveWindow
  <2>4. LowHours' = LowHours /\ HighHours' = HighHours
    BY <2>1 DEF LowHours, HighHours
  <2>5. Sum(LowHours)' = Sum(LowHours) /\ Sum(HighHours)' = Sum(HighHours)
    BY <2>1, <2>4 DEF Sum
  <2>6. highSum' <= Sum(HighHours)' /\ lowSum' = Sum(LowHours)'
    <3>1. highSum' = Sum(HighHours) /\ lowSum' = Sum(LowHours)
      BY <2>1, <2>3
    <3>2. Sum(HighHours) \in Nat
      BY SumType
    <3> QED
      BY <2>5, <3>1, <3>2
  <2>7. closed' => (\A h \in LowHours : HourClosed(h))'
    BY <2>1, <2>4 DEF HourClosed, Shape
  <2>8. result' = NoResult
    BY <2>1 DEF ReadInv
  <2> QED
    BY <2>1, <2>6, <2>7, <2>8 DEF ReadInv, HighSound, LowSoundIfClosed, NoResult
<1>4. CASE ReadCoverage
  <2>1. /\ pc = "counters" /\ pc' = "evaluated"
        /\ result' = Evaluate(LowHours \subseteq coverage)
        /\ UNCHANGED <<now, arrival, counted, coverage, hour, lowSum, highSum, closed>>
    BY <1>4 DEF ReadCoverage
  <2>2. LowHours' = LowHours /\ HighHours' = HighHours
    BY <2>1 DEF LowHours, HighHours
  <2>3. /\ Sum(LowHours)' = Sum(LowHours) /\ Sum(HighHours)' = Sum(HighHours)
        /\ (\A h \in LowHours : HourClosed(h))' <=> (\A h \in LowHours : HourClosed(h))
    BY <2>1, <2>2 DEF Sum, HourClosed
  <2>4. /\ result'.high => highSum > HighThreshold
        /\ result'.low => lowSum < LowThreshold
    BY <2>1 DEF Evaluate
  <2>5. Sum(HighHours) \in Nat /\ HighThreshold \in Nat /\ highSum \in Nat
    BY SumType, WindowAssumption DEF Shape
  <2> QED
    BY <2>1, <2>3, <2>4, <2>5 DEF ReadInv, HighSound, LowSoundIfClosed
<1>5. CASE UNCHANGED vars
  <2>1. UNCHANGED <<pc, hour, lowSum, highSum, result, closed, now, arrival, counted>>
    BY <1>5
  <2>2. LowHours' = LowHours /\ HighHours' = HighHours
    BY <2>1 DEF LowHours, HighHours
  <2>3. /\ Sum(LowHours)' = Sum(LowHours) /\ Sum(HighHours)' = Sum(HighHours)
        /\ (\A h \in LowHours : HourClosed(h))' <=> (\A h \in LowHours : HourClosed(h))
    BY <2>1, <2>2 DEF Sum, HourClosed
  <2> QED
    BY <2>1, <2>3 DEF ReadInv, HighSound, LowSoundIfClosed
<1> QED
  BY <1>1, <1>2, <1>3, <1>4, <1>5 DEF Next

(* What was read stays true of the counters from the first chunk on.         *)
LEMMA ReadInvariance == Spec => []ReadInv
<1>1. Init => ReadInv
  BY DEF Init, ReadInv, HighSound, LowSoundIfClosed, NoResult
<1>2. Shape /\ Shape' /\ ReadInv /\ [Next]_vars => ReadInv'
  BY ReadStep
<1> QED
  BY <1>1, <1>2, ShapeInvariance, PTL DEF Spec

(* The retention that ValidateRetention admits keeps every counter of a      *)
(* window until it is read.                                                 *)
THEOREM RetentionSuffices == Spec => []CountersOutliveWindow
<1>1. Shape => CountersOutliveWindow
  BY NoneExpired
<1> QED
  BY <1>1, ShapeInvariance, PTL

(* An object is high only if it was accessed that often.                     *)
THEOREM HighIsSound == Spec => []HighSound
<1>1. ReadInv => HighSound
  BY DEF ReadInv
<1> QED
  BY <1>1, ReadInvariance, PTL

(* An object is low only if it was accessed that rarely, when its window was *)
(* covered before the counters were read.                                   *)
THEOREM LowIsSoundIfClosed == Spec => []LowSoundIfClosed
<1>1. ReadInv => LowSoundIfClosed
  BY DEF ReadInv
<1> QED
  BY <1>1, ReadInvariance, PTL
=============================================================================
