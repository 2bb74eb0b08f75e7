--------------------------- MODULE AckBudgetProofs ---------------------------
(***************************************************************************)
(* A job is answered within QueueSize + 2 flushes and one timer of its       *)
(* acceptance, for every set of requests, queue size, batch limit, MaxWait,  *)
(* OperationTimeout and CommandTime.                                        *)
(***************************************************************************)
EXTENDS AckBudget, BatcherProofs

-----------------------------------------------------------------------------
(* The batcher is the one of Batcher: a clock only delays its steps.         *)

(* A step of the batcher with a clock is one of the batcher, or of the clock. *)
LEMMA TimedStep ==
  ASSUME [TimedNext]_<<vars, clockVars>>
  PROVE  [Next]_vars
<1>1. CASE Step
  BY <1>1 DEF Step, Next, Submit, RunStep
<1>2. CASE Tick \/ NextCommand
  BY <1>2 DEF Tick, NextCommand
<1> QED
  BY <1>1, <1>2 DEF TimedNext

(* So all that is proved of the batcher holds of it with a clock.            *)
LEMMA TimedIsBatcher == TimedSpec => [](Shape /\ JobsInv)
<1>1. TimedInit => Init
  BY DEF TimedInit
<1>2. [TimedNext]_<<vars, clockVars>> => [Next]_vars
  BY TimedStep
<1> QED
  BY <1>1, <1>2, ShapeInvariant, JobsInvariant, PTL DEF TimedSpec, Spec

-----------------------------------------------------------------------------
(* The inductive invariant. *)

(* The time of n flushes *)
Turns(n) == n * FlushTime

(* How many flushes a job on the channel may have waited through besides one  *)
(* for every place it has moved up: one more when no batch is pending, as it  *)
(* has been flushed, and one more when none is in hand or in flush.          *)
Spare ==
  (IF pending = EmptyBatch THEN 1 ELSE 0) + (IF pc \in {"received", "apply"} THEN 0 ELSE 1)

(* The clocks stay in their bounds, the command of a flush was begun before   *)
(* its deadline, and a batch under construction has its timer whenever run    *)
(* waits.                                                                   *)
Clocks ==
  /\ pc \in {"unstarted", "select", "received", "apply"} /\ resume = "select"
  /\ age \in [Requests -> Nat]
  /\ timerAge \in 0..MaxWait
  /\ flushAge \in Nat /\ commandAge \in 0..CommandTime
  /\ flushAge <= OperationTimeout + commandAge
  /\ pc # "apply" => flushAge = 0 /\ commandAge = 0
  /\ pc = "apply" => ~timer
  /\ ~timer => timerAge = 0
  /\ (pc = "select" /\ pending # EmptyBatch) => timer
  /\ \A r \in Requests : r \notin Held => age[r] = 0

(* How long a job may have waited, wherever it is.                           *)
QueueAges == \A i \in 1..Len(queue) : age[queue[i]] <= Turns(QueueSize - i + Spare) + flushAge

HandAge == hand # NoRequest => age[hand] <= Turns(QueueSize + Spare)

PendingAges ==
  \A r \in pending.jobs :
    age[r] <= IF pc = "apply" THEN Turns(QueueSize) + flushAge
              ELSE Turns(QueueSize + 1) + timerAge

FlushingAges ==
  \A r \in flushing.jobs : age[r] <= Turns(QueueSize + 1) + MaxWait + flushAge

AnsweredAges == \A r \in Answered : age[r] <= Turns(QueueSize + 2) + MaxWait

Ages == QueueAges /\ HandAge /\ PendingAges /\ FlushingAges /\ AnsweredAges

(* FlushTime is a time, and no flush lasts longer. *)
LEMMA FlushBounded ==
  /\ FlushTime \in Nat
  /\ Clocks => flushAge \in 0..FlushTime
  BY DurationAssumption DEF FlushTime, Clocks

(* One flush more takes FlushTime more. *)
LEMMA OneTurn ==
  ASSUME NEW n \in Nat
  PROVE  Turns(n) \in Nat /\ Turns(n + 1) = Turns(n) + FlushTime
         /\ FlushTime \in Nat
  BY FlushBounded DEF Turns

(* More flushes take no less time. *)
LEMMA MoreTurns ==
  ASSUME NEW m \in Nat, NEW n \in Nat, m <= n
  PROVE  Turns(m) <= Turns(n)
<1>1. PICK d \in Nat : n = m + d
  <2>1. n - m \in Nat /\ n = m + (n - m)
    OBVIOUS
  <2> QED
    BY <2>1
<1>2. d * FlushTime \in Nat /\ m * FlushTime \in Nat
  BY FlushBounded
<1>3. (m + d) * FlushTime = m * FlushTime + d * FlushTime
  BY FlushBounded
<1> QED
  BY <1>1, <1>2, <1>3 DEF Turns

(* A flush in progress takes no longer than one that is still to come.       *)
LEMMA Later ==
  ASSUME NEW m \in Nat, NEW n \in Nat, NEW f \in Nat, NEW g \in Nat,
         f <= FlushTime, (m <= n /\ f <= g) \/ m + 1 <= n
  PROVE  Turns(m) + f <= Turns(n) + g
<1>1. Turns(m) \in Nat /\ Turns(n) \in Nat /\ FlushTime \in Nat
      /\ Turns(m + 1) = Turns(m) + FlushTime
  BY OneTurn
<1>2. CASE m <= n /\ f <= g
  BY <1>1, <1>2, MoreTurns
<1>3. CASE m + 1 <= n
  <2>1. Turns(m + 1) <= Turns(n)
    BY <1>3, MoreTurns
  <2> QED
    BY <1>1, <2>1
<1> QED
  BY <1>2, <1>3

(* A job that got onto the channel counts as accepted from then on.         *)
LEMMA HeldGrows ==
  ASSUME TypeOK, Step
  PROVE  Held \subseteq Held'
<1>1. ASSUME NEW r \in Requests, Accepted(r) PROVE Accepted(r)'
  <2>1. ASSUME NEW q \in Requests, SubmitBegin(q) \/ SubmitSend(q) \/ SubmitResult(q)
        PROVE  Accepted(r)'
    BY <1>1, <2>1 DEF SubmitBegin, SubmitSend, SubmitResult, Refuse, Accepted, TypeOK, Outcomes
  <2>2. ASSUME sub' = sub PROVE Accepted(r)'
    BY <1>1, <2>2 DEF Accepted
  <2> QED
    BY <2>1, <2>2 DEF Step, Start, Receive, Dequeued, FlushOk, FlushFailed, FlushReturns,
       TimerFires, RedisExecute, submitVars
<1> QED
  BY <1>1 DEF Held

(* The clocks keep their bounds. *)
LEMMA ClocksStep ==
  ASSUME Shape, Clocks, [TimedNext]_<<vars, clockVars>>
  PROVE  Clocks'
<1> USE DEF submitVars, loopVars, redisVars, stopVars
<1>1. CASE Tick
  <2>1. /\ age' = [r \in Requests |-> IF r \in Waiting THEN age[r] + 1 ELSE age[r]]
        /\ timerAge' = IF timer THEN timerAge + 1 ELSE 0
        /\ flushAge' = IF pc = "apply" THEN flushAge + 1 ELSE 0
        /\ commandAge' = IF pc = "apply" THEN commandAge + 1 ELSE 0
        /\ AllWait /\ UNCHANGED vars
    BY <1>1 DEF Tick
  <2>2. UNCHANGED <<pc, resume, timer, pending, sub, result>> /\ Held' = Held
    BY <2>1 DEF vars, Held, Accepted
  <2>3. /\ timerAge' \in 0..MaxWait /\ flushAge' \in Nat /\ commandAge' \in 0..CommandTime
        /\ flushAge' <= OperationTimeout + commandAge'
    BY <2>1, DurationAssumption DEF AllWait, Clocks
  <2>4. age' \in [Requests -> Nat]
    BY <2>1 DEF Clocks
  <2>5. \A r \in Requests : r \notin Held' => age'[r] = 0
    BY <2>1, <2>2 DEF Clocks, Waiting, Held, Accepted
  <2> QED
    BY <2>1, <2>2, <2>3, <2>4, <2>5 DEF Clocks
<1>2. CASE Step
  <2>1. /\ age' = age
        /\ timerAge' = IF timer /\ timer' THEN timerAge ELSE 0
        /\ flushAge' = IF pc' = "apply" /\ flushing' = flushing THEN flushAge ELSE 0
        /\ commandAge' = IF pc' = "apply" /\ flushing' = flushing THEN commandAge ELSE 0
    BY <1>2 DEF Step
  <2>2. /\ timerAge' \in 0..MaxWait /\ flushAge' \in Nat /\ commandAge' \in 0..CommandTime
        /\ flushAge' <= OperationTimeout + commandAge'
        /\ pc' # "apply" => flushAge' = 0 /\ commandAge' = 0
        /\ ~timer' => timerAge' = 0
    BY <2>1, DurationAssumption DEF Clocks
  <2>3. \A r \in Requests : r \notin Held' => age'[r] = 0
    BY <1>2, <2>1, HeldGrows DEF Clocks, Shape, Held
  <2>4. /\ pc' \in {"unstarted", "select", "received", "apply"} /\ resume' = "select"
        /\ pc' = "apply" => ~timer'
        /\ (pc' = "select" /\ pending' # EmptyBatch) => timer'
    <3>1. CASE Start
      BY <3>1 DEF Start, Clocks, Shape, GoroutineShape
    <3>2. CASE \E r \in Requests : SubmitBegin(r) \/ SubmitSend(r) \/ SubmitResult(r)
      BY <3>2 DEF SubmitBegin, SubmitSend, SubmitResult, Clocks
    <3>3. CASE Receive
      BY <3>3 DEF Receive, Clocks
    <3>4. CASE Dequeued
      BY <3>4 DEF Dequeued, Absorb, KeepPending, StartFlush, Clocks
    <3>5. CASE FlushOk \/ FlushFailed
      BY <3>5 DEF FlushOk, FlushFailed, FlushReturns, StartFlush, Clocks
    <3>6. CASE TimerFires
      BY <3>6 DEF TimerFires, StartFlush, Clocks
    <3>7. CASE \E b \in wire : RedisExecute(b)
      BY <3>7 DEF RedisExecute, Clocks
    <3> QED
      BY <1>2, <3>1, <3>2, <3>3, <3>4, <3>5, <3>6, <3>7 DEF Step
  <2> QED
    BY <2>1, <2>2, <2>3, <2>4 DEF Clocks
<1>3. CASE NextCommand
  <2>1. /\ pc = "apply" /\ flushAge <= OperationTimeout /\ commandAge' = 0
        /\ UNCHANGED <<vars, age, timerAge, flushAge>>
    BY <1>3 DEF NextCommand
  <2> QED
    BY <2>1, DurationAssumption DEF vars, Clocks, Held, Accepted
<1>4. CASE UNCHANGED <<vars, clockVars>>
  BY <1>4 DEF vars, clockVars, Clocks, Held, Accepted
<1> QED
  BY <1>1, <1>2, <1>3, <1>4 DEF TimedNext

(* The number of flushes before a place on the channel is a natural number,  *)
(* and grows with what is to be flushed besides.                            *)
LEMMA Places ==
  ASSUME NEW q \in Nat, NEW i \in Nat, i <= q, NEW s \in Nat
  PROVE  /\ q - i + s \in Nat
         /\ \A z \in Nat : /\ q - i + z \in Nat
                           /\ s <= z => q - i + s <= q - i + z
                           /\ s + 1 <= z => q - i + s + 1 <= q - i + z
  OBVIOUS

(* As time passes every job grows older by as much as its bound.            *)
LEMMA AgesTick ==
  ASSUME Shape, Clocks, Ages, Tick
  PROVE  Ages'
<1> USE DEF submitVars, loopVars, redisVars, stopVars
<1>1. /\ age' = [r \in Requests |-> IF r \in Waiting THEN age[r] + 1 ELSE age[r]]
      /\ timerAge' = IF timer THEN timerAge + 1 ELSE 0
      /\ flushAge' = IF pc = "apply" THEN flushAge + 1 ELSE 0
      /\ AllWait
      /\ UNCHANGED <<queue, hand, pending, flushing, result, pc, timer>>
  BY DEF Tick, vars
<1>2. \A r \in Requests : age[r] \in Nat /\ age'[r] \in Nat /\ age'[r] <= age[r] + 1
  BY <1>1 DEF Clocks
<1>3. /\ \A i \in 1..Len(queue) : queue[i] \in Requests
      /\ pending.jobs \subseteq Requests /\ flushing.jobs \subseteq Requests
      /\ queue \in Seq(Requests) /\ Len(queue) <= QueueSize /\ QueueSize \in Nat
  BY LimitAssumption DEF Shape, TypeOK, IsBatch
<1>4. Spare' = Spare /\ Spare \in Nat /\ hand = NoRequest
  BY <1>1 DEF Spare, AllWait, Shape, GoroutineShape
<1>5. AnsweredAges'
  <2>1. \A r \in Answered : age'[r] = age[r]
    BY <1>1 DEF AllWait, Waiting, Answered
  <2>2. Answered' = Answered
    BY <1>1 DEF Answered
  <2> QED
    BY <2>1, <2>2 DEF Ages, AnsweredAges
<1>6. \A n \in Nat : Turns(n) \in Nat
  BY OneTurn
<1>7. flushAge \in Nat /\ timerAge \in Nat /\ MaxWait \in Nat
  BY DurationAssumption DEF Clocks
<1>8. CASE pc = "apply"
  <2>1. flushAge' = flushAge + 1
    BY <1>1, <1>8
  <2>2. QueueAges'
    <3>1. ASSUME NEW i \in 1..Len(queue)
          PROVE  age'[queue[i]] <= Turns(QueueSize - i + Spare) + flushAge + 1
      <4> DEFINE m == QueueSize - i + Spare
      <4>1. m \in Nat
        BY <1>3, <1>4
      <4>2. age[queue[i]] <= Turns(m) + flushAge
        BY DEF Ages, QueueAges
      <4> HIDE DEF m
      <4>3. queue[i] \in Requests /\ Turns(m) \in Nat
        BY <1>3, <4>1, OneTurn
      <4>4. age'[queue[i]] <= Turns(m) + flushAge + 1
        BY <1>2, <1>7, <4>2, <4>3
      <4> QED
        BY <4>4 DEF m
    <3>2. /\ queue' = queue /\ Spare' = Spare
          /\ \A i \in 1..Len(queue) : Turns(QueueSize - i + Spare) \in Nat
      <4>1. ASSUME NEW i \in 1..Len(queue) PROVE Turns(QueueSize - i + Spare) \in Nat
        <5>1. i \in Nat /\ i <= QueueSize
          BY <1>3
        <5>2. QueueSize - i + Spare \in Nat
          BY <1>3, <1>4, <5>1, Places
        <5> QED
          BY <1>6, <5>2
      <4> QED
        BY <1>1, <1>4, <4>1
    <3>3. \A i \in 1..Len(queue) :
            age'[queue[i]] <= Turns(QueueSize - i + Spare) + (flushAge + 1)
      BY <1>7, <3>1, <3>2
    <3> QED
      BY <2>1, <3>2, <3>3 DEF QueueAges
  <2>3. PendingAges'
    <3>1. \A r \in pending.jobs : age[r] <= Turns(QueueSize) + flushAge
      BY <1>8 DEF Ages, PendingAges
    <3>2. Turns(QueueSize) \in Nat
      BY <1>3, <1>6
    <3> QED
      BY <1>1, <1>2, <1>3, <1>7, <1>8, <2>1, <3>1, <3>2 DEF PendingAges
  <2>4. FlushingAges'
    <3>1. Turns(QueueSize + 1) \in Nat
      BY <1>3, <1>6
    <3> QED
      BY <1>1, <1>2, <1>3, <1>7, <2>1, <3>1 DEF Ages, FlushingAges
  <2> QED
    BY <1>1, <1>4, <1>5, <2>2, <2>3, <2>4 DEF Ages, HandAge
<1>9. CASE pc = "select"
  <2>1. queue = <<>> /\ flushing.jobs = {}
    BY <1>1, <1>9 DEF AllWait, Shape, GoroutineShape, EmptyBatch
  <2>2. PendingAges'
    <3>1. CASE pending = EmptyBatch
      BY <1>1, <3>1 DEF PendingAges, EmptyBatch
    <3>2. CASE pending # EmptyBatch
      <4>1. timerAge' = timerAge + 1
        BY <1>1, <1>9, <3>2 DEF Clocks
      <4>2. \A r \in pending.jobs : age[r] <= Turns(QueueSize + 1) + timerAge
        BY <1>9 DEF Ages, PendingAges
      <4>3. Turns(QueueSize + 1) \in Nat
        BY <1>3, <1>6
      <4> QED
        BY <1>1, <1>2, <1>3, <1>7, <1>9, <4>1, <4>2, <4>3 DEF PendingAges
    <3> QED
      BY <3>1, <3>2
  <2>3. Len(queue) = 0
    BY <2>1
  <2> QED
    BY <1>1, <1>4, <1>5, <2>1, <2>2, <2>3 DEF Ages, HandAge, QueueAges, FlushingAges
<1> QED
  BY <1>1, <1>8, <1>9 DEF AllWait

(* The jobs on the channel keep their turn. *)
LEMMA QueueWaits ==
  ASSUME Shape, Clocks, QueueAges, UNCHANGED <<queue, age>>,
         Spare' \in Nat, flushAge' \in Nat,
         (Spare <= Spare' /\ flushAge <= flushAge') \/ Spare + 1 <= Spare'
  PROVE  QueueAges'
<1>1. ASSUME NEW i \in 1..Len(queue)
      PROVE  age[queue[i]] <= Turns(QueueSize - i + Spare') + flushAge'
  <2> DEFINE m == QueueSize - i + Spare
             n == QueueSize - i + Spare'
  <2>1. /\ Len(queue) \in Nat /\ Len(queue) <= QueueSize /\ QueueSize \in Nat
        /\ Spare \in Nat /\ queue[i] \in Requests
    BY LimitAssumption DEF Shape, TypeOK, Spare
  <2>2. i \in Nat /\ i <= QueueSize
    BY <2>1
  <2>3. m \in Nat /\ n \in Nat /\ ((m <= n /\ flushAge <= flushAge') \/ m + 1 <= n)
    <3>1. m \in Nat
      BY <2>1, <2>2, Places
    <3>2. \A z \in Nat : /\ QueueSize - i + z \in Nat
                         /\ Spare <= z => m <= QueueSize - i + z
                         /\ Spare + 1 <= z => m + 1 <= QueueSize - i + z
      BY <2>1, <2>2, Places
    <3> QED
      BY <3>1, <3>2
  <2>4. age[queue[i]] <= Turns(m) + flushAge
    BY DEF QueueAges
  <2> HIDE DEF m, n
  <2>5. flushAge \in Nat /\ flushAge <= FlushTime /\ age[queue[i]] \in Nat
    BY <2>1, FlushBounded DEF Clocks
  <2>6. Turns(m) + flushAge <= Turns(n) + flushAge'
    BY <2>3, <2>5, Later
  <2>7. Turns(m) \in Nat /\ Turns(n) \in Nat
    BY <2>3, OneTurn
  <2>8. age[queue[i]] <= Turns(n) + flushAge'
    BY <2>4, <2>5, <2>6, <2>7
  <2> QED
    BY <2>8 DEF n
<1> QED
  BY <1>1 DEF QueueAges

(* What a batch holds is requests, and the numbers of the invariant are       *)
(* natural ones.                                                            *)
LEMMA AgeTypes ==
  ASSUME Shape, Clocks
  PROVE  /\ QueueSize \in Nat /\ MaxWait \in Nat /\ FlushTime \in Nat
         /\ flushAge \in Nat /\ flushAge <= FlushTime
         /\ timerAge \in Nat /\ timerAge <= MaxWait
         /\ pending.jobs \subseteq Requests /\ flushing.jobs \subseteq Requests
         /\ \A r \in Requests : age[r] \in Nat
         /\ Spare \in Nat
         /\ Turns(QueueSize) \in Nat /\ Turns(QueueSize + 1) \in Nat
         /\ Turns(QueueSize + 2) \in Nat
         /\ Turns(QueueSize + 1) = Turns(QueueSize) + FlushTime
         /\ Turns(QueueSize + 2) = Turns(QueueSize + 1) + FlushTime
         /\ Turns(QueueSize + 0) = Turns(QueueSize)
<1>1. QueueSize \in Nat /\ MaxWait \in Nat /\ FlushTime \in Nat
  BY LimitAssumption, DurationAssumption, FlushBounded
<1>2. QueueSize + 1 \in Nat /\ QueueSize + 2 = (QueueSize + 1) + 1 /\ QueueSize + 0 = QueueSize
  BY <1>1
<1>3. /\ Turns(QueueSize) \in Nat /\ Turns(QueueSize + 1) \in Nat
      /\ Turns(QueueSize + 2) \in Nat
      /\ Turns(QueueSize + 1) = Turns(QueueSize) + FlushTime
      /\ Turns(QueueSize + 2) = Turns(QueueSize + 1) + FlushTime
      /\ Turns(QueueSize + 0) = Turns(QueueSize)
  <2>1. Turns((QueueSize + 1) + 1) \in Nat
        /\ Turns((QueueSize + 1) + 1) = Turns(QueueSize + 1) + FlushTime
    <3>1. (QueueSize + 1) + 1 \in Nat
      BY <1>1
    <3> QED
      BY <1>2, <3>1, OneTurn
  <2> QED
    BY <1>1, <1>2, <2>1, OneTurn
<1>4. Spare \in Nat /\ flushAge \in Nat /\ flushAge <= FlushTime
  BY FlushBounded DEF Spare, Clocks
<1> QED
  BY <1>1, <1>3, <1>4 DEF Shape, TypeOK, IsBatch, Clocks

(* A job that gets onto the channel has not waited. *)
LEMMA AgesSend ==
  ASSUME Shape, Clocks, Ages, UNCHANGED <<age, timerAge, flushAge>>,
         NEW r \in Requests, SubmitSend(r)
  PROVE  Ages'
<1> USE DEF submitVars, loopVars, redisVars, stopVars
<1>1. UNCHANGED <<hand, pending, flushing, result, pc>> /\ sub[r] = "sending"
  BY DEF SubmitSend
<1>2. Spare' = Spare /\ Answered' = Answered
  BY <1>1 DEF Spare, Answered
<1>3. age[r] = 0
  BY <1>1 DEF Clocks, Held, Accepted, Outcomes
<1>4. QueueAges'
  <2>1. ASSUME NEW i \in 1..Len(queue')
        PROVE  age[queue'[i]] <= Turns(QueueSize - i + Spare) + flushAge
    <3>1. queue \in Seq(Requests) /\ Len(queue) \in Nat /\ Len(queue) <= QueueSize
      BY DEF Shape, TypeOK
    <3>2. (i \in 1..Len(queue) /\ queue'[i] = queue[i])
            \/ (queue'[i] = r /\ i \in Nat /\ i <= QueueSize)
      <4>1. queue' = queue \/ (queue' = Append(queue, r) /\ Len(queue) < QueueSize)
        BY DEF SubmitSend
      <4>2. QueueSize \in Nat
        BY AgeTypes
      <4>3. CASE queue' = queue
        BY <4>3
      <4>4. CASE queue' = Append(queue, r) /\ Len(queue) < QueueSize
        <5>1. Len(queue') = Len(queue) + 1 /\ queue'[Len(queue) + 1] = r
              /\ \A j \in 1..Len(queue) : queue'[j] = queue[j]
          BY <3>1, <4>4
        <5> QED
          BY <3>1, <4>2, <4>4, <5>1
      <4> QED
        BY <4>1, <4>3, <4>4
    <3>3. CASE i \in 1..Len(queue) /\ queue'[i] = queue[i]
      BY <3>3 DEF Ages, QueueAges
    <3>4. CASE queue'[i] = r /\ i \in Nat /\ i <= QueueSize
      <4>1. QueueSize - i + Spare \in Nat
        BY <3>4, AgeTypes, Places
      <4>2. Turns(QueueSize - i + Spare) \in Nat
        BY <4>1, OneTurn
      <4>3. flushAge \in Nat
        BY AgeTypes
      <4> QED
        BY <1>3, <3>4, <4>2, <4>3
    <3> QED
      BY <3>2, <3>3, <3>4
  <2> QED
    BY <1>2, <2>1 DEF QueueAges
<1> QED
  BY <1>1, <1>2, <1>4 DEF Ages, HandAge, PendingAges, FlushingAges, AnsweredAges

(* The job taken off the channel, and those that move up. *)
LEMMA AgesReceive ==
  ASSUME Shape, Clocks, Ages, UNCHANGED <<age, timerAge>>, flushAge' = 0, Receive
  PROVE  Ages'
<1> USE DEF submitVars, loopVars, redisVars, stopVars
<1>1. /\ pc = "select" /\ pc' = "received" /\ UNCHANGED <<pending, flushing, result>>
      /\ queue # <<>> /\ hand' = Head(queue) /\ queue' = Tail(queue) /\ flushAge = 0
  BY DEF Receive, Clocks
<1>2. Spare = Spare' + 1 /\ Spare' \in Nat
  BY <1>1 DEF Spare
<1>3. /\ queue \in Seq(Requests) /\ Len(queue) \in Nat /\ Len(queue) <= QueueSize
      /\ Len(queue) >= 1
  BY <1>1 DEF Shape, TypeOK
<1>4. QueueAges'
  <2>1. ASSUME NEW i \in 1..Len(queue')
        PROVE  age[queue'[i]] <= Turns(QueueSize - i + Spare') + flushAge'
    <3>1. i \in Nat /\ i + 1 \in 1..Len(queue) /\ queue'[i] = queue[i + 1]
      BY <1>1, <1>3
    <3>2. age[queue[i + 1]] <= Turns(QueueSize - (i + 1) + Spare) + 0
      BY <1>1, <3>1 DEF Ages, QueueAges
    <3>3. QueueSize - (i + 1) + Spare = QueueSize - i + Spare'
      <4>1. QueueSize \in Nat
        BY AgeTypes
      <4> QED
        BY <1>2, <3>1, <4>1
    <3> QED
      BY <1>1, <3>1, <3>2, <3>3
  <2> QED
    BY <1>1, <2>1 DEF QueueAges
<1>5. HandAge'
  <2>1. age[queue[1]] <= Turns(QueueSize - 1 + Spare) + 0 /\ hand' = queue[1]
    BY <1>1, <1>3 DEF Ages, QueueAges
  <2>2. QueueSize - 1 + Spare = QueueSize + Spare'
    BY <1>2, AgeTypes
  <2>3. QueueSize + Spare' \in Nat
    BY <1>2, AgeTypes
  <2>4. Turns(QueueSize + Spare') \in Nat
    BY <2>3, OneTurn
  <2>5. queue[1] \in Requests
    BY <1>3
  <2> QED
    BY <2>1, <2>2, <2>4, <2>5, AgeTypes DEF HandAge
<1>6. Answered' = Answered
  BY <1>1 DEF Answered
<1> QED
  BY <1>1, <1>4, <1>5, <1>6 DEF Ages, PendingAges, FlushingAges, AnsweredAges

(* The job joins the batch under construction, which may be flushed with it;  *)
(* or starts the next batch while that one is flushed.                       *)
LEMMA AgesDequeued ==
  ASSUME Shape, Clocks, Ages, age' = age, flushAge' = 0,
         timerAge' = (IF timer /\ timer' THEN timerAge ELSE 0), Dequeued
  PROVE  Ages'
<1> USE DEF submitVars, loopVars, redisVars, stopVars
<1>1. /\ pc = "received" /\ resume = "select" /\ hand' = NoRequest /\ hand \in Requests
      /\ UNCHANGED <<queue, result>> /\ Absorb(hand)
      /\ flushAge = 0 /\ (~timer => timerAge = 0) /\ flushing = EmptyBatch
  BY DEF Dequeued, Clocks, Shape, TypeOK, GoroutineShape
<1>2. Spare = IF pending = EmptyBatch THEN 1 ELSE 0
  BY <1>1 DEF Spare
<1>3. IsBatch(pending) /\ IsBatch(EmptyBatch)
  BY EmptyIsBatch DEF Shape, TypeOK
<1>4. /\ Add(pending, hand).jobs = pending.jobs \cup {hand} /\ Add(pending, hand) # EmptyBatch
      /\ NewPendingBatch(hand).jobs = {hand} /\ NewPendingBatch(hand) # EmptyBatch
  BY <1>1, <1>3, AddIsBatch DEF NewPendingBatch, EmptyBatch
<1>5. age[hand] <= Turns(QueueSize + Spare) /\ age[hand] \in Nat
  BY <1>1, NoRequestAssumption DEF Ages, HandAge, Clocks
<1>6. age[hand] <= Turns(QueueSize + 1) /\ (pending # EmptyBatch => age[hand] <= Turns(QueueSize))
  BY <1>2, <1>5, AgeTypes
<1>7. \A r \in pending.jobs : age[r] <= Turns(QueueSize + 1) + timerAge
  BY <1>1 DEF Ages, PendingAges
<1>8. AnsweredAges' /\ HandAge'
  BY <1>1 DEF Ages, AnsweredAges, Answered, HandAge
<1>9. QueueAges
  BY DEF Ages
<1>10. CASE KeepPending(Add(pending, hand))
  <2>1. /\ pc' = "select" /\ pending' = Add(pending, hand) /\ timer' = TRUE
        /\ flushing' = EmptyBatch /\ timerAge' = timerAge
    BY <1>1, <1>10, AgeTypes DEF KeepPending
  <2>2. Spare' = 1
    BY <1>4, <2>1 DEF Spare
  <2>3. QueueAges'
    BY <1>1, <1>2, <1>9, <2>2, QueueWaits
  <2>4. PendingAges'
    BY <1>4, <1>5, <1>6, <1>7, <2>1, AgeTypes DEF PendingAges
  <2>5. FlushingAges'
    BY <2>1 DEF FlushingAges, EmptyBatch
  <2> QED
    BY <1>8, <2>3, <2>4, <2>5 DEF Ages
<1>11. CASE StartFlush(Add(pending, hand), resume) /\ pending' = EmptyBatch
  <2>1. pc' = "apply" /\ flushing' = Add(pending, hand)
    BY <1>11 DEF StartFlush
  <2>2. Spare' = 1
    BY <1>11, <2>1 DEF Spare
  <2>3. QueueAges'
    BY <1>1, <1>2, <1>9, <2>2, QueueWaits
  <2>4. PendingAges'
    BY <1>11 DEF PendingAges, EmptyBatch
  <2>5. FlushingAges'
    <3>1. ASSUME NEW r \in pending.jobs \cup {hand}
          PROVE  age[r] <= Turns(QueueSize + 1) + MaxWait + 0
      <4>1. age[r] <= Turns(QueueSize + 1) + timerAge /\ age[r] \in Nat
        BY <1>5, <1>6, <1>7, AgeTypes
      <4> QED
        BY <4>1, AgeTypes
    <3> QED
      BY <1>4, <2>1, <3>1 DEF FlushingAges
  <2> QED
    BY <1>8, <2>3, <2>4, <2>5 DEF Ages
<1>12. CASE /\ pending # EmptyBatch /\ StartFlush(pending, resume)
            /\ pending' = NewPendingBatch(hand)
  <2>1. pc' = "apply" /\ flushing' = pending
    BY <1>12 DEF StartFlush
  <2>2. Spare' = 0
    BY <1>4, <1>12, <2>1 DEF Spare
  <2>3. QueueAges'
    BY <1>1, <1>2, <1>9, <1>12, <2>2, QueueWaits
  <2>4. PendingAges'
    <3>1. age[hand] <= Turns(QueueSize) + 0
      BY <1>5, <1>6, <1>12, AgeTypes
    <3> QED
      BY <1>4, <1>12, <2>1, <3>1 DEF PendingAges
  <2>5. FlushingAges'
    <3>1. ASSUME NEW r \in pending.jobs
          PROVE  age[r] <= Turns(QueueSize + 1) + MaxWait + 0
      <4>1. age[r] <= Turns(QueueSize + 1) + timerAge /\ age[r] \in Nat
        BY <1>7, AgeTypes
      <4> QED
        BY <4>1, AgeTypes
    <3> QED
      BY <2>1, <3>1 DEF FlushingAges
  <2> QED
    BY <1>8, <2>3, <2>4, <2>5 DEF Ages
<1> QED
  BY <1>1, <1>10, <1>11, <1>12 DEF Absorb

(* A flush returns: its jobs are answered, and a full batch is flushed next.  *)
LEMMA AgesFlushed ==
  ASSUME Shape, JobsConserved, Clocks, Ages, age' = age,
         timerAge' = (IF timer /\ timer' THEN timerAge ELSE 0),
         flushAge' = (IF pc' = "apply" /\ flushing' = flushing THEN flushAge ELSE 0),
         pc = "apply", NEW outcome \in Outcomes, FlushReturns(outcome)
  PROVE  Ages'
<1> USE DEF submitVars, loopVars, redisVars, stopVars
<1>1. /\ result' = Resolved(flushing.jobs, outcome) /\ UNCHANGED <<queue, hand>>
      /\ hand = NoRequest /\ resume = "select" /\ flushing.jobs # {}
      /\ timerAge = 0 /\ timerAge' = 0
  BY DEF FlushReturns, Clocks, Shape, GoroutineShape
<1>2. HandAge'
  BY <1>1 DEF HandAge
<1>3. \A r \in flushing.jobs : age[r] <= Turns(QueueSize + 1) + MaxWait + flushAge
  BY DEF Ages, FlushingAges
<1>4. AnsweredAges'
  <2>1. Answered' \subseteq Answered \cup flushing.jobs
    BY <1>1 DEF Answered, Resolved
  <2>2. ASSUME NEW r \in flushing.jobs PROVE age[r] <= Turns(QueueSize + 2) + MaxWait
    <3>1. age[r] \in Nat
      BY AgeTypes
    <3> QED
      BY <1>3, <3>1, AgeTypes
  <2> QED
    BY <2>1, <2>2 DEF Ages, AnsweredAges
<1>5. \A r \in pending.jobs : age[r] <= Turns(QueueSize) + flushAge /\ age[r] \in Nat
  BY AgeTypes DEF Ages, PendingAges
<1>6. QueueAges
  BY DEF Ages
<1>7. CASE pending # EmptyBatch /\ StartFlush(pending, resume) /\ pending' = EmptyBatch
  <2>1. pending # flushing
    BY <1>1 DEF JobsConserved
  <2>2. pc' = "apply" /\ flushing' = pending /\ flushAge' = 0
    BY <1>7, <2>1 DEF StartFlush
  <2>3. Spare = 0 /\ Spare' = 1
    BY <1>7, <2>2 DEF Spare
  <2>4. QueueAges'
    BY <1>1, <1>6, <2>2, <2>3, QueueWaits
  <2>5. FlushingAges'
    <3>1. ASSUME NEW r \in pending.jobs PROVE age[r] <= Turns(QueueSize + 1) + MaxWait + 0
      BY <1>5, AgeTypes
    <3> QED
      BY <2>2, <3>1 DEF FlushingAges
  <2>6. PendingAges'
    BY <1>7 DEF PendingAges, EmptyBatch
  <2> QED
    BY <1>2, <1>4, <2>4, <2>5, <2>6 DEF Ages
<1>8. CASE pc' = resume /\ flushing' = EmptyBatch /\ pending' = pending
  <2>1. pc' = "select" /\ flushAge' = 0
    BY <1>1, <1>8
  <2>2. Spare' = Spare + 1 /\ Spare' \in Nat
    BY <1>8, <2>1 DEF Spare
  <2>3. QueueAges'
    BY <1>1, <1>6, <2>1, <2>2, AgeTypes, QueueWaits
  <2>4. FlushingAges'
    BY <1>8 DEF FlushingAges, EmptyBatch
  <2>5. PendingAges'
    <3>1. ASSUME NEW r \in pending.jobs PROVE age[r] <= Turns(QueueSize + 1) + 0
      BY <1>5, AgeTypes
    <3> QED
      BY <1>1, <1>8, <2>1, <3>1 DEF PendingAges
  <2> QED
    BY <1>2, <1>4, <2>3, <2>4, <2>5 DEF Ages
<1> QED
  BY <1>7, <1>8 DEF FlushReturns

(* The timer sends the batch under construction. *)
LEMMA AgesTimer ==
  ASSUME Shape, Clocks, Ages, age' = age, flushAge' = 0, TimerFires
  PROVE  Ages'
<1> USE DEF submitVars, loopVars, redisVars, stopVars
<1>1. /\ pc = "select" /\ pc' = "apply" /\ pending # EmptyBatch /\ pending' = EmptyBatch
      /\ flushing' = pending /\ UNCHANGED <<queue, hand, result>> /\ hand = NoRequest
      /\ flushAge = 0
  BY DEF TimerFires, StartFlush, Shape, GoroutineShape, Clocks
<1>2. Spare = 1 /\ Spare' = 1
  BY <1>1 DEF Spare
<1>3. QueueAges'
  BY <1>1, <1>2, QueueWaits DEF Ages
<1>4. FlushingAges'
  <2>1. ASSUME NEW r \in pending.jobs PROVE age[r] <= Turns(QueueSize + 1) + MaxWait + 0
    <3>1. age[r] <= Turns(QueueSize + 1) + timerAge /\ age[r] \in Nat
      BY <1>1, AgeTypes DEF Ages, PendingAges
    <3> QED
      BY <3>1, AgeTypes
  <2> QED
    BY <1>1, <2>1 DEF FlushingAges
<1>5. AnsweredAges' /\ HandAge' /\ PendingAges'
  BY <1>1 DEF Ages, AnsweredAges, Answered, HandAge, PendingAges, EmptyBatch
<1> QED
  BY <1>3, <1>4, <1>5 DEF Ages

(* Steps of the callers and of Redis move no job. *)
LEMMA AgesRest ==
  ASSUME Ages, UNCHANGED <<queue, hand, pending, flushing, result, age, timerAge, flushAge>>,
         pc' = pc \/ (pc = "unstarted" /\ pc' = "select")
  PROVE  Ages'
<1>1. Spare' = Spare /\ Answered' = Answered
  BY DEF Spare, Answered
<1> QED
  BY <1>1 DEF Ages, QueueAges, HandAge, PendingAges, FlushingAges, AnsweredAges

(* Whoever moves, and whenever the clock ticks, nobody waits too long.        *)
LEMMA AgesStep ==
  ASSUME Shape, JobsInv, Clocks, Ages, [TimedNext]_<<vars, clockVars>>
  PROVE  Ages'
<1> USE DEF submitVars, loopVars, redisVars, stopVars
<1>1. CASE Tick
  BY <1>1, AgesTick
<1>2. CASE NextCommand \/ UNCHANGED <<vars, clockVars>>
  BY <1>2, AgesRest DEF NextCommand, vars, clockVars
<1>3. CASE Step
  <2>1. /\ age' = age
        /\ timerAge' = IF timer /\ timer' THEN timerAge ELSE 0
        /\ flushAge' = IF pc' = "apply" /\ flushing' = flushing THEN flushAge ELSE 0
    BY <1>3 DEF Step
  <2>2. /\ timer' = timer => timerAge' = timerAge
        /\ pc # "apply" => flushAge' = 0 /\ flushAge = 0
        /\ (pc' = pc /\ flushing' = flushing) => flushAge' = flushAge
    BY <2>1 DEF Clocks
  <2>3. CASE Start
    BY <2>1, <2>2, <2>3, AgesRest DEF Start
  <2>4. ASSUME NEW r \in Requests, SubmitBegin(r) \/ SubmitResult(r)
        PROVE  Ages'
    BY <2>1, <2>2, <2>4, AgesRest DEF SubmitBegin, SubmitResult
  <2>5. ASSUME NEW r \in Requests, SubmitSend(r)
        PROVE  Ages'
    <3>1. UNCHANGED <<timer, pc, flushing>>
      BY <2>5 DEF SubmitSend
    <3> QED
      BY <2>1, <2>2, <2>5, <3>1, AgesSend
  <2>6. CASE Receive
    <3>1. UNCHANGED timer /\ pc # "apply"
      BY <2>6 DEF Receive
    <3> QED
      BY <2>1, <2>2, <2>6, <3>1, AgesReceive
  <2>7. CASE Dequeued
    <3>1. pc # "apply"
      BY <2>7 DEF Dequeued
    <3> QED
      BY <2>1, <2>2, <2>7, <3>1, AgesDequeued
  <2>8. CASE FlushOk \/ FlushFailed
    BY <2>1, <2>8, AgesFlushed DEF FlushOk, FlushFailed, Outcomes, JobsInv
  <2>9. CASE TimerFires
    <3>1. pc # "apply"
      BY <2>9 DEF TimerFires
    <3> QED
      BY <2>1, <2>2, <2>9, <3>1, AgesTimer
  <2>10. CASE \E b \in wire : RedisExecute(b)
    BY <2>1, <2>2, <2>10, AgesRest DEF RedisExecute
  <2> QED
    BY <1>3, <2>3, <2>4, <2>5, <2>6, <2>7, <2>8, <2>9, <2>10 DEF Step
<1> QED
  BY <1>1, <1>2, <1>3 DEF TimedNext

(* Nobody waits before Start. *)
LEMMA AgesInit == TimedInit => Clocks /\ Ages
<1> SUFFICES ASSUME TimedInit PROVE Clocks /\ Ages
  OBVIOUS
<1>1. Clocks
  BY DurationAssumption DEF TimedInit, Init, Clocks
<1>2. Ages
  BY DEF TimedInit, Init, Ages, QueueAges, HandAge, PendingAges, FlushingAges,
     AnsweredAges, Answered, EmptyBatch
<1> QED
  BY <1>1, <1>2

(* Submit has its answer within QueueSize + 2 flushes and one MaxWait of its  *)
(* send: a batch in flush, a job in hand behind it, and the channel in front  *)
(* (run, flush of batcher.go).  A flush lasts until the end of the last       *)
(* command of Apply that was begun before OperationTimeout, whatever time     *)
(* Redis commands take.                                                     *)
THEOREM AnsweredInTime == TimedSpec => []AckWithinWorstCase
<1>1. ASSUME Shape, JobsInv, Clocks, Ages PROVE AckWithinWorstCase
  <2> DEFINE bound == Turns(QueueSize + 2) + MaxWait
  <2>1. ASSUME NEW r \in Waiting PROVE age[r] <= bound
    <3>1. r \in Requests /\ r \in Held /\ age[r] \in Nat
      BY <1>1, <2>1, AgeTypes DEF Waiting, Held, Accepted
    <3>2. r \in Queued \cup InHand \cup pending.jobs \cup flushing.jobs \cup Answered
      BY <1>1, <3>1 DEF JobsInv, JobsConserved
    <3>3. CASE r \in Queued
      <4>1. queue \in Seq(Requests) /\ Len(queue) \in Nat /\ Len(queue) <= QueueSize
        BY <1>1 DEF Shape, TypeOK
      <4>2. PICK i \in 1..Len(queue) : queue[i] = r
        BY <3>3, <4>1 DEF Queued, Range
      <4>3. age[r] <= Turns(QueueSize - i + Spare) + flushAge
        BY <1>1, <4>2 DEF Ages, QueueAges
      <4>4. Spare \in 0..2 /\ flushAge \in Nat /\ flushAge <= FlushTime
            /\ QueueSize \in Nat /\ MaxWait \in Nat
        <5>1. Spare \in 0..2
          BY DEF Spare
        <5> QED
          BY <1>1, <5>1, AgeTypes
      <4>5. i \in Nat /\ i >= 1 /\ i <= QueueSize
        BY <4>1, <4>2, <4>4
      <4>6. QueueSize - i + Spare \in Nat /\ QueueSize - i + Spare + 1 <= QueueSize + 2
            /\ QueueSize + 2 \in Nat
        BY <4>4, <4>5
      <4>7. Turns(QueueSize - i + Spare) + flushAge <= Turns(QueueSize + 2) + 0
        BY <4>4, <4>6, Later
      <4>8. Turns(QueueSize - i + Spare) \in Nat /\ Turns(QueueSize + 2) \in Nat
        BY <4>6, OneTurn
      <4> QED
        BY <3>1, <4>3, <4>4, <4>7, <4>8
    <3>4. CASE r \in InHand
      <4>1. age[r] <= Turns(QueueSize + Spare)
        BY <1>1, <3>4 DEF InHand, Ages, HandAge
      <4>2. Spare \in 0..2 /\ QueueSize \in Nat
        BY AgeTypes, <1>1 DEF Spare
      <4>3. QueueSize + Spare \in Nat /\ QueueSize + Spare <= QueueSize + 2
            /\ QueueSize + 2 \in Nat
        BY <4>2
      <4>4. Turns(QueueSize + Spare) <= Turns(QueueSize + 2) /\ Turns(QueueSize + Spare) \in Nat
        BY <4>3, MoreTurns, OneTurn
      <4> QED
        BY <1>1, <3>1, <4>1, <4>4, AgeTypes
    <3>5. CASE r \in pending.jobs
      <4>1. age[r] <= IF pc = "apply" THEN Turns(QueueSize) + flushAge
                      ELSE Turns(QueueSize + 1) + timerAge
        BY <1>1, <3>5 DEF Ages, PendingAges
      <4> QED
        BY <1>1, <3>1, <4>1, AgeTypes
    <3>6. CASE r \in flushing.jobs
      <4>1. age[r] <= Turns(QueueSize + 1) + MaxWait + flushAge
        BY <1>1, <3>6 DEF Ages, FlushingAges
      <4> QED
        BY <1>1, <3>1, <4>1, AgeTypes
    <3>7. CASE r \in Answered
      BY <1>1, <3>7 DEF Ages, AnsweredAges
    <3> QED
      BY <3>2, <3>3, <3>4, <3>5, <3>6, <3>7
  <2> QED
    BY <2>1 DEF AckWithinWorstCase, Turns
<1>2. TimedInit => Clocks /\ Ages
  BY AgesInit
<1>3. Shape /\ JobsInv /\ Clocks /\ Ages /\ [TimedNext]_<<vars, clockVars>>
        => Clocks' /\ Ages'
  BY ClocksStep, AgesStep
<1> QED
  BY <1>1, <1>2, <1>3, TimedIsBatcher, PTL DEF TimedSpec
=============================================================================
