---------------------------- MODULE BatcherProofs ----------------------------
(***************************************************************************)
(* The safety of the batcher for every set of requests, every queue size    *)
(* and every batch limit: types, jobs, answers, limits, Stop, the sums in    *)
(* the counters, and the refinement of BatchPromise.                        *)
(***************************************************************************)
EXTENDS Batcher, SetLemmas

-----------------------------------------------------------------------------
(* The inductive invariant, in layers: each is preserved by every step from *)
(* a state that satisfies it and the layers before it.                      *)

(* Where the goroutine is, and what it may hold there. *)
GoroutineShape ==
  /\ pc = "received" <=> hand # NoRequest
  /\ pc = "received" => resume \in {"select", "drain", "abort"}
  /\ pc = "apply" => resume # "abort" /\ flushing.jobs # {}
  /\ pc # "apply" => flushing = EmptyBatch
  /\ pc = "unstarted" => pending = EmptyBatch
  /\ pending.jobs = {} => pending = EmptyBatch
  /\ pc = "abort" \/ (pc = "received" /\ resume = "abort") => pending = EmptyBatch
  /\ pc = "exited" \/ (pc = "apply" /\ resume = "exited")
       => pending = EmptyBatch /\ queue = <<>>

(* stateMu excludes; once Stop has closed the door it stays closed. *)
StopShape ==
  /\ \A r, s \in Requests : sub[r] = "sending" /\ sub[s] = "sending" => r = s
  /\ stopClosed => ~accepting /\ MutexFree /\ pc # "unstarted"
  /\ stopClosed <=> stopper # "idle"
  /\ pc \in {"drain", "abort", "exited"} => stopClosed
  /\ pc \in {"received", "apply"} /\ resume # "select" => stopClosed
  /\ stopper \in {"returned", "late"} => pc = "exited"
  /\ runCancelled <=> stopper \in {"expired", "returned", "late"}
  /\ pc = "abort" \/ (pc = "received" /\ resume = "abort") => runCancelled

Shape == TypeOK /\ GoroutineShape /\ StopShape

-----------------------------------------------------------------------------
(* Facts about the operators. *)

(* Merging two increment maps gives an increment map on both their keys. *)
LEMMA MergeIsIncrements ==
  ASSUME NEW f, NEW g, IsIncrements(f), IsIncrements(g)
  PROVE  IsIncrements(Merge(f, g)) /\ DOMAIN Merge(f, g) = DOMAIN f \cup DOMAIN g
  BY DEF IsIncrements, Merge

(* A batch with one more request is a batch, and not the empty one. *)
LEMMA AddIsBatch ==
  ASSUME NEW b, IsBatch(b), NEW r \in Requests
  PROVE  /\ IsBatch(Add(b, r))
         /\ Add(b, r).jobs = b.jobs \cup {r}
         /\ Add(b, r) # EmptyBatch
         /\ DOMAIN Add(b, r).increments
              = DOMAIN b.increments \cup DOMAIN Request[r].increments
         /\ Add(b, r).events = b.events + Request[r].events
<1>1. IsIncrements(Request[r].increments) /\ Request[r].events \in Nat
  BY RequestAssumption
<1>2. IsIncrements(Merge(b.increments, Request[r].increments))
  BY <1>1, MergeIsIncrements DEF IsBatch
<1>3. DOMAIN Merge(b.increments, Request[r].increments)
        = DOMAIN b.increments \cup DOMAIN Request[r].increments
  BY <1>1, MergeIsIncrements DEF IsBatch
<1>4. /\ Add(b, r).jobs = b.jobs \cup {r}
      /\ Add(b, r).events = b.events + Request[r].events
      /\ Add(b, r).increments = Merge(b.increments, Request[r].increments)
  BY DEF Add
<1>5. Add(b, r).jobs # EmptyBatch.jobs
  BY <1>4 DEF EmptyBatch
<1> QED
  BY <1>1, <1>2, <1>3, <1>4, <1>5 DEF IsBatch

(* The nil batch has the type of a batch.                                   *)
LEMMA EmptyIsBatch == IsBatch(EmptyBatch)
  BY DEF IsBatch, EmptyBatch, IsIncrements

(* stateMu has no holder, or one. *)
LEMMA NoSender ==
  ASSUME NEW f, \A r \in Requests : f[r] # "sending"
  PROVE  Cardinality({r \in Requests : f[r] = "sending"}) = 0
<1>1. {r \in Requests : f[r] = "sending"} = {}
  OBVIOUS
<1> QED
  BY <1>1, FS_EmptySet

(* One holder of stateMu is counted once by the gauge.                      *)
LEMMA OneSender ==
  ASSUME NEW f, NEW q \in Requests, f[q] = "sending",
         \A r \in Requests : f[r] = "sending" => r = q
  PROVE  Cardinality({r \in Requests : f[r] = "sending"}) = 1
<1>1. {r \in Requests : f[r] = "sending"} = {q}
  OBVIOUS
<1> QED
  BY <1>1, FS_Singleton

-----------------------------------------------------------------------------
(* Layer 1: types, the shape of the goroutine and of Stop, the depth gauge. *)

(* NewBatcher: no goroutine, no job, nobody in Submit or Stop.              *)
LEMMA ShapeInit == Init => Shape /\ DepthAccounting
<1> SUFFICES ASSUME Init PROVE Shape /\ DepthAccounting
  OBVIOUS
<1>1. Cardinality({r \in Requests : sub[r] = "sending"}) = 0
  BY NoSender DEF Init
<1>2. TypeOK
  <2>1. <<>> \in Seq(Requests) /\ Len(<<>>) = 0 /\ 0 <= QueueSize
    BY LimitAssumption
  <2>2. \A b \in wire \cup {pending, flushing} : IsBatch(b)
    BY EmptyIsBatch DEF Init
  <2> QED
    BY <2>1, <2>2 DEF Init, TypeOK, Outcomes, Refusals
<1>3. GoroutineShape
  BY NoRequestAssumption DEF Init, GoroutineShape, EmptyBatch
<1>4. StopShape
  BY DEF Init, StopShape, MutexFree
<1>5. DepthAccounting
  BY <1>1 DEF Init, DepthAccounting
<1> QED
  BY <1>2, <1>3, <1>4, <1>5 DEF Shape

(* Submit, run, Redis and Stop keep every variable in its type; the gauge   *)
(* is positive whenever dequeued or a refused send lowers it.               *)
LEMMA TypeStep ==
  ASSUME Shape, DepthAccounting, Next
  PROVE  TypeOK'
<1> USE DEF submitVars, loopVars, stopVars, redisVars, Outcomes, Refusals
<1>0. TypeOK /\ GoroutineShape /\ StopShape
  BY DEF Shape
<1>1. CASE Start
  BY <1>0, <1>1 DEF Start, TypeOK
<1>2. ASSUME NEW r \in Requests, SubmitBegin(r) PROVE TypeOK'
  <2>1. sub' \in [Requests ->
          {"idle", "sending", "waiting", "cancelled"} \cup Outcomes \cup Refusals]
    BY <1>0, <1>2 DEF SubmitBegin, Refuse, TypeOK
  <2>2. accepting' \in BOOLEAN /\ depth' \in Nat
    BY <1>0, <1>2 DEF SubmitBegin, Refuse, TypeOK
  <2> QED
    BY <1>0, <1>2, <2>1, <2>2 DEF SubmitBegin, TypeOK
<1>3. ASSUME NEW r \in Requests, SubmitSend(r) PROVE TypeOK'
  <2>1. Cardinality({q \in Requests : sub[q] = "sending"}) = 1
    BY <1>0, <1>3, OneSender DEF SubmitSend, StopShape
  <2>2. depth - 1 \in Nat
    BY <1>0, <2>1 DEF DepthAccounting, TypeOK
  <2>3. queue' \in Seq(Requests) /\ Len(queue') <= QueueSize
    <3>1. queue \in Seq(Requests) /\ Len(queue) <= QueueSize
      BY <1>0 DEF TypeOK
    <3>2. CASE Len(queue) < QueueSize /\ queue' = Append(queue, r)
      <4>1. Append(queue, r) \in Seq(Requests) /\ Len(Append(queue, r)) = Len(queue) + 1
        BY <3>1
      <4> QED
        BY <3>2, <4>1, LimitAssumption
    <3>3. CASE queue' = queue
      BY <3>1, <3>3
    <3> QED
      BY <1>3, <3>2, <3>3 DEF SubmitSend
  <2>4. depth' \in Nat
    BY <1>0, <1>3, <2>2 DEF SubmitSend, TypeOK
  <2>5. sub' \in [Requests ->
          {"idle", "sending", "waiting", "cancelled"} \cup Outcomes \cup Refusals]
    BY <1>0, <1>3 DEF SubmitSend, TypeOK
  <2> QED
    BY <1>0, <1>3, <2>3, <2>4, <2>5 DEF SubmitSend, TypeOK
<1>4. ASSUME NEW r \in Requests, SubmitResult(r) PROVE TypeOK'
  BY <1>0, <1>4 DEF SubmitResult, TypeOK
<1>5. ASSUME NEW r \in Requests, SubmitCancel(r) PROVE TypeOK'
  BY <1>0, <1>5 DEF SubmitCancel, TypeOK
<1>6. CASE Receive
  <2>1. Head(queue) \in Requests /\ Tail(queue) \in Seq(Requests)
        /\ Len(Tail(queue)) <= QueueSize
    BY <1>0, <1>6, LimitAssumption DEF Receive, TypeOK
  <2> QED
    BY <1>0, <1>6, <2>1 DEF Receive, TypeOK
<1>7. CASE Dequeued
  <2>1. depth - 1 \in Nat
    <3>1. Cardinality({r \in Requests : sub[r] = "sending"}) = 0
      BY <1>7, NoSender DEF Dequeued, MutexFree
    <3>2. depth = Len(queue) + 1 /\ Len(queue) \in Nat
      BY <1>0, <1>7, <3>1 DEF Dequeued, DepthAccounting, TypeOK
    <3> QED
      BY <3>2
  <2>2. hand \in Requests
    BY <1>0, <1>7 DEF Dequeued, TypeOK, GoroutineShape
  <2>3. IsBatch(Add(pending, hand)) /\ IsBatch(NewPendingBatch(hand)) /\ IsBatch(EmptyBatch)
    BY <1>0, <2>2, AddIsBatch, EmptyIsBatch DEF TypeOK, NewPendingBatch
  <2>4. CASE resume # "abort"
    <3>1. Absorb(hand) /\ UNCHANGED <<result, accepting, sub, queue, stopVars, counters, counted>>
      BY <1>7, <2>4 DEF Dequeued
    <3>2. \A b \in (wire \cup {pending, flushing})' : IsBatch(b)
      BY <1>0, <2>3, <3>1 DEF Absorb, KeepPending, StartFlush, TypeOK
    <3>3. pc' \in {"apply", "select", "received", "drain", "exited"} /\ resume' = resume
          /\ timer' \in BOOLEAN /\ replied' \in BOOLEAN
      BY <1>0, <1>7, <2>4, <3>1 DEF Absorb, KeepPending, StartFlush, TypeOK
    <3> QED
      BY <1>0, <1>7, <2>1, <3>1, <3>2, <3>3 DEF Dequeued, TypeOK
  <2>5. CASE resume = "abort"
    BY <1>0, <1>7, <2>1, <2>5 DEF Dequeued, Resolved, TypeOK
  <2> QED
    BY <2>4, <2>5
<1>8. CASE TimerFires
  BY <1>0, <1>8, EmptyIsBatch DEF TimerFires, StartFlush, TypeOK
<1>9. CASE EnterDrain
  BY <1>0, <1>9 DEF EnterDrain, TypeOK
<1>10. CASE EnterAbort
  <2>1. result' \in [Requests -> {"none"} \cup Outcomes]
    BY <1>0, <1>10 DEF EnterAbort, Resolved, TypeOK, Outcomes
  <2>2. pending' = EmptyBatch /\ pc' = "abort" /\ timer' = FALSE
    BY <1>10 DEF EnterAbort
  <2>3. UNCHANGED <<submitVars, queue, resume, hand, flushing, replied, stopVars,
                    redisVars>>
    BY <1>10 DEF EnterAbort
  <2> QED
    BY <1>0, <2>1, <2>2, <2>3, EmptyIsBatch DEF TypeOK
<1>11. CASE DrainEmpty
  <2>1. /\ pending' = EmptyBatch /\ pc' \in {"exited", "apply"}
        /\ resume' \in {resume, "exited"} /\ timer' \in BOOLEAN /\ replied' \in BOOLEAN
    BY <1>0, <1>11 DEF DrainEmpty, StartFlush, TypeOK
  <2>2. \A b \in wire' \cup {flushing'} : IsBatch(b)
    BY <1>0, <1>11 DEF DrainEmpty, StartFlush, TypeOK
  <2>3. UNCHANGED <<submitVars, queue, result, hand, stopVars, counters, counted>>
    BY <1>11 DEF DrainEmpty
  <2> QED
    BY <1>0, <2>1, <2>2, <2>3, EmptyIsBatch DEF TypeOK
<1>12. CASE AbortEmpty
  BY <1>0, <1>12 DEF AbortEmpty, TypeOK
<1>13. ASSUME NEW outcome \in Outcomes, FlushReturns(outcome) PROVE TypeOK'
  <2>1. result' \in [Requests -> {"none"} \cup Outcomes]
    BY <1>0, <1>13 DEF FlushReturns, Resolved, TypeOK
  <2>2. \A b \in (wire \cup {pending, flushing})' : IsBatch(b)
    BY <1>0, <1>13, EmptyIsBatch DEF FlushReturns, StartFlush, TypeOK
  <2>3. /\ timer' \in BOOLEAN /\ replied' \in BOOLEAN
        /\ pc' \in {"select", "apply", "drain", "abort", "exited"}
        /\ resume' = resume
    BY <1>0, <1>13 DEF FlushReturns, StartFlush, TypeOK
  <2>4. UNCHANGED <<submitVars, queue, hand, stopVars, counters, counted>>
    BY <1>13 DEF FlushReturns
  <2> QED
    BY <1>0, <2>1, <2>2, <2>3, <2>4 DEF TypeOK
<1>14. ASSUME NEW b \in wire, RedisExecute(b) PROVE TypeOK'
  <2>1. counters' \in [Keys -> Nat]
    BY <1>0, <1>14 DEF RedisExecute, TypeOK, IsBatch, IsIncrements
  <2>2. counted' \in [Requests -> Nat]
    BY <1>0, <1>14 DEF RedisExecute, TypeOK
  <2> QED
    BY <1>0, <1>14, <2>1, <2>2 DEF RedisExecute, TypeOK
<1>15. CASE Stop
  <2>1. /\ accepting' \in BOOLEAN /\ stopClosed' \in BOOLEAN /\ runCancelled' \in BOOLEAN
        /\ stopper' \in {"idle", "waiting", "expired", "returned", "late"}
    BY <1>0, <1>15 DEF Stop, StopBegin, StopDone, StopDeadline, StopJoined, TypeOK
  <2>2. UNCHANGED <<depth, sub, queue, result, loopVars, replied, redisVars>>
    BY <1>15 DEF Stop, StopBegin, StopDone, StopDeadline, StopJoined
  <2> QED
    BY <1>0, <2>1, <2>2 DEF TypeOK
<1>16. CASE Finished
  BY <1>0, <1>16 DEF Finished, vars, TypeOK
<1> QED
  BY <1>1, <1>2, <1>3, <1>4, <1>5, <1>6, <1>7, <1>8, <1>9, <1>10, <1>11, <1>12,
     <1>13, <1>14, <1>15, <1>16 DEF Next, Submit, RunStep, FlushOk, FlushFailed

(* run, drain, abort and flush hold a job, a pending batch or a flush only  *)
(* where their control flow has one; run exits with nothing in hand.        *)
LEMMA GoroutineStep ==
  ASSUME Shape, Next
  PROVE  GoroutineShape'
<1> USE DEF submitVars, loopVars, stopVars, redisVars
<1>0. TypeOK /\ GoroutineShape /\ StopShape
  BY DEF Shape
<1>1. CASE Start
  BY <1>0, <1>1 DEF Start, GoroutineShape
<1>2. ASSUME NEW r \in Requests, SubmitBegin(r) \/ SubmitResult(r) \/ SubmitCancel(r)
      PROVE  GoroutineShape'
  BY <1>0, <1>2 DEF SubmitBegin, SubmitResult, SubmitCancel, GoroutineShape
<1>3. ASSUME NEW r \in Requests, SubmitSend(r) PROVE GoroutineShape'
  <2>1. ~stopClosed
    BY <1>0, <1>3 DEF SubmitSend, StopShape, MutexFree
  <2>2. ~(pc = "exited" \/ (pc = "apply" /\ resume = "exited"))
    BY <1>0, <2>1 DEF StopShape
  <2> QED
    BY <1>0, <1>3, <2>2 DEF SubmitSend, GoroutineShape
<1>4. CASE Receive
  <2>1. hand' \in Requests
    BY <1>0, <1>4 DEF Receive, TypeOK
  <2> QED
    BY <1>0, <1>4, <2>1, NoRequestAssumption DEF Receive, GoroutineShape
<1>5. CASE Dequeued
  <2>1. hand \in Requests /\ IsBatch(pending) /\ IsBatch(EmptyBatch)
        /\ resume \in {"select", "drain", "abort"} /\ flushing = EmptyBatch
    BY <1>0, <1>5, EmptyIsBatch DEF Dequeued, TypeOK, GoroutineShape
  <2>2. Add(pending, hand).jobs # {} /\ NewPendingBatch(hand).jobs # {}
    <3>1. Add(pending, hand).jobs = pending.jobs \cup {hand}
      BY <2>1, AddIsBatch
    <3>2. NewPendingBatch(hand).jobs = EmptyBatch.jobs \cup {hand}
      BY <2>1, AddIsBatch DEF NewPendingBatch
    <3> QED
      BY <3>1, <3>2
  <2>3. CASE resume = "abort"
    BY <1>0, <1>5, <2>1, <2>3 DEF Dequeued, GoroutineShape
  <2>4. CASE resume # "abort"
    <3>1. hand' = NoRequest /\ queue' = queue /\ Absorb(hand)
      BY <1>5, <2>4 DEF Dequeued
    <3>2. resume' = resume
      BY <3>1 DEF Absorb, KeepPending, StartFlush
    <3>3. pending'.jobs # {} \/ pending' = EmptyBatch
      BY <2>2, <3>1 DEF Absorb, KeepPending, StartFlush
    <3>4. \/ pc' = "apply" /\ flushing'.jobs # {}
          \/ pc' = resume /\ flushing' = EmptyBatch
      BY <1>0, <2>1, <2>2, <3>1 DEF Absorb, KeepPending, StartFlush, GoroutineShape
    <3> QED
      BY <2>1, <2>4, <3>1, <3>2, <3>3, <3>4 DEF GoroutineShape
  <2> QED
    BY <2>3, <2>4
<1>6. CASE TimerFires
  BY <1>0, <1>6 DEF TimerFires, StartFlush, GoroutineShape, EmptyBatch
<1>7. CASE EnterDrain
  BY <1>0, <1>7 DEF EnterDrain, GoroutineShape
<1>8. CASE EnterAbort
  BY <1>0, <1>8 DEF EnterAbort, GoroutineShape
<1>9. CASE DrainEmpty
  BY <1>0, <1>9 DEF DrainEmpty, StartFlush, GoroutineShape, EmptyBatch
<1>10. CASE AbortEmpty
  BY <1>0, <1>10 DEF AbortEmpty, GoroutineShape
<1>11. ASSUME NEW outcome \in Outcomes, pc = "apply", FlushReturns(outcome)
       PROVE  GoroutineShape'
  BY <1>0, <1>11 DEF FlushReturns, StartFlush, GoroutineShape, EmptyBatch, TypeOK
<1>12. ASSUME NEW b \in wire, RedisExecute(b) PROVE GoroutineShape'
  BY <1>0, <1>12 DEF RedisExecute, GoroutineShape
<1>13. CASE Stop
  BY <1>0, <1>13 DEF Stop, StopBegin, StopDone, StopDeadline, StopJoined, GoroutineShape
<1>14. CASE Finished
  BY <1>0, <1>14 DEF Finished, vars, GoroutineShape
<1> QED
  BY <1>1, <1>2, <1>3, <1>4, <1>5, <1>6, <1>7, <1>8, <1>9, <1>10, <1>11, <1>12,
     <1>13, <1>14 DEF Next, Submit, RunStep, FlushOk, FlushFailed, Outcomes

(* stateMu excludes: after Stop has cleared accepting no Submit is on its   *)
(* way to the channel, and only a drain or an abort follows.                *)
LEMMA StopStep ==
  ASSUME Shape, Next
  PROVE  StopShape'
<1> USE DEF submitVars, loopVars, stopVars, redisVars, MutexFree
<1>0. TypeOK /\ GoroutineShape /\ StopShape
  BY DEF Shape
<1>1. CASE Start
  BY <1>0, <1>1 DEF Start, StopShape
<1>2. ASSUME NEW r \in Requests, SubmitBegin(r) PROVE StopShape'
  <2>1. CASE sub'[r] = "sending"
    <3>1. accepting /\ MutexFree /\ sub' = [sub EXCEPT ![r] = "sending"]
      BY <1>0, <1>2, <2>1 DEF SubmitBegin, Refuse, TypeOK
    <3> QED
      BY <1>0, <1>2, <3>1 DEF SubmitBegin, Refuse, StopShape, TypeOK
  <2>2. CASE sub'[r] # "sending"
    BY <1>0, <1>2, <2>2 DEF SubmitBegin, Refuse, StopShape, TypeOK
  <2> QED
    BY <2>1, <2>2
<1>3. ASSUME NEW r \in Requests, SubmitSend(r) \/ SubmitResult(r) \/ SubmitCancel(r)
      PROVE  StopShape'
  <2>1. \E o \in {"waiting", "queue_full", "cancelled"} \cup Outcomes :
           sub' = [sub EXCEPT ![r] = o]
    BY <1>0, <1>3 DEF SubmitSend, SubmitResult, SubmitCancel, TypeOK
  <2>2. \A q \in Requests : sub'[q] = "sending" => sub[q] = "sending"
    BY <1>0, <2>1 DEF TypeOK, Outcomes
  <2> QED
    BY <1>0, <1>3, <2>2 DEF SubmitSend, SubmitResult, SubmitCancel, StopShape
<1>4. CASE Receive
  BY <1>0, <1>4 DEF Receive, StopShape
<1>5. CASE Dequeued
  <2>1. pc' = "apply" \/ pc' = resume
    BY <1>5 DEF Dequeued, Absorb, KeepPending, StartFlush
  <2>2. resume' = resume /\ (pc' = "apply" => resume # "abort")
    BY <1>0, <1>5 DEF Dequeued, Absorb, KeepPending, StartFlush, GoroutineShape
  <2> QED
    BY <1>0, <1>5, <2>1, <2>2 DEF Dequeued, StopShape, GoroutineShape
<1>6. CASE TimerFires
  BY <1>0, <1>6 DEF TimerFires, StartFlush, StopShape
<1>7. CASE EnterDrain
  BY <1>0, <1>7 DEF EnterDrain, StopShape
<1>8. CASE EnterAbort
  BY <1>0, <1>8 DEF EnterAbort, StopShape, TypeOK
<1>9. CASE DrainEmpty
  BY <1>0, <1>9 DEF DrainEmpty, StartFlush, StopShape, TypeOK
<1>10. CASE AbortEmpty
  BY <1>0, <1>10 DEF AbortEmpty, StopShape
<1>11. ASSUME NEW outcome \in Outcomes, pc = "apply", FlushReturns(outcome)
       PROVE  StopShape'
  <2>1. /\ pc' = "apply" \/ pc' = resume
        /\ resume' = resume
        /\ UNCHANGED <<accepting, sub, stopClosed, runCancelled, stopper>>
    BY <1>11 DEF FlushReturns, StartFlush
  <2>2. resume \in {"select", "drain", "exited"}
    BY <1>0, <1>11 DEF TypeOK, GoroutineShape
  <2> QED
    BY <1>0, <1>11, <2>1, <2>2 DEF StopShape
<1>12. ASSUME NEW b \in wire, RedisExecute(b) PROVE StopShape'
  <2>1. UNCHANGED <<accepting, sub, pc, resume, stopClosed, runCancelled, stopper>>
    BY <1>12 DEF RedisExecute
  <2> QED
    BY <1>0, <2>1 DEF StopShape
<1>13. CASE Stop
  <2>1. CASE StopBegin
    BY <1>0, <2>1 DEF StopBegin, StopShape
  <2>2. CASE StopDone
    BY <1>0, <2>2 DEF StopDone, StopShape
  <2>3. CASE StopDeadline
    BY <1>0, <2>3 DEF StopDeadline, StopShape
  <2>4. CASE StopJoined
    BY <1>0, <2>4 DEF StopJoined, StopShape
  <2> QED
    BY <1>13, <2>1, <2>2, <2>3, <2>4 DEF Stop
<1>14. CASE Finished
  BY <1>0, <1>14 DEF Finished, vars, StopShape
<1> QED
  BY <1>1, <1>2, <1>3, <1>4, <1>5, <1>6, <1>7, <1>8, <1>9, <1>10, <1>11, <1>12,
     <1>13, <1>14 DEF Next, Submit, RunStep, FlushOk, FlushFailed, Outcomes

(* The gauge moves with the channel, one critical section at a time. *)
LEMMA DepthStep ==
  ASSUME Shape, DepthAccounting, Next
  PROVE  DepthAccounting'
<1> USE DEF submitVars, loopVars, stopVars, redisVars
<1>0. TypeOK /\ GoroutineShape /\ StopShape
  BY DEF Shape
<1> DEFINE Senders == Cardinality({r \in Requests : sub[r] = "sending"})
<1>1. ASSUME depth' = depth, sub' = sub, queue' = queue,
             pc' = "received" <=> pc = "received"
      PROVE  DepthAccounting'
  BY <1>1 DEF DepthAccounting
<1>2. ASSUME NEW r \in Requests, SubmitBegin(r) PROVE DepthAccounting'
  <2>1. CASE accepting /\ MutexFree /\ sub' = [sub EXCEPT ![r] = "sending"]
             /\ depth' = depth + 1
    <3>1. Senders = 0
      BY <2>1, NoSender DEF MutexFree
    <3>2. \A q \in Requests : sub'[q] = "sending" <=> q = r
      BY <1>0, <2>1 DEF MutexFree, TypeOK
    <3>3. Senders' = 1
      BY <3>2, OneSender
    <3> QED
      BY <1>0, <1>2, <2>1, <3>1, <3>3 DEF SubmitBegin, DepthAccounting, TypeOK
  <2>2. CASE depth' = depth /\ sub'[r] # "sending"
    <3>1. {q \in Requests : sub'[q] = "sending"} = {q \in Requests : sub[q] = "sending"}
      BY <1>0, <1>2, <2>2 DEF SubmitBegin, Refuse, TypeOK
    <3> QED
      BY <1>2, <2>2, <3>1 DEF SubmitBegin, DepthAccounting
  <2> QED
    BY <1>0, <1>2, <2>1, <2>2 DEF SubmitBegin, Refuse, TypeOK
<1>3. ASSUME NEW r \in Requests, SubmitSend(r) PROVE DepthAccounting'
  <2>1. Senders = 1
    BY <1>0, <1>3, OneSender DEF SubmitSend, StopShape
  <2>2. \A q \in Requests : sub'[q] # "sending"
    BY <1>0, <1>3 DEF SubmitSend, StopShape, TypeOK
  <2>3. Senders' = 0
    BY <2>2, NoSender
  <2>4. pc' = pc /\ queue \in Seq(Requests) /\ depth \in Nat
    BY <1>0, <1>3 DEF SubmitSend, TypeOK
  <2>5. CASE queue' = Append(queue, r) /\ depth' = depth
    <3>1. Len(queue') = Len(queue) + 1
      BY <2>4, <2>5
    <3> QED
      BY <2>1, <2>3, <2>4, <2>5, <3>1 DEF DepthAccounting
  <2>6. CASE queue' = queue /\ depth' = depth - 1
    BY <2>1, <2>3, <2>4, <2>6 DEF DepthAccounting
  <2> QED
    BY <1>3, <2>5, <2>6 DEF SubmitSend
<1>4. ASSUME NEW r \in Requests, SubmitResult(r) \/ SubmitCancel(r)
      PROVE  DepthAccounting'
  <2>1. \A q \in Requests : sub'[q] = "sending" <=> sub[q] = "sending"
    BY <1>0, <1>4 DEF SubmitResult, SubmitCancel, TypeOK, Outcomes
  <2>2. Senders' = Senders
    BY <2>1
  <2>3. depth' = depth /\ queue' = queue /\ pc' = pc
    BY <1>4 DEF SubmitResult, SubmitCancel
  <2> QED
    BY <2>2, <2>3 DEF DepthAccounting
<1>5. CASE Receive
  <2>1. queue \in Seq(Requests) /\ queue # <<>>
    BY <1>0, <1>5 DEF Receive, TypeOK
  <2>2. Len(queue') = Len(queue) - 1
    BY <1>5, <2>1 DEF Receive
  <2>3. depth' = depth /\ Senders' = Senders /\ pc # "received" /\ pc' = "received"
    BY <1>5 DEF Receive
  <2>4. Senders = 0 \/ Senders = 1
    <3>1. CASE MutexFree
      BY <3>1, NoSender DEF MutexFree
    <3>2. CASE ~MutexFree
      BY <1>0, <3>2, OneSender DEF MutexFree, StopShape
    <3> QED
      BY <3>1, <3>2
  <2>5. depth = Len(queue) + Senders + 0
    BY <2>3 DEF DepthAccounting
  <2> HIDE DEF Senders
  <2>6. depth' = Len(queue') + Senders' + 1
    BY <2>1, <2>2, <2>3, <2>4, <2>5
  <2> QED
    BY <2>3, <2>6 DEF DepthAccounting, Senders
<1>6. CASE Dequeued
  <2>1. Senders = 0
    BY <1>6, NoSender DEF Dequeued, MutexFree
  <2>2. depth = Len(queue) + 1 /\ Len(queue) \in Nat
    BY <1>0, <1>6, <2>1 DEF Dequeued, DepthAccounting, TypeOK
  <2>3. pc' # "received"
    BY <1>0, <1>6 DEF Dequeued, Absorb, KeepPending, StartFlush, GoroutineShape
  <2>4. queue' = queue /\ sub' = sub /\ depth' = depth - 1
    BY <1>6 DEF Dequeued
  <2> QED
    BY <2>1, <2>2, <2>3, <2>4 DEF DepthAccounting
<1>7. CASE Start \/ TimerFires \/ EnterDrain \/ EnterAbort \/ DrainEmpty \/ AbortEmpty
  BY <1>1, <1>7 DEF Start, TimerFires, EnterDrain, EnterAbort, DrainEmpty, AbortEmpty,
     StartFlush
<1>8. ASSUME NEW outcome \in Outcomes, pc = "apply", FlushReturns(outcome)
      PROVE  DepthAccounting'
  <2>1. pc' = "apply" \/ pc' = resume
    BY <1>8 DEF FlushReturns, StartFlush
  <2>2. pc' # "received"
    BY <1>0, <2>1 DEF TypeOK
  <2> QED
    BY <1>1, <1>8, <2>2 DEF FlushReturns
<1>9. ASSUME NEW b \in wire, RedisExecute(b) PROVE DepthAccounting'
  BY <1>1, <1>9 DEF RedisExecute
<1>10. CASE Stop
  BY <1>1, <1>10 DEF Stop, StopBegin, StopDone, StopDeadline, StopJoined
<1>11. CASE Finished
  BY <1>1, <1>11 DEF Finished, vars
<1> QED
  BY <1>2, <1>3, <1>4, <1>5, <1>6, <1>7, <1>8, <1>9, <1>10, <1>11
  DEF Next, Submit, RunStep, FlushOk, FlushFailed, Outcomes

(* Type correctness, and the gauge is never off: depth is the channel's     *)
(* length plus the job between the channel and its accounting.              *)
THEOREM ShapeInvariant == Spec => [](Shape /\ DepthAccounting)
<1>1. ASSUME Shape, DepthAccounting, [Next]_vars PROVE Shape' /\ DepthAccounting'
  <2>1. CASE Next
    BY <1>1, <2>1, TypeStep, GoroutineStep, StopStep, DepthStep DEF Shape
  <2>2. CASE UNCHANGED vars
    BY <1>1, <2>2 DEF Shape, TypeOK, GoroutineShape, StopShape, MutexFree,
       DepthAccounting, vars, submitVars, loopVars, stopVars, redisVars
  <2> QED
    BY <1>1, <2>1, <2>2
<1> QED
  BY <1>1, ShapeInit, PTL DEF Spec

(* Every variable keeps its type; the depth gauge never goes negative. *)
THEOREM TypeCorrect == Spec => []TypeOK
  BY ShapeInvariant, PTL DEF Shape

(* The queue-depth gauge is exact in every state (observeQueueDepth). *)
THEOREM DepthExact == Spec => []DepthAccounting
  BY ShapeInvariant, PTL

-----------------------------------------------------------------------------
(* Layer 2: where the jobs are. *)

(* Sending a job appends it to the channel's contents. *)
LEMMA SendRange ==
  ASSUME NEW q \in Seq(Requests), NEW r \in Requests, Distinct(q), r \notin Range(q)
  PROVE  Range(Append(q, r)) = Range(q) \cup {r} /\ Distinct(Append(q, r))
<1>1. /\ Len(Append(q, r)) = Len(q) + 1
      /\ DOMAIN Append(q, r) = 1..(Len(q) + 1)
      /\ DOMAIN q = 1..Len(q) /\ Len(q) \in Nat
      /\ \A i \in 1..Len(q) : Append(q, r)[i] = q[i]
      /\ Append(q, r)[Len(q) + 1] = r
  OBVIOUS
<1>2. \A i \in 1..(Len(q) + 1) : i \in 1..Len(q) \/ i = Len(q) + 1
  BY <1>1
<1>3. Range(Append(q, r)) \subseteq Range(q) \cup {r}
  BY <1>1, <1>2 DEF Range
<1>4. Range(q) \cup {r} \subseteq Range(Append(q, r))
  <2>1. \A i \in 1..Len(q) : i \in 1..(Len(q) + 1)
    BY <1>1
  <2>2. Len(q) + 1 \in 1..(Len(q) + 1)
    BY <1>1
  <2> QED
    BY <1>1, <2>1, <2>2 DEF Range
<1>5. Distinct(Append(q, r))
  BY <1>1, <1>2 DEF Distinct, Range
<1> QED
  BY <1>3, <1>4, <1>5

(* Receiving a job takes exactly that job off the channel. *)
LEMMA ReceiveRange ==
  ASSUME NEW q \in Seq(Requests), q # <<>>, Distinct(q)
  PROVE  /\ Head(q) \in Range(q)
         /\ Range(Tail(q)) = Range(q) \ {Head(q)}
         /\ Distinct(Tail(q))
<1>1. /\ Len(q) \in Nat /\ Len(q) > 0 /\ DOMAIN q = 1..Len(q)
      /\ Tail(q) \in Seq(Requests)
      /\ Len(Tail(q)) = Len(q) - 1
      /\ Head(q) = q[1]
  OBVIOUS
<1>2. DOMAIN Tail(q) = 1..(Len(q) - 1)
  BY <1>1
<1>3. \A i \in 1..(Len(q) - 1) : Tail(q)[i] = q[i + 1]
  OBVIOUS
<1>4. Head(q) \in Range(q)
  BY <1>1 DEF Range
<1>5. \A i \in 1..(Len(q) - 1) : i + 1 \in 1..Len(q) /\ i + 1 # 1
  BY <1>1
<1>6. \A i \in 1..Len(q) : i # 1 => i - 1 \in 1..(Len(q) - 1) /\ (i - 1) + 1 = i
  BY <1>1
<1>7. Distinct(Tail(q))
  BY <1>1, <1>3, <1>5 DEF Distinct
<1>8. \A x \in Range(Tail(q)) : x \in Range(q) \ {Head(q)}
  <2> SUFFICES ASSUME NEW i \in 1..(Len(q) - 1)
               PROVE  Tail(q)[i] \in Range(q) \ {Head(q)}
    BY <1>2 DEF Range
  <2>1. q[i + 1] \in Range(q)
    BY <1>1, <1>5 DEF Range
  <2>2. q[i + 1] # q[1]
    BY <1>1, <1>5 DEF Distinct
  <2> QED
    BY <1>1, <1>3, <2>1, <2>2
<1>9. \A x \in Range(q) \ {Head(q)} : x \in Range(Tail(q))
  <2> SUFFICES ASSUME NEW i \in 1..Len(q), i # 1
               PROVE  q[i] \in Range(Tail(q))
    BY <1>1 DEF Range
  <2>1. Tail(q)[i - 1] = q[i] /\ i - 1 \in DOMAIN Tail(q)
    BY <1>2, <1>3, <1>6
  <2> QED
    BY <2>1 DEF Range
<1> QED
  BY <1>4, <1>7, <1>8, <1>9

(* What Submit returned is what was sent on job.result. *)
ReturnedResult == \A r \in Requests : sub[r] \in Outcomes => result[r] = sub[r]

JobsInv == JobsConserved /\ ReturnedResult

(* No job exists before Start.                                              *)
LEMMA JobsInit == Init => JobsInv
<1> SUFFICES ASSUME Init PROVE JobsInv
  OBVIOUS
<1>1. Held = {} /\ Answered = {} /\ InHand = {}
  BY DEF Init, Held, Answered, InHand, Accepted, Outcomes
<1>2. Queued = {} /\ Distinct(queue)
  BY DEF Init, Queued, Range, Distinct
<1>3. pending.jobs = {} /\ flushing.jobs = {}
  BY DEF Init, EmptyBatch
<1>4. ReturnedResult
  BY DEF Init, ReturnedResult, Outcomes
<1> QED
  BY <1>1, <1>2, <1>3, <1>4 DEF JobsInv, JobsConserved

(* Answering the jobs of a set adds them to the answered ones. *)
LEMMA AnswerJobs ==
  ASSUME TypeOK, ReturnedResult, Answered \subseteq Held,
         NEW jobs \in SUBSET Requests, jobs \cap Answered = {},
         NEW outcome \in Outcomes,
         result' = Resolved(jobs, outcome), sub' = sub
  PROVE  Answered' = Answered \cup jobs /\ Held' = Held /\ ReturnedResult'
<1>1. \A r \in Requests : result'[r] = IF r \in jobs THEN outcome ELSE result[r]
  BY DEF Resolved
<1>2. outcome # "none"
  BY DEF Outcomes
<1>3. \A r \in Requests : sub[r] \in Outcomes => r \in Answered
  BY DEF ReturnedResult, Answered, Outcomes
<1>4. ReturnedResult'
  BY <1>1, <1>3 DEF ReturnedResult
<1>5. Answered' = Answered \cup jobs
  BY <1>1, <1>2 DEF Answered
<1> QED
  BY <1>4, <1>5 DEF Held, Accepted

(* A step of Submit that is not the send moves no job. *)
LEMMA SubmitMovesNothing ==
  ASSUME TypeOK, ReturnedResult, NEW r \in Requests,
         NEW o \in {"sending", "queue_full", "cancelled"} \cup Outcomes \cup Refusals,
         sub' = [sub EXCEPT ![r] = o], result' = result,
         Accepted(r) <=> o \in {"cancelled"} \cup Outcomes,
         o \in Outcomes => result[r] = o
  PROVE  Held' = Held /\ Answered' = Answered /\ ReturnedResult'
<1>1. \A q \in Requests : sub'[q] = IF q = r THEN o ELSE sub[q]
  BY DEF TypeOK
<1>2. o # "waiting"
  BY DEF Outcomes, Refusals
<1>3. Held' = Held
  BY <1>1, <1>2 DEF Held, Accepted
<1> QED
  BY <1>1, <1>3 DEF Answered, ReturnedResult

(* Every step of Submit, run and Stop hands each job it touches to exactly  *)
(* one next holder.                                                         *)
LEMMA JobsStep ==
  ASSUME Shape, JobsInv, Next
  PROVE  JobsInv'
<1> USE DEF submitVars, loopVars, stopVars, redisVars
<1>0. TypeOK /\ GoroutineShape /\ StopShape /\ JobsConserved /\ ReturnedResult
      /\ Answered \subseteq Held
  BY DEF Shape, JobsInv, JobsConserved
<1>a. pending.jobs \subseteq Requests /\ flushing.jobs \subseteq Requests
  BY <1>0 DEF TypeOK, IsBatch
<1>b. pc # "received" => InHand = {}
  BY <1>0 DEF GoroutineShape, InHand
<1>c. pc # "apply" => flushing.jobs = {}
  BY <1>0 DEF GoroutineShape, EmptyBatch
<1>d. EmptyBatch.jobs = {}
  BY DEF EmptyBatch
<1>1. ASSUME UNCHANGED <<sub, result, queue, hand, pending, flushing>>
      PROVE  JobsInv'
  BY <1>0, <1>1 DEF JobsInv, JobsConserved, ReturnedResult, Held, Accepted, Queued,
     InHand, Answered
<1>2. ASSUME UNCHANGED <<queue, hand, pending, flushing>>,
             Held' = Held, Answered' = Answered, ReturnedResult'
      PROVE  JobsInv'
  BY <1>0, <1>2 DEF JobsInv, JobsConserved, Queued, InHand
<1>3. ASSUME NEW r \in Requests, SubmitBegin(r) PROVE JobsInv'
  <2>1. PICK o \in {"sending"} \cup Refusals : sub' = [sub EXCEPT ![r] = o]
    BY <1>3 DEF SubmitBegin, Refuse, Refusals
  <2>2. ~Accepted(r) /\ o \notin {"cancelled"} \cup Outcomes
    BY <1>3, <2>1 DEF SubmitBegin, Accepted, Refusals, Outcomes
  <2>3. UNCHANGED <<queue, result, hand, pending, flushing>>
    BY <1>3 DEF SubmitBegin
  <2> QED
    BY <1>0, <1>2, <2>1, <2>2, <2>3, SubmitMovesNothing
<1>4. ASSUME NEW r \in Requests, SubmitSend(r) PROVE JobsInv'
  <2>0. UNCHANGED <<result, hand, pending, flushing>> /\ r \notin Held
    BY <1>4 DEF SubmitSend, Held, Accepted, Outcomes
  <2>1. CASE queue' = queue /\ sub' = [sub EXCEPT ![r] = "queue_full"]
    <3>1. ~Accepted(r) /\ "queue_full" \notin {"cancelled"} \cup Outcomes
      BY <2>0 DEF Held, Outcomes
    <3> QED
      BY <1>0, <1>2, <2>0, <2>1, <3>1, SubmitMovesNothing
  <2>2. CASE queue' = Append(queue, r) /\ sub' = [sub EXCEPT ![r] = "waiting"]
    <3>1. queue \in Seq(Requests) /\ Distinct(queue) /\ r \notin Range(queue)
      BY <1>0, <2>0 DEF TypeOK, JobsConserved, Queued
    <3>2. Queued' = Queued \cup {r} /\ Distinct(queue')
      BY <2>2, <3>1, SendRange DEF Queued
    <3>3. Held' = Held \cup {r}
      BY <1>0, <2>2 DEF Held, Accepted, TypeOK
    <3>4. Answered' = Answered /\ InHand' = InHand
      BY <2>0 DEF Answered, InHand
    <3>5. ReturnedResult'
      BY <1>0, <2>0, <2>2 DEF ReturnedResult, TypeOK, Outcomes
    <3> QED
      BY <1>0, <2>0, <3>2, <3>3, <3>4, <3>5 DEF JobsInv, JobsConserved
  <2> QED
    BY <1>4, <2>1, <2>2 DEF SubmitSend
<1>5. ASSUME NEW r \in Requests, SubmitResult(r) PROVE JobsInv'
  <2>1. UNCHANGED <<queue, result, hand, pending, flushing>>
        /\ sub' = [sub EXCEPT ![r] = result[r]]
    BY <1>5 DEF SubmitResult
  <2>2. Accepted(r) /\ result[r] \in Outcomes
    BY <1>0, <1>5 DEF SubmitResult, Accepted, TypeOK
  <2> QED
    BY <1>0, <1>2, <2>1, <2>2, SubmitMovesNothing
<1>6. ASSUME NEW r \in Requests, SubmitCancel(r) PROVE JobsInv'
  <2>1. UNCHANGED <<queue, result, hand, pending, flushing>>
        /\ sub' = [sub EXCEPT ![r] = "cancelled"]
    BY <1>6 DEF SubmitCancel
  <2>2. Accepted(r) /\ "cancelled" \notin Outcomes
    BY <1>6 DEF SubmitCancel, Accepted, Outcomes
  <2> QED
    BY <1>0, <1>2, <2>1, <2>2, SubmitMovesNothing
<1>7. CASE Receive
  <2>1. queue \in Seq(Requests) /\ queue # <<>> /\ Distinct(queue) /\ pc # "received"
    BY <1>0, <1>7 DEF Receive, TypeOK, JobsConserved
  <2>2. /\ Head(queue) \in Queued
        /\ Queued' = Queued \ {Head(queue)} /\ Distinct(queue')
    BY <1>7, <2>1, ReceiveRange DEF Receive, Queued
  <2>3. InHand = {} /\ InHand' = {Head(queue)}
    BY <1>0, <1>7, <1>b, <2>1, <2>2, NoRequestAssumption
    DEF Receive, InHand, JobsConserved, Held
  <2>4. Held' = Held /\ Answered' = Answered /\ ReturnedResult'
        /\ UNCHANGED <<pending, flushing>>
    BY <1>0, <1>7 DEF Receive, Held, Accepted, Answered, ReturnedResult
  <2> QED
    BY <1>0, <2>2, <2>3, <2>4 DEF JobsInv, JobsConserved
<1>8. CASE Dequeued
  <2>1. hand \in Requests /\ InHand = {hand} /\ InHand' = {} /\ IsBatch(pending)
        /\ flushing.jobs = {}
    BY <1>0, <1>8, <1>c DEF Dequeued, TypeOK, GoroutineShape, InHand
  <2>2. Queued' = Queued /\ Distinct(queue') /\ sub' = sub
    BY <1>0, <1>8 DEF Dequeued, Queued, JobsConserved
  <2>3. CASE resume = "abort"
    <3>1. {hand} \cap Answered = {}
      BY <1>0, <2>1 DEF JobsConserved
    <3>2. Answered' = Answered \cup {hand} /\ Held' = Held /\ ReturnedResult'
      BY <1>0, <1>8, <2>1, <2>2, <2>3, <3>1, AnswerJobs DEF Dequeued, Outcomes
    <3>3. UNCHANGED <<pending, flushing>>
      BY <1>8, <2>3 DEF Dequeued
    <3> QED
      BY <1>0, <2>1, <2>2, <3>2, <3>3 DEF JobsInv, JobsConserved
  <2>4. CASE resume # "abort"
    <3>1. Held' = Held /\ Answered' = Answered /\ ReturnedResult'
      BY <1>0, <1>8, <2>4 DEF Dequeued, Held, Accepted, Answered, ReturnedResult
    <3>2. Absorb(hand)
      BY <1>8, <2>4 DEF Dequeued
    <3>3. /\ Add(pending, hand).jobs = pending.jobs \cup {hand}
          /\ NewPendingBatch(hand).jobs = {hand}
      BY <2>1, AddIsBatch, EmptyIsBatch, <1>d DEF NewPendingBatch
    <3>4. \/ pending'.jobs = pending.jobs \cup {hand} /\ flushing'.jobs = {}
          \/ pending'.jobs = {} /\ flushing'.jobs = pending.jobs \cup {hand}
          \/ pending'.jobs = {hand} /\ flushing'.jobs = pending.jobs
      BY <1>d, <2>1, <3>2, <3>3 DEF Absorb, KeepPending, StartFlush
    <3> QED
      BY <1>0, <2>1, <2>2, <3>1, <3>4 DEF JobsInv, JobsConserved
  <2> QED
    BY <2>3, <2>4
<1>9. ASSUME UNCHANGED <<sub, result, queue, hand>>, pc # "apply",
             pending' = EmptyBatch, flushing' = pending
      PROVE  JobsInv'
  <2>1. Held' = Held /\ Answered' = Answered /\ ReturnedResult' /\ Queued' = Queued
        /\ InHand' = InHand /\ Distinct(queue')
    BY <1>0, <1>9 DEF Held, Accepted, Answered, ReturnedResult, Queued, InHand,
       JobsConserved
  <2> QED
    BY <1>0, <1>9, <1>c, <1>d, <2>1 DEF JobsInv, JobsConserved
<1>10. CASE EnterAbort
  <2>1. Answered' = Answered \cup pending.jobs /\ Held' = Held /\ ReturnedResult'
    <3>1. pending.jobs \cap Answered = {}
      BY <1>0 DEF JobsConserved
    <3> QED
      BY <1>0, <1>10, <1>a, <3>1, AnswerJobs DEF EnterAbort, Outcomes
  <2>2. Queued' = Queued /\ InHand' = InHand /\ Distinct(queue')
        /\ pending'.jobs = {} /\ flushing' = flushing
    BY <1>0, <1>10, <1>d DEF EnterAbort, Queued, InHand, JobsConserved
  <2> QED
    BY <1>0, <2>1, <2>2 DEF JobsInv, JobsConserved
<1>11. CASE DrainEmpty
  <2>1. CASE pending = EmptyBatch
    BY <1>1, <1>11, <2>1 DEF DrainEmpty
  <2>2. CASE pending # EmptyBatch
    BY <1>9, <1>11, <2>2 DEF DrainEmpty, StartFlush
  <2> QED
    BY <2>1, <2>2
<1>12. ASSUME NEW outcome \in Outcomes, pc = "apply", FlushReturns(outcome)
       PROVE  JobsInv'
  <2>1. Answered' = Answered \cup flushing.jobs /\ Held' = Held /\ ReturnedResult'
    <3>1. flushing.jobs \cap Answered = {}
      BY <1>0 DEF JobsConserved
    <3> QED
      BY <1>0, <1>12, <1>a, <3>1, AnswerJobs DEF FlushReturns
  <2>2. Queued' = Queued /\ InHand' = InHand /\ Distinct(queue')
    BY <1>0, <1>12 DEF FlushReturns, Queued, InHand, JobsConserved
  <2>3. \/ pending'.jobs = {} /\ flushing' = pending
        \/ pending' = pending /\ flushing'.jobs = {}
    BY <1>12, <1>d DEF FlushReturns, StartFlush
  <2> QED
    BY <1>0, <2>1, <2>2, <2>3 DEF JobsInv, JobsConserved
<1>13. CASE TimerFires
  BY <1>9, <1>13 DEF TimerFires, StartFlush
<1>14. CASE Start \/ EnterDrain \/ AbortEmpty \/ Stop \/ Finished
  BY <1>1, <1>14 DEF Start, EnterDrain, AbortEmpty, Stop, StopBegin, StopDone,
     StopDeadline, StopJoined, Finished, vars
<1>15. ASSUME NEW b \in wire, RedisExecute(b) PROVE JobsInv'
  BY <1>1, <1>15 DEF RedisExecute
<1> QED
  BY <1>3, <1>4, <1>5, <1>6, <1>7, <1>8, <1>10, <1>11, <1>12, <1>13, <1>14, <1>15
  DEF Next, Submit, RunStep, FlushOk, FlushFailed, Outcomes

(* Jobs are conserved in every state, and Submit returns the result that    *)
(* was sent on its channel.                                                 *)
LEMMA JobsInvariant == Spec => []JobsInv
<1>1. ASSUME Shape, JobsInv, [Next]_vars PROVE JobsInv'
  <2>1. CASE UNCHANGED vars
    BY <1>1, <2>1 DEF JobsInv, JobsConserved, ReturnedResult, Held, Accepted, Queued,
       InHand, Answered, vars, submitVars, loopVars
  <2> QED
    BY <1>1, <2>1, JobsStep
<1> QED
  BY <1>1, JobsInit, ShapeInvariant, PTL DEF Spec

(* Submit, run, drain, abort and flush hand every job over: none is lost,   *)
(* held twice or answered twice.                                            *)
THEOREM NoJobLost == Spec => []JobsConserved
  BY JobsInvariant, PTL DEF JobsInv

(* When run has returned, every accepted job has its answer and the channel *)
(* is empty for good.                                                       *)
THEOREM NoJobAbandoned == Spec => []NothingAbandoned
<1>1. ASSUME Shape, JobsInv PROVE NothingAbandoned
  <2> SUFFICES ASSUME pc = "exited" PROVE NothingAbandoned
    BY DEF NothingAbandoned
  <2>1. queue = <<>> /\ pending.jobs = {} /\ flushing.jobs = {} /\ InHand = {}
    BY <1>1 DEF Shape, GoroutineShape, EmptyBatch, InHand
  <2>2. Queued = {}
    BY <2>1 DEF Queued, Range
  <2>3. Held = Answered
    BY <1>1, <2>1, <2>2 DEF JobsInv, JobsConserved
  <2>4. MutexFree
    BY <1>1 DEF Shape, StopShape
  <2> QED
    BY <2>1, <2>3, <2>4 DEF NothingAbandoned, Held, Answered, MutexFree
<1> QED
  BY <1>1, ShapeInvariant, JobsInvariant, PTL

-----------------------------------------------------------------------------
(* Layer 3: what Redis has counted.  A batch on the wire is the one being   *)
(* flushed or one whose callers were already told it failed; either way     *)
(* nothing in it has been counted, and it shares no job with another.       *)

Sent == flushing.jobs \cup Answered

CountInv ==
  /\ \A r \in Requests : counted[r] \in {0, 1} /\ (r \notin Sent => counted[r] = 0)
  /\ \A r \in Requests : result[r] = "ok" => counted[r] = 1
  /\ replied => \A r \in flushing.jobs : counted[r] = 1
  /\ \A b \in wire :
       /\ b.jobs \subseteq Sent
       /\ b = flushing \/ b.jobs \cap flushing.jobs = {}
       /\ \A r \in b.jobs : counted[r] = 0
  /\ \A b1, b2 \in wire : b1 # b2 => b1.jobs \cap b2.jobs = {}

(* Nothing has been sent to Redis or counted before Start.                  *)
LEMMA CountInit == Init => CountInv
  BY DEF Init, CountInv, EmptyBatch

(* A step that sends nothing and counts nothing. *)
LEMMA QuietStep ==
  ASSUME TypeOK, CountInv, UNCHANGED <<wire, counted, flushing, replied>>,
         Answered \subseteq Answered',
         \A r \in Requests : result'[r] = "ok" => result[r] = "ok"
  PROVE  CountInv'
<1>1. Sent \subseteq Sent'
  BY DEF Sent
<1> QED
  BY <1>1 DEF CountInv

(* A step that puts a batch of jobs not sent before on the wire. *)
LEMMA SendBatch ==
  ASSUME TypeOK, CountInv, NEW batch, NEW next, StartFlush(batch, next),
         counted' = counted, Sent \subseteq Answered',
         batch.jobs \subseteq Requests, batch.jobs \cap Answered' = {},
         \A r \in Requests : result'[r] = "ok" => counted[r] = 1
  PROVE  CountInv'
<1>1. flushing' = batch /\ wire' = wire \cup {batch} /\ ~replied'
  BY DEF StartFlush
<1>2. Sent \subseteq Sent' /\ batch.jobs \subseteq Sent'
  BY <1>1 DEF Sent
<1>3. \A r \in batch.jobs : counted[r] = 0
  BY DEF CountInv
<1>4. \A b \in wire : b.jobs \subseteq Answered' /\ b.jobs \cap batch.jobs = {}
  BY DEF CountInv
<1> QED
  BY <1>1, <1>2, <1>3, <1>4 DEF CountInv

(* Flushes, timeouts and executions in any order: a batch on the wire is    *)
(* uncounted and shares no job with another.                                *)
LEMMA CountStep ==
  ASSUME Shape, JobsInv, CountInv, JobsInv', Next
  PROVE  CountInv'
<1> USE DEF submitVars, loopVars, stopVars, redisVars
<1>0. TypeOK /\ GoroutineShape /\ JobsConserved /\ ReturnedResult /\ CountInv
      /\ JobsConserved'
  BY DEF Shape, JobsInv
<1>a. pending.jobs \subseteq Requests /\ flushing.jobs \subseteq Requests
  BY <1>0 DEF TypeOK, IsBatch
<1>1. ASSUME UNCHANGED <<wire, counted, flushing, replied, result>>
      PROVE  CountInv'
  <2>1. Answered' = Answered
    BY <1>1 DEF Answered
  <2> QED
    BY <1>0, <1>1, <2>1, QuietStep
<1>2. ASSUME NEW jobs, UNCHANGED <<wire, counted, flushing, replied>>,
             result' = Resolved(jobs, "stopped")
      PROVE  CountInv'
  <2>1. \A r \in Requests : result'[r] = "stopped" \/ result'[r] = result[r]
    BY <1>2 DEF Resolved
  <2>2. Answered \subseteq Answered'
    BY <2>1 DEF Answered
  <2> QED
    BY <1>0, <1>2, <2>1, <2>2, QuietStep
<1>3. ASSUME NEW batch, NEW next, StartFlush(batch, next), pc # "apply",
             counted' = counted, result' = result, batch.jobs \subseteq Requests
      PROVE  CountInv'
  <2>1. flushing.jobs = {} /\ Answered' = Answered
    BY <1>0, <1>3 DEF GoroutineShape, EmptyBatch, Answered
  <2>2. batch.jobs \cap Answered' = {}
    BY <1>0, <1>3 DEF StartFlush, JobsConserved
  <2>3. \A r \in Requests : result'[r] = "ok" => counted[r] = 1
    BY <1>0, <1>3 DEF CountInv
  <2> QED
    BY <1>0, <1>3, <2>1, <2>2, <2>3, SendBatch DEF Sent
<1>4. ASSUME NEW r \in Requests, Submit(r) PROVE CountInv'
  BY <1>1, <1>4 DEF Submit, SubmitBegin, SubmitSend, SubmitResult, SubmitCancel
<1>5. CASE Start \/ Receive \/ EnterDrain \/ AbortEmpty \/ Stop \/ Finished
  BY <1>1, <1>5 DEF Start, Receive, EnterDrain, AbortEmpty, Stop, StopBegin, StopDone,
     StopDeadline, StopJoined, Finished, vars
<1>6. CASE Dequeued
  <2>1. hand \in Requests /\ IsBatch(pending)
    BY <1>0, <1>6 DEF Dequeued, TypeOK, GoroutineShape
  <2>2. CASE resume = "abort"
    BY <1>2, <1>6, <2>2 DEF Dequeued
  <2>3. CASE resume # "abort"
    <3>1. Absorb(hand) /\ UNCHANGED <<result, counted>> /\ pc # "apply"
      BY <1>6, <2>3 DEF Dequeued
    <3>2. Add(pending, hand).jobs \subseteq Requests
      BY <2>1, AddIsBatch DEF IsBatch
    <3>3. \/ \E b : KeepPending(b)
          \/ StartFlush(Add(pending, hand), resume)
          \/ StartFlush(pending, resume)
      BY <3>1 DEF Absorb
    <3> QED
      BY <1>1, <1>3, <1>a, <3>1, <3>2, <3>3 DEF KeepPending
  <2> QED
    BY <2>2, <2>3
<1>7. CASE TimerFires
  BY <1>3, <1>7, <1>a DEF TimerFires
<1>8. CASE EnterAbort
  BY <1>2, <1>8 DEF EnterAbort
<1>9. CASE DrainEmpty
  <2>1. CASE pending = EmptyBatch
    BY <1>1, <1>9, <2>1, <1>0 DEF DrainEmpty
  <2>2. CASE pending # EmptyBatch
    BY <1>3, <1>9, <1>a, <2>2 DEF DrainEmpty
  <2> QED
    BY <2>1, <2>2
<1>10. ASSUME NEW outcome \in Outcomes, FlushReturns(outcome),
              outcome = "ok" => replied
       PROVE  CountInv'
  <2>1. \A r \in Requests :
          result'[r] = IF r \in flushing.jobs THEN outcome ELSE result[r]
    BY <1>10 DEF FlushReturns, Resolved
  <2>2. \A r \in Requests : result'[r] = "ok" => counted[r] = 1
    BY <1>0, <1>10, <2>1 DEF CountInv
  <2>3. Sent \subseteq Answered' /\ counted' = counted
    BY <1>10, <1>a, <2>1 DEF Sent, Answered, FlushReturns, Outcomes
  <2>4. CASE StartFlush(pending, resume)
    <3>1. pending.jobs \cap Answered' = {}
      BY <1>0, <2>4 DEF StartFlush, JobsConserved
    <3> QED
      BY <1>0, <1>a, <2>2, <2>3, <2>4, <3>1, SendBatch
  <2>5. CASE flushing' = EmptyBatch /\ ~replied' /\ wire' = wire
    <3>1. flushing'.jobs = {} /\ Sent \subseteq Sent'
      BY <2>3, <2>5 DEF EmptyBatch, Sent
    <3> QED
      BY <1>0, <2>2, <2>3, <2>5, <3>1 DEF CountInv
  <2> QED
    BY <1>10, <2>4, <2>5 DEF FlushReturns
<1>11. ASSUME NEW b \in wire, RedisExecute(b) PROVE CountInv'
  <2>1. /\ \A r \in Requests : counted'[r] = counted[r] + (IF r \in b.jobs THEN 1 ELSE 0)
        /\ wire' = wire \ {b} /\ replied' = (replied \/ b = flushing)
        /\ UNCHANGED <<flushing, result>>
    BY <1>11 DEF RedisExecute
  <2>2. /\ b.jobs \subseteq Sent /\ b.jobs \subseteq Requests
        /\ \A r \in b.jobs : counted[r] = 0
    BY <1>0 DEF CountInv, TypeOK, IsBatch
  <2>3. Sent' = Sent
    BY <2>1 DEF Sent, Answered
  <2>4. \A r \in Requests : counted'[r] \in {0, 1} /\ (r \notin Sent' => counted'[r] = 0)
    BY <1>0, <2>1, <2>2, <2>3 DEF CountInv
  <2>5. \A r \in Requests : result'[r] = "ok" => counted'[r] = 1
    BY <1>0, <2>1, <2>2 DEF CountInv
  <2>6. replied' => \A r \in flushing'.jobs : counted'[r] = 1
    <3>1. CASE b = flushing
      BY <1>a, <2>1, <2>2, <3>1
    <3>2. CASE b # flushing
      <4>1. b.jobs \cap flushing.jobs = {}
        BY <1>0, <3>2 DEF CountInv
      <4>2. replied' => \A r \in flushing.jobs : counted[r] = 1
        BY <1>0, <2>1, <3>2 DEF CountInv
      <4> QED
        BY <1>a, <2>1, <4>1, <4>2
    <3> QED
      BY <3>1, <3>2
  <2>7. \A c \in wire' :
          /\ c.jobs \subseteq Sent'
          /\ c = flushing' \/ c.jobs \cap flushing'.jobs = {}
          /\ \A r \in c.jobs : counted'[r] = 0
    <3> SUFFICES ASSUME NEW c \in wire, c # b
                 PROVE  /\ c.jobs \subseteq Sent
                        /\ c = flushing \/ c.jobs \cap flushing.jobs = {}
                        /\ \A r \in c.jobs : counted'[r] = 0
      BY <2>1, <2>3
    <3>1. c.jobs \cap b.jobs = {} /\ c.jobs \subseteq Requests
      BY <1>0 DEF CountInv, TypeOK, IsBatch
    <3>2. \A r \in c.jobs : counted'[r] = 0
      BY <1>0, <2>1, <3>1 DEF CountInv
    <3> QED
      BY <1>0, <3>2 DEF CountInv
  <2>8. \A b1, b2 \in wire' : b1 # b2 => b1.jobs \cap b2.jobs = {}
    BY <1>0, <2>1 DEF CountInv
  <2> QED
    BY <2>4, <2>5, <2>6, <2>7, <2>8 DEF CountInv
<1> QED
  BY <1>4, <1>5, <1>6, <1>7, <1>8, <1>9, <1>10, <1>11
  DEF Next, RunStep, FlushOk, FlushFailed, Outcomes

(* The wire and the counts agree in every state.                            *)
LEMMA CountInvariant == Spec => []CountInv
<1>1. ASSUME Shape, JobsInv, JobsInv', CountInv, [Next]_vars PROVE CountInv'
  <2>1. CASE UNCHANGED vars
    BY <1>1, <2>1 DEF CountInv, Sent, Answered, vars, submitVars, loopVars, redisVars
  <2> QED
    BY <1>1, <2>1, CountStep
<1> QED
  BY <1>1, CountInit, ShapeInvariant, JobsInvariant, PTL DEF Spec

(* A Submit that returned nil was executed by Redis: success never follows  *)
(* a timeout, a cancellation or a lost reply.                               *)
THEOREM AckImpliesCounted == Spec => []AckedOnlyIfCounted
<1>1. ASSUME JobsInv, CountInv PROVE AckedOnlyIfCounted
  BY <1>1 DEF JobsInv, ReturnedResult, CountInv, AckedOnlyIfCounted, Outcomes
<1> QED
  BY <1>1, JobsInvariant, CountInvariant, PTL

(* Redis executes one Submit at most once, and a refused one never.         *)
THEOREM CountedOnce == Spec => []CountedAtMostOnce
<1>1. ASSUME JobsInv, CountInv PROVE CountedAtMostOnce
  <2>1. Sent \subseteq Held
    BY <1>1 DEF JobsInv, JobsConserved, Sent
  <2> QED
    BY <1>1, <2>1 DEF CountInv, CountedAtMostOnce, Held
<1> QED
  BY <1>1, JobsInvariant, CountInvariant, PTL

-----------------------------------------------------------------------------
(* Layer 4: jobs are thrown away only past the drain deadline. *)

(* Only abort answers ErrBatcherStopped, and run aborts only when its        *)
(* context was cancelled before it had returned: past Stop's own deadline.   *)
THEOREM CleanStop == Spec => []DiscardOnlyAfterDeadline
<1>1. Init => DiscardOnlyAfterDeadline
  BY DEF Init, DiscardOnlyAfterDeadline
<1>2. ASSUME Shape, DiscardOnlyAfterDeadline, [Next]_vars
      PROVE  DiscardOnlyAfterDeadline'
  <2> USE DEF submitVars, loopVars, stopVars, redisVars
  <2>0. TypeOK /\ GoroutineShape /\ StopShape
    BY <1>2 DEF Shape
  <2>1. ASSUME \A r \in Requests : result'[r] = "stopped" => result[r] = "stopped",
               stopper' = stopper
        PROVE  DiscardOnlyAfterDeadline'
    BY <1>2, <2>1 DEF DiscardOnlyAfterDeadline
  <2>2. ASSUME runCancelled, pc # "exited", stopper' = stopper
        PROVE  DiscardOnlyAfterDeadline'
    BY <2>0, <2>2 DEF StopShape, DiscardOnlyAfterDeadline
  <2>3. CASE Stop
    BY <1>2, <2>3 DEF Stop, StopBegin, StopDone, StopDeadline, StopJoined,
       DiscardOnlyAfterDeadline
  <2>4. CASE EnterAbort
    BY <2>2, <2>4 DEF EnterAbort
  <2>5. CASE Dequeued
    <3>1. CASE resume = "abort"
      BY <2>0, <2>2, <2>5, <3>1 DEF Dequeued, StopShape
    <3>2. CASE resume # "abort"
      BY <2>1, <2>5, <3>2 DEF Dequeued
    <3> QED
      BY <3>1, <3>2
  <2>6. ASSUME NEW outcome \in {"ok", "failed"}, FlushReturns(outcome)
        PROVE  DiscardOnlyAfterDeadline'
    BY <2>1, <2>6 DEF FlushReturns, Resolved
  <2>7. ASSUME NEW r \in Requests, Submit(r) PROVE DiscardOnlyAfterDeadline'
    BY <2>1, <2>7 DEF Submit, SubmitBegin, SubmitSend, SubmitResult, SubmitCancel
  <2>8. CASE Start \/ Receive \/ TimerFires \/ EnterDrain \/ DrainEmpty \/ AbortEmpty
    BY <2>1, <2>8 DEF Start, Receive, TimerFires, EnterDrain, DrainEmpty, AbortEmpty
  <2>9. ASSUME NEW b \in wire, RedisExecute(b) PROVE DiscardOnlyAfterDeadline'
    BY <2>1, <2>9 DEF RedisExecute
  <2>10. CASE Finished \/ UNCHANGED vars
    BY <2>1, <2>10 DEF Finished, vars
  <2> QED
    BY <1>2, <2>3, <2>4, <2>5, <2>6, <2>7, <2>8, <2>9, <2>10
    DEF Next, RunStep, FlushOk, FlushFailed
<1> QED
  BY <1>1, <1>2, ShapeInvariant, PTL DEF Spec

(* A Stop that has returned leaves no goroutine behind that could send a     *)
(* batch: the caller may close the Redis client.                             *)
THEOREM QuietAfterStop == Spec => NoFlushAfterStop
<1>1. ASSUME Shape, [Next]_vars, stopper = "returned" \/ stopper = "late"
      PROVE  pc' = pc /\ wire' \subseteq wire
  <2> USE DEF submitVars, loopVars, stopVars, redisVars
  <2>1. pc = "exited"
    BY <1>1 DEF Shape, StopShape
  <2>2. ASSUME NEW r \in Requests, Submit(r) PROVE pc' = pc /\ wire' \subseteq wire
    BY <2>2 DEF Submit, SubmitBegin, SubmitSend, SubmitResult, SubmitCancel
  <2>3. ~RunStep
    BY <2>1 DEF RunStep, Receive, Dequeued, TimerFires, EnterDrain, EnterAbort,
       DrainEmpty, AbortEmpty, FlushOk, FlushFailed
  <2>4. ASSUME NEW b \in wire, RedisExecute(b) PROVE pc' = pc /\ wire' \subseteq wire
    BY <2>4 DEF RedisExecute
  <2>5. CASE Stop
    BY <2>5 DEF Stop, StopBegin, StopDone, StopDeadline, StopJoined
  <2>6. CASE Start
    BY <2>1, <2>6 DEF Start
  <2>7. CASE Finished \/ UNCHANGED vars
    BY <2>7 DEF Finished, vars
  <2> QED
    BY <1>1, <2>2, <2>3, <2>4, <2>5, <2>6, <2>7 DEF Next
<1>2. Shape /\ [Next]_vars
        => [(stopper = "returned" \/ stopper = "late")
              => pc' = pc /\ wire' \subseteq wire]_vars
  BY <1>1
<1> QED
  BY <1>2, ShapeInvariant, PTL DEF Spec, NoFlushAfterStop

-----------------------------------------------------------------------------
(* Layer 5: the batch limits. *)

FitsLimits(b) == b.events <= MaxEvents /\ Cardinality(DOMAIN b.increments) <= MaxKeys

LimitInv ==
  /\ BatchWithinLimits
  /\ \A r \in Requests : sub[r] \in {"idle"} \cup Refusals \/ ~TooLarge(r)

(* The nil batch is within the limits.                                      *)
LEMMA EmptyFits == FitsLimits(EmptyBatch)
<1>1. DOMAIN EmptyBatch.increments = {} /\ EmptyBatch.events = 0
  BY DEF EmptyBatch
<1> QED
  BY <1>1, FS_EmptySet, LimitAssumption DEF FitsLimits

(* newPendingBatch of a request that passed validateRequest. *)
LEMMA NewFits ==
  ASSUME NEW r \in Requests, ~TooLarge(r)
  PROVE  FitsLimits(NewPendingBatch(r))
<1>1. /\ NewPendingBatch(r).events = 0 + Request[r].events
      /\ DOMAIN NewPendingBatch(r).increments
           = DOMAIN EmptyBatch.increments \cup DOMAIN Request[r].increments
  BY AddIsBatch, EmptyIsBatch DEF NewPendingBatch, EmptyBatch
<1>2. DOMAIN EmptyBatch.increments = {}
  BY DEF EmptyBatch
<1>3. DOMAIN NewPendingBatch(r).increments = DOMAIN Request[r].increments
  BY <1>1, <1>2
<1>4. Request[r].events \in Nat /\ DOMAIN Request[r].increments \subseteq Keys
  BY RequestAssumption DEF IsIncrements
<1>5. Cardinality(DOMAIN Request[r].increments) \in Nat
  BY <1>4, KeysAssumption, FS_Subset, FS_CardinalityType
<1>6. NewPendingBatch(r).events <= MaxEvents
  BY <1>1, <1>4, LimitAssumption DEF TooLarge
<1> QED
  BY <1>3, <1>5, <1>6, LimitAssumption DEF TooLarge, FitsLimits

(* add after canAdd. *)
LEMMA AddFits ==
  ASSUME NEW b, IsBatch(b), NEW r \in Requests, CanAdd(b, r)
  PROVE  FitsLimits(Add(b, r))
  BY AddIsBatch DEF CanAdd, FitsLimits

(* No batch exists before Start.                                            *)
LEMMA LimitInit == Init => LimitInv
  BY EmptyFits DEF Init, LimitInv, BatchWithinLimits, FitsLimits

(* canAdd and validateRequest keep every batch within both limits.          *)
LEMMA LimitStep ==
  ASSUME Shape, JobsInv, LimitInv, Next
  PROVE  LimitInv'
<1> USE DEF submitVars, loopVars, stopVars, redisVars
<1>0. TypeOK /\ GoroutineShape /\ JobsConserved /\ LimitInv
  BY DEF Shape, JobsInv
<1>a. \A b \in wire \cup {pending, flushing} : FitsLimits(b)
  BY DEF LimitInv, BatchWithinLimits, FitsLimits
<1>1. ASSUME sub' = sub,
             \A b \in (wire \cup {pending, flushing})' : FitsLimits(b)
      PROVE  LimitInv'
  BY <1>0, <1>1 DEF LimitInv, BatchWithinLimits, FitsLimits, TooLarge
<1>2. ASSUME sub' = sub, wire' \subseteq wire, pending' \in {pending, EmptyBatch},
             flushing' \in {flushing, EmptyBatch}
      PROVE  LimitInv'
  BY <1>1, <1>2, <1>a, EmptyFits
<1>3. ASSUME NEW next, StartFlush(pending, next), sub' = sub, pending' = EmptyBatch
      PROVE  LimitInv'
  BY <1>1, <1>3, <1>a, EmptyFits DEF StartFlush
<1>4. ASSUME NEW r \in Requests, Submit(r) PROVE LimitInv'
  <2>1. UNCHANGED <<wire, pending, flushing>>
    BY <1>4 DEF Submit, SubmitBegin, SubmitSend, SubmitResult, SubmitCancel
  <2>2. \A q \in Requests :
          sub'[q] \in {"idle"} \cup Refusals \/ sub[q] \notin {"idle"} \cup Refusals
            \/ ~TooLarge(q)
    BY <1>0, <1>4 DEF Submit, SubmitBegin, SubmitSend, SubmitResult, SubmitCancel,
       Refuse, TypeOK, Refusals
  <2> QED
    BY <1>0, <2>1, <2>2 DEF LimitInv, BatchWithinLimits, TooLarge
<1>5. CASE Start \/ Receive \/ EnterDrain \/ EnterAbort \/ AbortEmpty \/ Stop \/ Finished
  BY <1>2, <1>5 DEF Start, Receive, EnterDrain, EnterAbort, AbortEmpty, Stop, StopBegin,
     StopDone, StopDeadline, StopJoined, Finished, vars
<1>6. CASE Dequeued
  <2>1. hand \in Requests /\ IsBatch(pending) /\ hand \in InHand
    BY <1>0, <1>6 DEF Dequeued, TypeOK, GoroutineShape, InHand
  <2>2. ~TooLarge(hand)
    <3>1. Accepted(hand)
      BY <1>0, <2>1 DEF JobsConserved, Held
    <3> QED
      BY <1>0, <2>1, <3>1 DEF LimitInv, Accepted, Outcomes, Refusals
  <2>3. FitsLimits(NewPendingBatch(hand))
    BY <2>1, <2>2, NewFits
  <2>4. pending = EmptyBatch \/ CanAdd(pending, hand) => FitsLimits(Add(pending, hand))
    BY <2>1, <2>3, AddFits DEF NewPendingBatch
  <2>5. sub' = sub
    BY <1>6 DEF Dequeued
  <2>6. CASE resume = "abort"
    BY <1>2, <1>6, <2>6 DEF Dequeued
  <2>7. CASE resume # "abort"
    <3>1. Absorb(hand)
      BY <1>6, <2>7 DEF Dequeued
    <3>2. \A b \in (wire \cup {pending, flushing})' : FitsLimits(b)
      BY <1>a, <2>3, <2>4, <3>1, EmptyFits DEF Absorb, KeepPending, StartFlush
    <3> QED
      BY <1>1, <2>5, <3>2
  <2> QED
    BY <2>6, <2>7
<1>7. CASE TimerFires
  BY <1>3, <1>7 DEF TimerFires
<1>8. CASE DrainEmpty
  <2>1. CASE pending = EmptyBatch
    BY <1>2, <1>8, <2>1 DEF DrainEmpty
  <2>2. CASE pending # EmptyBatch
    BY <1>3, <1>8, <2>2 DEF DrainEmpty
  <2> QED
    BY <2>1, <2>2
<1>9. ASSUME NEW outcome, FlushReturns(outcome) PROVE LimitInv'
  <2>1. sub' = sub
    BY <1>9 DEF FlushReturns
  <2>2. CASE StartFlush(pending, resume) /\ pending' = EmptyBatch
    BY <1>3, <2>1, <2>2
  <2>3. CASE flushing' = EmptyBatch /\ UNCHANGED <<pending, wire>>
    BY <1>2, <2>1, <2>3
  <2> QED
    BY <1>9, <2>2, <2>3 DEF FlushReturns
<1>10. ASSUME NEW b \in wire, RedisExecute(b) PROVE LimitInv'
  BY <1>2, <1>10 DEF RedisExecute
<1> QED
  BY <1>4, <1>5, <1>6, <1>7, <1>8, <1>9, <1>10 DEF Next, RunStep, FlushOk, FlushFailed

(* No batch exceeds BATCH_MAX_EVENTS or BATCH_MAX_KEYS. *)
THEOREM LimitsHold == Spec => []BatchWithinLimits
<1>1. ASSUME Shape, JobsInv, LimitInv, [Next]_vars PROVE LimitInv'
  <2>1. CASE UNCHANGED vars
    BY <1>1, <2>1 DEF LimitInv, BatchWithinLimits, TooLarge, vars, submitVars, loopVars,
       redisVars
  <2> QED
    BY <1>1, <2>1, LimitStep
<1>2. LimitInv => BatchWithinLimits
  BY DEF LimitInv
<1> QED
  BY <1>1, <1>2, LimitInit, ShapeInvariant, JobsInvariant, PTL DEF Spec

-----------------------------------------------------------------------------
(* Layer 6: what the counters contain.  The increments of a batch are those  *)
(* of its requests, so an execution adds to every counter what its requests   *)
(* add.  Sums need finitely many requests.                                   *)

(* What a request, and a batch, adds to the counter k *)
Part(r, k) ==
  IF k \in DOMAIN Request[r].increments THEN Request[r].increments[k] ELSE 0
BatchPart(b, k) == IF k \in DOMAIN b.increments THEN b.increments[k] ELSE 0

Parts(k) == [r \in Requests |-> Part(r, k)]

Merged(b) == \A k \in Keys : BatchPart(b, k) = SumFunctionOnSet(Parts(k), b.jobs)

MergeInv == CountersExact /\ \A b \in wire \cup {pending, flushing} : Merged(b)

(* The parts are natural numbers. *)
LEMMA PartType ==
  ASSUME NEW k \in Keys, NEW r \in Requests
  PROVE  Part(r, k) \in Nat /\ Parts(k)[r] = Part(r, k)
<1>1. IsIncrements(Request[r].increments)
  BY RequestAssumption
<1> QED
  BY <1>1 DEF Part, Parts, IsIncrements

(* The nil batch adds nothing. *)
LEMMA EmptyMerged == Merged(EmptyBatch)
<1>1. \A k \in Keys : SumFunctionOnSet(Parts(k), {}) = 0
  BY SumEmpty
<1> QED
  BY <1>1 DEF Merged, EmptyBatch, BatchPart

(* add merges the increments of one more job into those of the batch. *)
LEMMA AddMerged ==
  ASSUME IsFiniteSet(Requests), NEW b, IsBatch(b), Merged(b),
         NEW r \in Requests, r \notin b.jobs
  PROVE  Merged(Add(b, r))
<1> SUFFICES ASSUME NEW k \in Keys
             PROVE  BatchPart(Add(b, r), k) = SumFunctionOnSet(Parts(k), b.jobs \cup {r})
  BY AddIsBatch DEF Merged
<1>1. b.jobs \subseteq Requests /\ IsFiniteSet(b.jobs) /\ IsFiniteSet(b.jobs \cup {r})
  BY FS_Subset DEF IsBatch
<1>2. \A q \in b.jobs \cup {r} : Parts(k)[q] \in Nat
  BY <1>1, PartType
<1>3. (b.jobs \cup {r}) \ {r} = b.jobs
  OBVIOUS
<1>4. SumFunctionOnSet(Parts(k), b.jobs \cup {r})
        = Parts(k)[r] + SumFunctionOnSet(Parts(k), b.jobs)
  BY <1>1, <1>2, <1>3, SumRemove
<1>5. BatchPart(Add(b, r), k) = BatchPart(b, k) + Part(r, k)
  <2>1. Add(b, r).increments = Merge(b.increments, Request[r].increments)
    BY DEF Add
  <2>2. /\ IsIncrements(b.increments) /\ IsIncrements(Request[r].increments)
    BY RequestAssumption DEF IsBatch
  <2>3. BatchPart(b, k) \in Nat /\ Part(r, k) \in Nat
    BY <2>2, PartType DEF BatchPart, IsIncrements
  <2> QED
    BY <2>1, <2>3 DEF BatchPart, Part, Merge
<1>6. BatchPart(b, k) = SumFunctionOnSet(Parts(k), b.jobs)
  BY DEF Merged
<1>7. SumFunctionOnSet(Parts(k), b.jobs) \in Nat
  BY <1>1, <1>2, SumType
<1> QED
  BY <1>4, <1>5, <1>6, <1>7, PartType

(* The requests with key k, and what they have added to its counter *)
Users(k) == {q \in Requests : k \in DOMAIN Request[q].increments}
Added(k) == [r \in Users(k) |-> counted[r] * Request[r].increments[k]]

(* One more execution of a request adds its part once. *)
LEMMA OncePerExecution ==
  ASSUME NEW n \in Nat, NEW d \in Nat
  PROVE  (n + 1) * d = n * d + d /\ n * d \in Nat
  OBVIOUS

(* One execution of the script adds to each counter what the requests of the *)
(* batch add.                                                               *)
LEMMA ExecuteExact ==
  ASSUME IsFiniteSet(Requests), TypeOK, CountersExact, NEW b \in wire, Merged(b),
         RedisExecute(b)
  PROVE  CountersExact'
<1> SUFFICES ASSUME NEW k \in Keys
             PROVE  counters'[k] = SumFunctionOnSet(Added(k)', Users(k))
  BY DEF CountersExact, SumFunction, Added, Users
<1> DEFINE f == Added(k)
           h == Added(k)'
           g == [r \in Requests |-> IF r \in b.jobs THEN Part(r, k) ELSE 0]
<1>1. counters[k] = SumFunctionOnSet(f, Users(k))
  BY DEF CountersExact, SumFunction, Added, Users
<1>2. counters'[k] = counters[k] + BatchPart(b, k)
  BY DEF RedisExecute, BatchPart
<1>3. b.jobs \subseteq Requests
  BY DEF TypeOK, IsBatch
<1>4. IsFiniteSet(Users(k)) /\ IsFiniteSet(b.jobs) /\ IsFiniteSet(b.jobs \cap Users(k))
      /\ Users(k) \subseteq Requests
  BY <1>3, FS_Subset DEF Users
<1>5. ASSUME NEW r \in Users(k)
      PROVE  f[r] \in Nat /\ g[r] \in Nat /\ h[r] = f[r] + g[r]
  <2>1. /\ counted[r] \in Nat
        /\ counted'[r] = counted[r] + (IF r \in b.jobs THEN 1 ELSE 0)
    BY <1>4 DEF TypeOK, RedisExecute
  <2>2. f[r] = counted[r] * Part(r, k) /\ h[r] = counted'[r] * Part(r, k)
    BY DEF Added, Part, Users
  <2>3. Part(r, k) \in Nat /\ r \in Requests
    BY <1>4, PartType
  <2>4. g[r] = IF r \in b.jobs THEN Part(r, k) ELSE 0
    BY <2>3
  <2> HIDE DEF f, g, h
  <2>5. CASE r \in b.jobs
    BY <2>1, <2>2, <2>3, <2>4, <2>5, OncePerExecution
  <2>6. CASE r \notin b.jobs
    BY <2>1, <2>2, <2>3, <2>4, <2>6, OncePerExecution
  <2> QED
    BY <2>5, <2>6
<1>6. SumFunctionOnSet(g, Users(k)) = BatchPart(b, k)
  <2>1. \A r \in Requests : g[r] \in Nat /\ (r \notin b.jobs => g[r] = 0)
    BY PartType
  <2>2. \A r \in b.jobs : g[r] = Parts(k)[r]
    BY <1>3, PartType
  <2>3. \A r \in Requests \ Users(k) : g[r] = 0
    BY DEF Part, Users
  <2> HIDE DEF g
  <2>4. SumFunctionOnSet(g, Users(k)) = SumFunctionOnSet(g, b.jobs \cap Users(k))
    BY <1>4, <2>1, SumSupport
  <2>5. SumFunctionOnSet(g, b.jobs) = SumFunctionOnSet(g, b.jobs \cap Users(k))
    BY <1>3, <1>4, <2>1, <2>3, SumSupport
  <2>6. SumFunctionOnSet(g, b.jobs) = SumFunctionOnSet(Parts(k), b.jobs)
    BY <1>4, <2>2, SumCongruent
  <2> QED
    BY <2>4, <2>5, <2>6 DEF Merged
<1> HIDE DEF f, g, h
<1>7. SumFunctionOnSet(h, Users(k)) = SumFunctionOnSet(f, Users(k)) + SumFunctionOnSet(g, Users(k))
  BY <1>4, <1>5, SumOfBoth
<1> QED
  BY <1>1, <1>2, <1>6, <1>7 DEF h

(* Nothing is counted before Start, and no batch exists. *)
LEMMA MergeInit ==
  ASSUME IsFiniteSet(Requests), Init
  PROVE  MergeInv
<1>1. ASSUME NEW k \in Keys
      PROVE  SumFunction(Added(k)) = 0
  <2>1. \A r \in Users(k) : Part(r, k) \in Nat /\ Part(r, k) = Request[r].increments[k]
    BY PartType DEF Users, Part
  <2>2. \A r \in Users(k) : Added(k)[r] = 0
    BY <2>1 DEF Added, Users, Init
  <2>3. IsFiniteSet(Users(k)) /\ DOMAIN Added(k) = Users(k)
    BY FS_Subset DEF Users, Added
  <2> QED
    BY <2>2, <2>3, SumOfZeros DEF SumFunction
<1>2. CountersExact
  BY <1>1 DEF CountersExact, Added, Users, Init
<1> QED
  BY <1>2, EmptyMerged DEF MergeInv, Init

(* Every step builds its batches out of those that there are, or by add.     *)
LEMMA MergeStep ==
  ASSUME IsFiniteSet(Requests), Shape, JobsInv, MergeInv, Next
  PROVE  MergeInv'
<1> USE DEF submitVars, loopVars, stopVars, redisVars
<1>0. TypeOK /\ GoroutineShape /\ JobsConserved /\ MergeInv
  BY DEF Shape, JobsInv
<1>a. \A b \in wire \cup {pending, flushing} : Merged(b)
  BY DEF MergeInv
<1>1. ASSUME UNCHANGED <<counters, counted>>,
             \A b \in (wire \cup {pending, flushing})' : Merged(b)
      PROVE  MergeInv'
  BY <1>0, <1>1 DEF MergeInv, CountersExact
<1>2. ASSUME UNCHANGED <<counters, counted>>, wire' \subseteq wire,
             pending' \in {pending, EmptyBatch}, flushing' \in {flushing, EmptyBatch}
      PROVE  MergeInv'
  BY <1>1, <1>2, <1>a, EmptyMerged
<1>3. ASSUME NEW next, StartFlush(pending, next), pending' = EmptyBatch,
             UNCHANGED <<counters, counted>>
      PROVE  MergeInv'
  BY <1>1, <1>3, <1>a, EmptyMerged DEF StartFlush
<1>4. ASSUME NEW r \in Requests, Submit(r) PROVE MergeInv'
  BY <1>2, <1>4 DEF Submit, SubmitBegin, SubmitSend, SubmitResult, SubmitCancel
<1>5. CASE Start \/ Receive \/ EnterDrain \/ EnterAbort \/ AbortEmpty \/ Stop \/ Finished
  BY <1>2, <1>5 DEF Start, Receive, EnterDrain, EnterAbort, AbortEmpty, Stop, StopBegin,
     StopDone, StopDeadline, StopJoined, Finished, vars
<1>6. CASE Dequeued
  <2>1. hand \in Requests /\ IsBatch(pending) /\ hand \in InHand
    BY <1>0, <1>6 DEF Dequeued, TypeOK, GoroutineShape, InHand
  <2>2. hand \notin pending.jobs
    BY <1>0, <2>1 DEF JobsConserved
  <2>3. Merged(NewPendingBatch(hand)) /\ Merged(Add(pending, hand))
    <3>1. hand \notin EmptyBatch.jobs
      BY DEF EmptyBatch
    <3>2. Merged(pending)
      BY <1>a
    <3> QED
      BY <2>1, <2>2, <3>1, <3>2, AddMerged, EmptyMerged, EmptyIsBatch DEF NewPendingBatch
  <2>4. UNCHANGED <<counters, counted>>
    BY <1>6 DEF Dequeued
  <2>5. CASE resume = "abort"
    BY <1>2, <1>6, <2>4, <2>5 DEF Dequeued
  <2>6. CASE resume # "abort"
    <3>1. Absorb(hand)
      BY <1>6, <2>6 DEF Dequeued
    <3>2. \A b \in (wire \cup {pending, flushing})' : Merged(b)
      BY <1>a, <2>3, <3>1, EmptyMerged DEF Absorb, KeepPending, StartFlush
    <3> QED
      BY <1>1, <2>4, <3>2
  <2> QED
    BY <2>5, <2>6
<1>7. CASE TimerFires
  BY <1>3, <1>7 DEF TimerFires
<1>8. CASE DrainEmpty
  <2>1. CASE pending = EmptyBatch
    BY <1>2, <1>8, <2>1 DEF DrainEmpty
  <2>2. CASE pending # EmptyBatch
    BY <1>3, <1>8, <2>2 DEF DrainEmpty
  <2> QED
    BY <2>1, <2>2
<1>9. ASSUME NEW outcome, FlushReturns(outcome) PROVE MergeInv'
  <2>1. UNCHANGED <<counters, counted>>
    BY <1>9 DEF FlushReturns
  <2>2. CASE StartFlush(pending, resume) /\ pending' = EmptyBatch
    BY <1>3, <2>1, <2>2
  <2>3. CASE flushing' = EmptyBatch /\ UNCHANGED <<pending, wire>>
    BY <1>2, <2>1, <2>3
  <2> QED
    BY <1>9, <2>2, <2>3 DEF FlushReturns
<1>10. ASSUME NEW b \in wire, RedisExecute(b) PROVE MergeInv'
  <2>1. CountersExact'
    BY <1>0, <1>10, <1>a, ExecuteExact DEF MergeInv
  <2>2. wire' \subseteq wire /\ pending' = pending /\ flushing' = flushing
    BY <1>10 DEF RedisExecute
  <2> QED
    BY <1>a, <2>1, <2>2 DEF MergeInv
<1> QED
  BY <1>4, <1>5, <1>6, <1>7, <1>8, <1>9, <1>10 DEF Next, RunStep, FlushOk, FlushFailed

(* Merging requests into batches loses and invents nothing: each counter is   *)
(* the sum of the deltas of the requests that Redis executed (add and flush,  *)
(* and the script).                                                         *)
THEOREM CountersAreSums ==
  ASSUME IsFiniteSet(Requests)
  PROVE  Spec => []CountersExact
<1>1. ASSUME Shape, JobsInv, MergeInv, [Next]_vars PROVE MergeInv'
  <2>1. CASE UNCHANGED vars
    BY <1>1, <2>1 DEF MergeInv, CountersExact, vars, loopVars, redisVars
  <2> QED
    BY <1>1, <2>1, MergeStep
<1>2. MergeInv => CountersExact
  BY DEF MergeInv
<1>3. Init => MergeInv
  BY MergeInit
<1> QED
  BY <1>1, <1>2, <1>3, ShapeInvariant, JobsInvariant, PTL DEF Spec

-----------------------------------------------------------------------------
(* Layer 7: the batcher implements BatchPromise. *)

(* Each step of the batcher is a step of BatchPromise for the callers of    *)
(* Submit, or changes nothing they can know.                                *)
LEMMA PromiseStep ==
  ASSUME Shape, JobsInv, CountInv, Next
  PROVE  [Promise!Next]_(Promise!vars)
<1> USE DEF submitVars, loopVars, stopVars, redisVars, Outcomes, Refusals
<1> DEFINE status == [r \in Requests |-> Status(r)]
<1>0. TypeOK /\ JobsConserved /\ ReturnedResult /\ CountInv
  BY DEF Shape, JobsInv
<1>1. ASSUME sub' = sub, counted' = counted PROVE UNCHANGED Promise!vars
  BY <1>1 DEF Promise!vars, Status
<1>2. ASSUME NEW r \in Requests, NEW o, sub' = [sub EXCEPT ![r] = o]
      PROVE  \A q \in Requests : q # r => Status(q)' = Status(q)
  BY <1>0, <1>2 DEF TypeOK, Status
<1>3. ASSUME NEW r \in Requests, Submit(r) PROVE [Promise!Next]_(Promise!vars)
  <2>1. counted' = counted
    BY <1>3 DEF Submit, SubmitBegin, SubmitSend, SubmitResult, SubmitCancel
  <2>2. PICK o \in {"sending", "waiting", "cancelled"} \cup Outcomes \cup Refusals :
          /\ sub' = [sub EXCEPT ![r] = o]
          /\ \/ sub[r] = "idle" /\ o \in {"sending"} \cup Refusals
             \/ sub[r] = "sending" /\ o \in {"waiting", "queue_full"}
             \/ sub[r] = "waiting" /\ (o = "cancelled" \/ (o = result[r] /\ o \in Outcomes))
    BY <1>0, <1>3 DEF Submit, SubmitBegin, Refuse, SubmitSend, SubmitResult, SubmitCancel,
       TypeOK
  <2>3. sub'[r] = o
    BY <1>0, <2>2 DEF TypeOK
  <2>4. \A q \in Requests : q # r => Status(q)' = Status(q)
    BY <1>2, <2>2
  <2>5. Status(r) = CASE sub[r] \in {"idle", "sending"} -> "open"
                      [] sub[r] = "waiting" -> "accepted"
    BY <2>2 DEF Status
  <2>6. \/ Status(r)' = Status(r)
        \/ Status(r) = "open" /\ Status(r)' \in {"accepted", "refused"}
        \/ Status(r) = "accepted" /\ Status(r)' = "failed"
        \/ Status(r) = "accepted" /\ Status(r)' = "acked" /\ counted[r] = 1
    BY <1>0, <2>2, <2>3 DEF Status, CountInv
  <2>7. status' = [status EXCEPT ![r] = Status(r)']
    BY <2>4
  <2> QED
    BY <2>1, <2>4, <2>6, <2>7 DEF Promise!Next, Promise!Accept, Promise!Refuse,
       Promise!Fail, Promise!Ack, Promise!Move, Promise!vars
<1>4. ASSUME NEW b \in wire, RedisExecute(b) PROVE [Promise!Next]_(Promise!vars)
  <2>1. b.jobs \subseteq Requests /\ \A r \in b.jobs : counted[r] = 0
    BY <1>0 DEF TypeOK, IsBatch, CountInv
  <2>2. \A r \in b.jobs : Accepted(r)
    BY <1>0 DEF CountInv, JobsConserved, Sent, Held
  <2>3. \A r \in b.jobs : Status(r) \in {"accepted", "failed", "acked"}
    BY <2>2 DEF Accepted, Status
  <2>4. \A r \in b.jobs : sub[r] # "ok"
    BY <1>0, <2>1 DEF ReturnedResult, CountInv
  <2>5. \A r \in b.jobs : Status(r) \in {"accepted", "failed"}
    BY <2>2, <2>4 DEF Accepted, Status
  <2>6. sub' = sub /\ counted' = [r \in Requests |-> counted[r] + (IF r \in b.jobs THEN 1 ELSE 0)]
    BY <1>4 DEF RedisExecute
  <2>7. status' = status
    BY <2>6 DEF Status
  <2>8. Promise!Count(b.jobs)
    BY <2>1, <2>5, <2>6, <2>7 DEF Promise!Count
  <2> QED
    BY <2>1, <2>8 DEF Promise!Next
<1>5. ASSUME NEW outcome, FlushReturns(outcome) PROVE UNCHANGED Promise!vars
  BY <1>1, <1>5 DEF FlushReturns
<1>6. CASE Start \/ Receive \/ Dequeued \/ TimerFires \/ EnterDrain \/ EnterAbort
           \/ DrainEmpty \/ AbortEmpty \/ Stop \/ Finished
  BY <1>1, <1>6 DEF Start, Receive, Dequeued, TimerFires, EnterDrain, EnterAbort,
     DrainEmpty, AbortEmpty, Stop, StopBegin, StopDone, StopDeadline, StopJoined,
     Finished, vars
<1> QED
  BY <1>3, <1>4, <1>5, <1>6 DEF Next, RunStep, FlushOk, FlushFailed

(* Every behaviour of the batcher is one that BatchPromise allows.          *)
THEOREM Refinement == Spec => KeepsPromise
<1>1. Init => Promise!Init
  <2> SUFFICES ASSUME Init PROVE Promise!Init
    OBVIOUS
  <2>1. \A r \in Requests : sub[r] = "idle"
    BY DEF Init
  <2>2. \A r \in Requests : Status(r) = "open"
    BY <2>1 DEF Status, Refusals
  <2>3. counted = [r \in Requests |-> 0]
    BY DEF Init
  <2> QED
    BY <2>2, <2>3 DEF Promise!Init
<1>2. ASSUME Shape, JobsInv, CountInv, [Next]_vars PROVE [Promise!Next]_(Promise!vars)
  <2>1. CASE UNCHANGED vars
    BY <2>1 DEF vars, submitVars, redisVars, Promise!vars, Status
  <2> QED
    BY <1>2, <2>1, PromiseStep
<1> QED
  BY <1>1, <1>2, ShapeInvariant, JobsInvariant, CountInvariant, PTL
  DEF Spec, KeepsPromise, Promise!Spec

(* In every behaviour that BatchPromise allows, whatever batches Redis counts *)
(* and whichever calls fail meanwhile, an acknowledged request is counted     *)
(* exactly once and a refused one never.                                     *)
THEOREM PromiseKept == Promise!Spec => []Promise!Kept
<1>1. Promise!Init => Promise!Kept
  BY DEF Promise!Init, Promise!Kept
<1>2. Promise!Kept /\ [Promise!Next]_(Promise!vars) => Promise!Kept'
  <2> SUFFICES ASSUME Promise!Kept, [Promise!Next]_(Promise!vars) PROVE Promise!Kept'
    OBVIOUS
  <2>1. ASSUME NEW r \in Requests,
               Promise!Accept(r) \/ Promise!Refuse(r) \/ Promise!Fail(r) \/ Promise!Ack(r)
        PROVE  Promise!Kept'
    BY <2>1 DEF Promise!Accept, Promise!Refuse, Promise!Fail, Promise!Ack, Promise!Move,
       Promise!Kept
  <2>2. ASSUME NEW batch \in SUBSET Requests, Promise!Count(batch) PROVE Promise!Kept'
    <3>1. \A r \in Requests : Status(r)' = Status(r)
      BY <2>2 DEF Promise!Count
    <3>2. \A r \in Requests : counted'[r] = counted[r] + (IF r \in batch THEN 1 ELSE 0)
      BY <2>2 DEF Promise!Count
    <3>3. \A r \in batch : Status(r) \in {"accepted", "failed"} /\ counted[r] = 0
      BY <2>2 DEF Promise!Count
    <3> QED
      BY <3>1, <3>2, <3>3 DEF Promise!Kept
  <2>3. CASE UNCHANGED Promise!vars
    BY <2>3 DEF Promise!vars, Promise!Kept
  <2> QED
    BY <2>1, <2>2, <2>3 DEF Promise!Next
<1> QED
  BY <1>1, <1>2, PTL DEF Promise!Spec

(* So the batcher keeps it: what a caller of Submit may rely on.             *)
THEOREM PromiseKeptByBatcher == Spec => []Promise!Kept
  BY Refinement, PromiseKept, PTL DEF KeepsPromise
=============================================================================
