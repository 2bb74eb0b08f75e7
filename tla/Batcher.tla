------------------------------ MODULE Batcher ------------------------------
(***************************************************************************)
(* The updater's micro-batcher, src/internal/updater/batcher.go.           *)
(*                                                                         *)
(* HTTP handlers call Submit, which puts a job on a bounded channel and    *)
(* waits for its result.  One goroutine, run, takes jobs off the channel,  *)
(* merges them into a pending batch and flushes the batch to Redis when it *)
(* is full, when the next job does not fit, when its timer fires, or when  *)
(* Stop asks for a drain.  Stop closes the channel `stop`, waits for the   *)
(* goroutine, and cancels the goroutine's context when its own deadline    *)
(* passes first.                                                           *)
(*                                                                         *)
(* Redis is seen from here as a place that may execute a batch put on the  *)
(* wire, once, at any later time -- also after the client has given up --  *)
(* or never.  CounterStore.tla opens up Store.Apply and the Lua script.    *)
(***************************************************************************)
EXTENDS Naturals, Sequences, FiniteSets, Functions

CONSTANTS
  Requests,    \* the Submit calls of a run; each is made at most once
  Keys,        \* Redis counter keys.  A key names one hour, so it has one expiry
  Request,     \* Request[r] = [events |-> n, increments |-> [key |-> delta]]
  QueueSize,   \* BatcherConfig.QueueSize
  MaxEvents,   \* BatcherConfig.MaxEvents
  MaxKeys,     \* BatcherConfig.MaxKeys
  NoRequest    \* the goroutine holds no job

IsIncrements(f) == DOMAIN f \subseteq Keys /\ f \in [DOMAIN f -> Nat]

\* What the HTTP handler and the configuration loader guarantee of the inputs.
ASSUME RequestAssumption ==
  \A r \in Requests :
    Request[r].events \in Nat /\ IsIncrements(Request[r].increments)
ASSUME LimitAssumption ==
  QueueSize \in Nat \ {0} /\ MaxEvents \in Nat \ {0} /\ MaxKeys \in Nat \ {0}
ASSUME KeysAssumption == IsFiniteSet(Keys)
ASSUME NoRequestAssumption == NoRequest \notin Requests

VARIABLES
  accepting,    \* Batcher.accepting, guarded by stateMu
  stopClosed,   \* the channel Batcher.stop is closed
  runCancelled, \* runCtx is cancelled
  queue,        \* the buffered channel Batcher.queue
  depth,        \* the atomic gauge Batcher.depth
  sub,          \* per request: where its Submit call is, and how it returned
  result,       \* per request: what was sent on job.result
  pc,           \* where the goroutine run is
  resume,       \* the loop run returns to from a dequeue or a flush
  hand,         \* the job taken off the channel and not yet dequeued()
  pending,      \* the pendingBatch under construction; EmptyBatch is nil
  timer,        \* MaxWait timer armed and not drained
  flushing,     \* the batch inside flush; EmptyBatch outside it
  replied,      \* Redis has answered the flush in progress with success
  stopper,      \* where the Stop call is
  wire,         \* batches sent to Redis that it has not executed
  counters,     \* the counters in Redis
  counted       \* history: how often Redis has executed each request's events

submitVars == <<accepting, depth, sub>>
loopVars == <<pc, resume, hand, pending, timer, flushing>>
redisVars == <<wire, counters, counted>>
stopVars == <<stopClosed, runCancelled, stopper>>
vars == <<submitVars, queue, result, loopVars, replied, stopVars, redisVars>>

Refusals == {"invalid", "too_large", "not_running", "queue_full"}
Outcomes == {"ok", "failed", "stopped"}

(* The states of a Submit call whose job went onto the channel. *)
Accepted(r) == sub[r] \in {"waiting", "cancelled"} \cup Outcomes

-----------------------------------------------------------------------------
(* Batches. *)

EmptyBatch == [jobs |-> {}, events |-> 0, increments |-> <<>>]

(* The bug of replacing the delta of a key two requests share. *)
MergeOverwriting(f, g) ==
  [k \in DOMAIN f \cup DOMAIN g |-> IF k \in DOMAIN g THEN g[k] ELSE f[k]]

Merge(f, g) ==
  [k \in DOMAIN f \cup DOMAIN g |->
     (IF k \in DOMAIN f THEN f[k] ELSE 0) + (IF k \in DOMAIN g THEN g[k] ELSE 0)]

Add(b, r) ==
  [jobs |-> b.jobs \cup {r},
   events |-> b.events + Request[r].events,
   increments |-> Merge(b.increments, Request[r].increments)]

NewPendingBatch(r) == Add(EmptyBatch, r)

(* The bug of checking one of the two limits. *)
CanAddIgnoringKeys(b, r) == b.events + Request[r].events <= MaxEvents

CanAdd(b, r) ==
  /\ b.events + Request[r].events <= MaxEvents
  /\ Cardinality(DOMAIN b.increments \cup DOMAIN Request[r].increments) <= MaxKeys

Full(b) ==
  \/ b.events = MaxEvents
  \/ Cardinality(DOMAIN b.increments) = MaxKeys

(* validateRequest, in the order of its checks.  Keys are distinct and       *)
(* deltas positive by construction: the handler counts records into a map.  *)
Empty(r) == Request[r].events = 0 \/ DOMAIN Request[r].increments = {}

TooLarge(r) ==
  \/ Request[r].events > MaxEvents
  \/ Cardinality(DOMAIN Request[r].increments) > MaxKeys

Invalid(r) ==
  \/ Empty(r)
  \/ ~TooLarge(r) /\ SumFunction(Request[r].increments) # Request[r].events

-----------------------------------------------------------------------------
(* stateMu is held by a Submit between its check of accepting and the end  *)
(* of its send; every other critical section is one action.                *)

MutexFree == \A r \in Requests : sub[r] # "sending"

Init ==
  /\ accepting = FALSE
  /\ stopClosed = FALSE
  /\ runCancelled = FALSE
  /\ queue = <<>>
  /\ depth = 0
  /\ sub = [r \in Requests |-> "idle"]
  /\ result = [r \in Requests |-> "none"]
  /\ pc = "unstarted"
  /\ resume = "select"
  /\ hand = NoRequest
  /\ pending = EmptyBatch
  /\ timer = FALSE
  /\ flushing = EmptyBatch
  /\ replied = FALSE
  /\ stopper = "idle"
  /\ wire = {}
  /\ counters = [k \in Keys |-> 0]
  /\ counted = [r \in Requests |-> 0]

Start ==
  /\ pc = "unstarted"
  /\ MutexFree
  /\ pc' = "select"
  /\ accepting' = TRUE
  /\ UNCHANGED <<depth, sub, queue, result, resume, hand, pending, timer,
                 flushing, replied, stopVars, redisVars>>

-----------------------------------------------------------------------------
(* Submit *)

Refuse(r, reason) ==
  /\ sub' = [sub EXCEPT ![r] = reason]
  /\ UNCHANGED <<accepting, depth>>

(* The bug of not counting the job before it can be received. *)
SubmitBeginUncounted(r) ==
  /\ sub[r] = "idle"
  /\ \/ Invalid(r) /\ Refuse(r, "invalid")
     \/ ~Invalid(r) /\ TooLarge(r) /\ Refuse(r, "too_large")
     \/ /\ ~Invalid(r) /\ ~TooLarge(r) /\ MutexFree
        /\ Refuse(r, IF accepting THEN "sending" ELSE "not_running")
  /\ UNCHANGED <<queue, result, loopVars, replied, stopVars, redisVars>>

(* Up to the depth increment made under the lock. *)
SubmitBegin(r) ==
  /\ sub[r] = "idle"
  /\ \/ Invalid(r) /\ Refuse(r, "invalid")
     \/ ~Invalid(r) /\ TooLarge(r) /\ Refuse(r, "too_large")
     \/ /\ ~Invalid(r) /\ ~TooLarge(r) /\ MutexFree /\ ~accepting
        /\ Refuse(r, "not_running")
     \/ /\ ~Invalid(r) /\ ~TooLarge(r) /\ MutexFree /\ accepting
        /\ sub' = [sub EXCEPT ![r] = "sending"]
        /\ depth' = depth + 1
        /\ UNCHANGED accepting
  /\ UNCHANGED <<queue, result, loopVars, replied, stopVars, redisVars>>

(* The bug of not taking the increment back when the channel is full. *)
SubmitSendLeaking(r) ==
  /\ sub[r] = "sending"
  /\ IF Len(queue) < QueueSize
       THEN /\ queue' = Append(queue, r)
            /\ sub' = [sub EXCEPT ![r] = "waiting"]
            /\ UNCHANGED depth
       ELSE /\ sub' = [sub EXCEPT ![r] = "queue_full"]
            /\ UNCHANGED <<queue, depth>>
  /\ UNCHANGED <<accepting, result, loopVars, replied, stopVars, redisVars>>

(* The non-blocking send and the unlock. *)
SubmitSend(r) ==
  /\ sub[r] = "sending"
  /\ IF Len(queue) < QueueSize
       THEN /\ queue' = Append(queue, r)
            /\ sub' = [sub EXCEPT ![r] = "waiting"]
            /\ UNCHANGED depth
       ELSE /\ sub' = [sub EXCEPT ![r] = "queue_full"]
            /\ depth' = depth - 1
            /\ UNCHANGED queue
  /\ UNCHANGED <<accepting, result, loopVars, replied, stopVars, redisVars>>

SubmitResult(r) ==
  /\ sub[r] = "waiting"
  /\ result[r] # "none"
  /\ sub' = [sub EXCEPT ![r] = result[r]]
  /\ UNCHANGED <<accepting, depth, queue, result, loopVars, replied, stopVars,
                 redisVars>>

(* The request's context ends (the client left); the job stays where it is. *)
SubmitCancel(r) ==
  /\ sub[r] = "waiting"
  /\ sub' = [sub EXCEPT ![r] = "cancelled"]
  /\ UNCHANGED <<accepting, depth, queue, result, loopVars, replied, stopVars,
                 redisVars>>

-----------------------------------------------------------------------------
(* The goroutine run, with drain and abort *)

Resolved(jobs, outcome) ==
  [r \in Requests |-> IF r \in jobs THEN outcome ELSE result[r]]

(* The bug of a result channel without a buffer. *)
CanResolveUnbuffered(jobs) == \A r \in jobs : sub[r] = "waiting"

(* The sends on job.result go through: it holds one answer, which stays      *)
(* there if the caller has left.                                            *)
CanResolve(jobs) == \A r \in jobs : result[r] = "none" \/ sub[r] \in Outcomes

(* flush up to the write of the command; the timer was stopped or has fired. *)
StartFlush(b, next) ==
  /\ pc' = "apply"
  /\ resume' = next
  /\ flushing' = b
  /\ wire' = wire \cup {b}
  /\ replied' = FALSE
  /\ timer' = FALSE

(* The bug of an abort that leaves the channel alone. *)
ReceiveUnlessAborting ==
  /\ pc = "select" \/ (pc = "drain" /\ ~runCancelled)
  /\ queue # <<>>
  /\ hand' = Head(queue)
  /\ queue' = Tail(queue)
  /\ resume' = pc
  /\ pc' = "received"
  /\ UNCHANGED <<submitVars, result, pending, timer, flushing, replied,
                 stopVars, redisVars>>

(* case job := <-b.queue, of every loop *)
Receive ==
  /\ pc \in {"select", "abort"} \/ (pc = "drain" /\ ~runCancelled)
  /\ queue # <<>>
  /\ hand' = Head(queue)
  /\ queue' = Tail(queue)
  /\ resume' = pc
  /\ pc' = "received"
  /\ UNCHANGED <<submitVars, result, pending, timer, flushing, replied,
                 stopVars, redisVars>>

(* The bug of not arming the timer. *)
KeepPendingUntimed(b) ==
  /\ pending' = b
  /\ pc' = resume
  /\ UNCHANGED <<resume, timer, flushing, wire, replied>>

(* Keep the batch under construction and go back to the loop. *)
KeepPending(b) ==
  /\ pending' = b
  /\ pc' = resume
  /\ timer' = (resume = "select")
  /\ UNCHANGED <<resume, flushing, wire, replied>>

(* The job merged into the batch, flushed at once if that fills it; or the  *)
(* old batch flushed and the job starting the next one.                     *)
Absorb(r) ==
  \/ /\ pending = EmptyBatch \/ CanAdd(pending, r)
     /\ LET b == Add(pending, r)
        IN  \/ ~Full(b) /\ KeepPending(b)
            \/ Full(b) /\ StartFlush(b, resume) /\ pending' = EmptyBatch
  \/ /\ pending # EmptyBatch /\ ~CanAdd(pending, r)
     /\ StartFlush(pending, resume)
     /\ pending' = NewPendingBatch(r)

(* The bug of an abort that forgets the job it has received. *)
DequeuedUnanswered ==
  /\ pc = "received"
  /\ MutexFree
  /\ depth' = depth - 1
  /\ hand' = NoRequest
  /\ \/ resume # "abort" /\ Absorb(hand) /\ UNCHANGED result
     \/ /\ resume = "abort"
        /\ pc' = resume
        /\ UNCHANGED <<resume, pending, timer, flushing, wire, replied, result>>
  /\ UNCHANGED <<accepting, sub, queue, stopVars, counters, counted>>

(* dequeued, and what the loop does with the job. *)
Dequeued ==
  /\ pc = "received"
  /\ MutexFree
  /\ depth' = depth - 1
  /\ hand' = NoRequest
  /\ \/ resume # "abort" /\ Absorb(hand) /\ UNCHANGED result
     \/ /\ resume = "abort"
        /\ CanResolve({hand})
        /\ result' = Resolved({hand}, "stopped")
        /\ pc' = resume
        /\ UNCHANGED <<resume, pending, timer, flushing, wire, replied>>
  /\ UNCHANGED <<accepting, sub, queue, stopVars, counters, counted>>

(* case <-timerC *)
TimerFires ==
  /\ pc = "select"
  /\ pending # EmptyBatch
  /\ timer
  /\ StartFlush(pending, "select")
  /\ pending' = EmptyBatch
  /\ UNCHANGED <<submitVars, queue, result, hand, stopVars, counters, counted>>

(* The bug of an abort where a drain was asked for. *)
EnterDrainAborting ==
  /\ pc = "select"
  /\ stopClosed
  /\ result' = Resolved(pending.jobs, "stopped")
  /\ pending' = EmptyBatch
  /\ pc' = "abort"
  /\ timer' = FALSE
  /\ UNCHANGED <<submitVars, queue, resume, hand, flushing, replied, stopVars,
                 redisVars>>

(* case <-b.stop *)
EnterDrain ==
  /\ pc = "select"
  /\ stopClosed
  /\ pc' = "drain"
  /\ timer' = FALSE
  /\ UNCHANGED <<submitVars, queue, result, resume, hand, pending, flushing,
                 replied, stopVars, redisVars>>

(* case <-b.runCtx.Done() of run, and the check at the top of drain *)
EnterAbort ==
  /\ pc \in {"select", "drain"}
  /\ runCancelled
  /\ CanResolve(pending.jobs)
  /\ result' = Resolved(pending.jobs, "stopped")
  /\ pending' = EmptyBatch
  /\ pc' = "abort"
  /\ timer' = FALSE
  /\ UNCHANGED <<submitVars, queue, resume, hand, flushing, replied, stopVars,
                 redisVars>>

(* The default branch of drain: flush what is left, then return. *)
DrainEmpty ==
  /\ pc = "drain"
  /\ ~runCancelled
  /\ queue = <<>>
  /\ \/ /\ pending = EmptyBatch
        /\ pc' = "exited"
        /\ UNCHANGED <<resume, pending, timer, flushing, wire, replied>>
     \/ /\ pending # EmptyBatch
        /\ StartFlush(pending, "exited")
        /\ pending' = EmptyBatch
  /\ UNCHANGED <<submitVars, queue, result, hand, stopVars, counters, counted>>

(* The bug of an abort that answers only the pending batch. *)
AbortWithoutEmptying ==
  /\ pc = "abort"
  /\ pc' = "exited"
  /\ UNCHANGED <<submitVars, queue, result, resume, hand, pending, timer,
                 flushing, replied, stopVars, redisVars>>

(* The default branch of abort *)
AbortEmpty ==
  /\ pc = "abort"
  /\ queue = <<>>
  /\ pc' = "exited"
  /\ UNCHANGED <<submitVars, queue, result, resume, hand, pending, timer,
                 flushing, replied, stopVars, redisVars>>

(* The rest of flush once Apply has returned, and the code after the call:  *)
(* a full batch left by Absorb is flushed too, any other goes on waiting.   *)
FlushReturns(outcome) ==
  /\ CanResolve(flushing.jobs)
  /\ result' = Resolved(flushing.jobs, outcome)
  /\ \/ /\ pending # EmptyBatch /\ Full(pending)
        /\ StartFlush(pending, resume)
        /\ pending' = EmptyBatch
     \/ /\ ~(pending # EmptyBatch /\ Full(pending))
        /\ pc' = resume
        /\ flushing' = EmptyBatch
        /\ replied' = FALSE
        /\ timer' = (resume = "select" /\ pending # EmptyBatch)
        /\ UNCHANGED <<resume, pending, wire>>
  /\ UNCHANGED <<submitVars, queue, hand, stopVars, counters, counted>>

(* The bug of taking the end of the operation for its success. *)
FlushOkUnanswered == pc = "apply" /\ FlushReturns("ok")

FlushOk == pc = "apply" /\ replied /\ FlushReturns("ok")

(* The bug of applying a batch again after an ambiguous failure. *)
FlushFailedRetrying ==
  /\ pc = "apply"
  /\ wire' = wire \cup {flushing}
  /\ UNCHANGED <<submitVars, queue, result, loopVars, replied, stopVars,
                 counters, counted>>

(* A timeout of a command, a deadline or a cancelled runCtx before the next  *)
(* one, a lost connection or an error reply: at any moment, whatever Redis   *)
(* did or still does with the batch.                                        *)
FlushFailed == pc = "apply" /\ FlushReturns("failed")

-----------------------------------------------------------------------------
(* Redis executes a batch: the script is atomic.  A batch that it loses or  *)
(* refuses stays on the wire for ever.                                      *)

RedisExecute(b) ==
  /\ b \in wire
  /\ wire' = wire \ {b}
  /\ counters' = [k \in Keys |->
       counters[k] + (IF k \in DOMAIN b.increments THEN b.increments[k] ELSE 0)]
  /\ counted' = [r \in Requests |-> counted[r] + (IF r \in b.jobs THEN 1 ELSE 0)]
  /\ replied' = (replied \/ b = flushing)
  /\ UNCHANGED <<submitVars, queue, result, loopVars, stopVars>>

-----------------------------------------------------------------------------
(* Stop *)

StopBegin ==
  /\ stopper = "idle"
  /\ pc # "unstarted"
  /\ MutexFree
  /\ accepting' = FALSE
  /\ stopClosed' = TRUE
  /\ stopper' = "waiting"
  /\ UNCHANGED <<depth, sub, queue, result, loopVars, replied, runCancelled,
                 redisVars>>

(* case <-b.done *)
StopDone ==
  /\ stopper = "waiting"
  /\ pc = "exited"
  /\ stopper' = "returned"
  /\ runCancelled' = TRUE
  /\ UNCHANGED <<submitVars, queue, result, loopVars, replied, stopClosed,
                 redisVars>>

(* The bug of returning from Stop without joining the goroutine. *)
StopDeadlineUnjoined ==
  /\ stopper = "waiting"
  /\ stopper' = "late"
  /\ runCancelled' = TRUE
  /\ UNCHANGED <<submitVars, queue, result, loopVars, replied, stopClosed,
                 redisVars>>

(* case <-ctx.Done(): the drain deadline *)
StopDeadline ==
  /\ stopper = "waiting"
  /\ stopper' = "expired"
  /\ runCancelled' = TRUE
  /\ UNCHANGED <<submitVars, queue, result, loopVars, replied, stopClosed,
                 redisVars>>

(* <-b.done after the deadline *)
StopJoined ==
  /\ stopper = "expired"
  /\ pc = "exited"
  /\ stopper' = "late"
  /\ UNCHANGED <<submitVars, queue, result, loopVars, replied, stopClosed,
                 runCancelled, redisVars>>

-----------------------------------------------------------------------------
Submit(r) ==
  SubmitBegin(r) \/ SubmitSend(r) \/ SubmitResult(r) \/ SubmitCancel(r)

RunStep ==
  \/ Receive \/ Dequeued \/ TimerFires \/ EnterDrain \/ EnterAbort
  \/ DrainEmpty \/ AbortEmpty \/ FlushOk \/ FlushFailed

Stop == StopBegin \/ StopDone \/ StopDeadline \/ StopJoined

(* The program may rest once Stop and every Submit have returned. *)
Finished ==
  /\ stopper \in {"returned", "late"}
  /\ \A r \in Requests : sub[r] \notin {"idle", "sending", "waiting"}
  /\ UNCHANGED vars

Next ==
  \/ Start
  \/ \E r \in Requests : Submit(r)
  \/ RunStep
  \/ \E b \in wire : RedisExecute(b)
  \/ Stop
  \/ Finished

Spec == Init /\ [][Next]_vars

(* Go schedules every goroutine that can run; a flush ends, as Apply sends a  *)
(* few commands and go-redis gives each up after its timeouts; MaxWait bounds *)
(* the timer.  Nobody has to call Submit or Stop, no client has to leave, and *)
(* Redis need not answer.                                                   *)
Fairness ==
  /\ WF_vars(RunStep)
  /\ WF_vars(StopDone \/ StopJoined)
  /\ \A r \in Requests : WF_vars(SubmitSend(r)) /\ WF_vars(SubmitResult(r))

FairSpec == Spec /\ Fairness

-----------------------------------------------------------------------------
(* Properties *)

IsBatch(b) ==
  b.jobs \subseteq Requests /\ b.events \in Nat /\ IsIncrements(b.increments)

(* Every variable has its type; in particular depth never goes negative.   *)
TypeOK ==
  /\ accepting \in BOOLEAN /\ stopClosed \in BOOLEAN /\ runCancelled \in BOOLEAN
  /\ timer \in BOOLEAN /\ replied \in BOOLEAN
  /\ queue \in Seq(Requests) /\ Len(queue) <= QueueSize
  /\ depth \in Nat
  /\ sub \in [Requests ->
       {"idle", "sending", "waiting", "cancelled"} \cup Outcomes \cup Refusals]
  /\ result \in [Requests -> {"none"} \cup Outcomes]
  /\ pc \in {"unstarted", "select", "received", "apply", "drain", "abort", "exited"}
  /\ resume \in {"select", "drain", "abort", "exited"}
  /\ hand \in Requests \cup {NoRequest}
  /\ \A b \in wire \cup {pending, flushing} : IsBatch(b)
  /\ stopper \in {"idle", "waiting", "expired", "returned", "late"}
  /\ counters \in [Keys -> Nat]
  /\ counted \in [Requests -> Nat]

Distinct(q) == \A i, j \in 1..Len(q) : q[i] = q[j] => i = j
Held == {r \in Requests : Accepted(r)}
Queued == Range(queue)
InHand == {hand} \ {NoRequest}
Answered == {r \in Requests : result[r] # "none"}

(* Every job whose Submit got past the channel is in exactly one place: on *)
(* the channel, in the goroutine's hand, in the pending batch, in the       *)
(* flush, or answered.  No job is dropped, answered twice or in two batches *)
(* across the hand-overs between Submit, run, drain, abort and flush.       *)
JobsConserved ==
  /\ Held = Queued \cup InHand \cup pending.jobs \cup flushing.jobs \cup Answered
  /\ Distinct(queue)
  /\ Queued \cap (InHand \cup pending.jobs \cup flushing.jobs \cup Answered) = {}
  /\ InHand \cap (pending.jobs \cup flushing.jobs \cup Answered) = {}
  /\ pending.jobs \cap (flushing.jobs \cup Answered) = {}
  /\ flushing.jobs \cap Answered = {}

(* When the goroutine has returned nothing is left behind: no job sits on   *)
(* the channel or in a batch without an answer, and none can arrive any     *)
(* more, because Submit checks accepting and sends under one lock.          *)
NothingAbandoned ==
  pc = "exited" =>
    /\ queue = <<>>
    /\ \A r \in Requests : sub[r] # "sending" /\ (Accepted(r) => result[r] # "none")

(* A Submit that returned nil (HTTP 2xx) is in the counters exactly once:   *)
(* success is never reported on a timeout, a cancelled run or a lost reply. *)
AckedOnlyIfCounted ==
  \A r \in Requests : (sub[r] = "ok" \/ result[r] = "ok") => counted[r] = 1

(* No interleaving of flushes, timeouts and late executions counts one      *)
(* Submit twice, and one that was refused is not counted at all.            *)
CountedAtMostOnce ==
  \A r \in Requests : counted[r] <= (IF Accepted(r) THEN 1 ELSE 0)

(* Merging requests into batches loses and invents nothing: each counter    *)
(* is the sum of the deltas of the requests Redis executed.                 *)
CountersExact ==
  \A k \in Keys :
    counters[k] = SumFunction([r \in {q \in Requests : k \in DOMAIN Request[q].increments}
                                 |-> counted[r] * Request[r].increments[k]])

(* No batch sent or under construction exceeds BATCH_MAX_EVENTS or          *)
(* BATCH_MAX_KEYS, whatever mixture of requests filled it.                  *)
BatchWithinLimits ==
  \A b \in wire \cup {pending, flushing} :
    /\ b.events <= MaxEvents
    /\ Cardinality(DOMAIN b.increments) <= MaxKeys

(* The queue-depth gauge is the channel's length plus the Submit about to   *)
(* send and the job received but not yet accounted for.                     *)
DepthAccounting ==
  depth = Len(queue) + Cardinality({r \in Requests : sub[r] = "sending"})
            + (IF pc = "received" THEN 1 ELSE 0)

(* Jobs are thrown away unexecuted (ErrBatcherStopped) only when the drain  *)
(* deadline has passed: a Stop that returns nil flushed all it had accepted. *)
DiscardOnlyAfterDeadline ==
  (\E r \in Requests : result[r] = "stopped") => stopper \in {"expired", "late"}

(* Once Stop has returned the goroutine starts no other Redis call, so the  *)
(* caller may close the client.                                             *)
NoFlushAfterStop ==
  [][(stopper = "returned" \/ stopper = "late") => pc' = pc /\ wire' \subseteq wire]_vars

(* What the caller of Submit knows of its request. *)
Status(r) ==
  CASE sub[r] \in {"idle", "sending"} -> "open"
    [] sub[r] = "waiting" -> "accepted"
    [] sub[r] = "ok" -> "acked"
    [] sub[r] \in {"failed", "stopped", "cancelled"} -> "failed"
    [] sub[r] \in Refusals -> "refused"

Promise == INSTANCE BatchPromise WITH status <- [r \in Requests |-> Status(r)]

(* The batcher implements BatchPromise: a nil from Submit means counted,    *)
(* exactly once; a refusal means never counted; batches count atomically.   *)
KeepsPromise == Promise!Spec

(* Every accepted job gets its one answer, also when Redis never answers,   *)
(* the queue stays short of a full batch, or Stop arrives meanwhile.        *)
AcceptedIsAnswered ==
  \A r \in Requests : Accepted(r) ~> result[r] # "none"

(* Stop returns, deadline or not.                                           *)
StopReturns == stopper = "waiting" ~> stopper \in {"returned", "late"}
=============================================================================
