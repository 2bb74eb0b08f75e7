----------------------------- MODULE AckBudget -----------------------------
(***************************************************************************)
(* How long a handler waits for its batch.  LoadConfig requires             *)
(* UPDATER_WRITE_TIMEOUT to exceed worstCaseAcknowledgementTime, the time   *)
(* to read the request plus (QUEUE_SIZE + 1) * (BATCH_MAX_WAIT +            *)
(* REDIS_OPERATION_TIMEOUT), so that no response is cut off while Redis     *)
(* may still count its events.  This module adds a clock to Batcher.        *)
(*                                                                         *)
(* Time passes only while everybody waits: steps of the program take none.  *)
(* Between Start and Stop a wait ends with a Redis reply or the timeouts of  *)
(* its command, with the timer after MaxWait, or with a new request.        *)
(*                                                                         *)
(* go-redis is external.  RedisOptions sets its dial, read and write         *)
(* timeouts but not ContextTimeoutEnabled: the deadline of flush keeps a     *)
(* command from being begun and ends none that is in progress.  How long     *)
(* one command lasts at most is left open, as CommandTime.                  *)
(***************************************************************************)
EXTENDS Batcher

CONSTANTS
  MaxWait,           \* BatcherConfig.MaxWait
  OperationTimeout,  \* BatcherConfig.OperationTimeout
  CommandTime        \* the longest that one Redis command can last

ASSUME DurationAssumption ==
  MaxWait \in Nat \ {0} /\ OperationTimeout \in Nat \ {0} /\ CommandTime \in Nat \ {0}

VARIABLES
  age,       \* per request: time since its job went onto the channel
  timerAge,  \* time since the MaxWait timer was armed
  flushAge,  \* time since the flush in progress began
  command,   \* the Redis command it is at, or "none"
  commandAge \* time since that command was begun

clockVars == <<age, timerAge, flushAge, command, commandAge>>

TimedInit ==
  /\ Init
  /\ age = [r \in Requests |-> 0]
  /\ timerAge = 0
  /\ flushAge = 0
  /\ command = "none"
  /\ commandAge = 0

Waiting == {r \in Requests : sub[r] = "waiting"}

(* Nobody can go on before time passes. *)
AllWait ==
  /\ MutexFree
  /\ \A r \in Waiting : result[r] = "none"
  /\ \/ pc = "apply" /\ commandAge < CommandTime
     \/ pc = "select" /\ queue = <<>> /\ (timer => timerAge < MaxWait)

Tick ==
  /\ AllWait
  /\ Waiting # {}
  /\ age' = [r \in Requests |-> IF r \in Waiting THEN age[r] + 1 ELSE age[r]]
  /\ timerAge' = IF timer THEN timerAge + 1 ELSE 0
  /\ flushAge' = IF pc = "apply" THEN flushAge + 1 ELSE 0
  /\ commandAge' = IF pc = "apply" THEN commandAge + 1 ELSE 0
  /\ UNCHANGED <<vars, command>>

(* Apply's way from EVALSHA, answered with NOSCRIPT, by SCRIPT LOAD to a     *)
(* second EVALSHA *)
NextOf == [evalsha |-> "load", load |-> "evalsha_again"]

(* The bug of a flush whose context has no deadline. *)
NextCommandUntimed ==
  /\ pc = "apply" /\ flushing \in wire
  /\ command \in DOMAIN NextOf
  /\ command' = NextOf[command]
  /\ commandAge' = 0
  /\ UNCHANGED <<vars, age, timerAge, flushAge>>

(* Begun only before the deadline of flush; a command that go-redis refuses  *)
(* fails the flush (FlushFailed).                                           *)
NextCommand ==
  /\ pc = "apply" /\ flushing \in wire
  /\ command \in DOMAIN NextOf
  /\ flushAge <= OperationTimeout
  /\ command' = NextOf[command]
  /\ commandAge' = 0
  /\ UNCHANGED <<vars, age, timerAge, flushAge>>

Step ==
  /\ \/ Start
     \/ \E r \in Requests : SubmitBegin(r) \/ SubmitSend(r) \/ SubmitResult(r)
     \/ Receive \/ Dequeued \/ FlushOk \/ FlushFailed
     \/ timerAge >= MaxWait /\ TimerFires
     \/ \E b \in wire : (b = flushing => command # "load") /\ RedisExecute(b)
  /\ UNCHANGED age
  /\ timerAge' = IF timer /\ timer' THEN timerAge ELSE 0
  /\ IF pc' = "apply" /\ flushing' = flushing
       THEN UNCHANGED <<flushAge, command, commandAge>>
       ELSE /\ flushAge' = 0 /\ commandAge' = 0
            /\ command' = IF pc' = "apply" THEN "evalsha" ELSE "none"

TimedNext == Tick \/ NextCommand \/ Step

TimedSpec == TimedInit /\ [][TimedNext]_<<vars, clockVars>>

-----------------------------------------------------------------------------
(* worstCaseAcknowledgementTime without the time to read the request *)
Budget == (QueueSize + 1) * (MaxWait + OperationTimeout)

(* The comment on worstCaseAcknowledgementTime: the budget "covers          *)
(* request-body reading plus one active batch and every queue position".    *)
AckWithinBudget == \A r \in Waiting : age[r] <= Budget

(* A flush lasts until the end of the last command begun before its deadline. *)
FlushTime == OperationTimeout + CommandTime

(* What the code does guarantee: when the channel is full the goroutine may *)
(* hold one batch in flush and another job in hand, so a job waits for at   *)
(* most QueueSize + 1 flushes before its own, and for one timer.            *)
AckWithinWorstCase ==
  \A r \in Waiting : age[r] <= (QueueSize + 2) * FlushTime + MaxWait
=============================================================================
