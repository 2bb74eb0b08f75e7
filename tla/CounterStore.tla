---------------------------- MODULE CounterStore ----------------------------
(***************************************************************************)
(* Store.Apply and the counter script, src/internal/redisstore/store.go.    *)
(*                                                                         *)
(* Several updaters (one Store each, used by one batcher goroutine) apply   *)
(* batches to the same Redis.  Apply sends EVALSHA; when Redis has lost the *)
(* script (a restart, SCRIPT FLUSH) it loads it and tries once more.  The   *)
(* script checks every key before it writes any.  A reply may be lost, and  *)
(* a command whose client has given up may still be executed.               *)
(***************************************************************************)
EXTENDS Naturals, Functions

CONSTANTS
  Calls,       \* the calls of Apply
  Owner,       \* Owner[c]: the Store that makes call c
  Batch,       \* Batch[c]: the increments of call c, a function from keys to deltas
  Keys,
  MaxInt64,    \* the largest counter, MAX_INT64 of the script
  Malformed,   \* a key of another type, or whose value is not a counter
  MaxRestarts  \* bound: how often Redis loses its script cache

ASSUME StoreAssumption ==
  /\ Owner \in [Calls -> Range(Owner)]
  /\ MaxInt64 \in Nat \ {0}
  /\ \A c \in Calls : DOMAIN Batch[c] \subseteq Keys /\ DOMAIN Batch[c] # {}
                      /\ Batch[c] \in [DOMAIN Batch[c] -> 1..MaxInt64]

VARIABLES
  sha,       \* per Store: Store.sha is set
  phase,     \* per call: the command Apply is waiting for, or what it returned
  reply,     \* per call: Redis's answer to that command
  wire,      \* commands Redis has not executed
  cached,    \* Redis has the script
  counters,  \* the keys in Redis
  restarts,
  before,    \* history: the counters at the start
  executed   \* history: how often the writes of each call were done

clientVars == <<sha, phase, reply>>
vars == <<clientVars, wire, cached, counters, restarts, before, executed>>

Running == {"load", "eval", "reload", "eval_again"}
Loading == {"load", "reload"}
NotExecuted == {"load_failed", "rejected", "unavailable"}

Init ==
  /\ sha \in [Range(Owner) -> BOOLEAN]
  /\ phase = [c \in Calls |-> "idle"]
  /\ reply = [c \in Calls |-> "none"]
  /\ wire = {}
  /\ cached \in BOOLEAN
  /\ counters \in [Keys -> {0, MaxInt64 - 1, Malformed}]
  /\ restarts = 0
  /\ before = counters
  /\ executed = [c \in Calls |-> 0]

-----------------------------------------------------------------------------
(* The client *)

Send(c, p) ==
  /\ phase' = [phase EXCEPT ![c] = p]
  /\ reply' = [reply EXCEPT ![c] = "none"]
  /\ wire' = wire \cup {[call |-> c, phase |-> p]}

Return(c, outcome) ==
  /\ phase' = [phase EXCEPT ![c] = outcome]
  /\ UNCHANGED <<reply, wire>>

Begin(c) ==
  /\ phase[c] = "idle"
  /\ \A d \in Calls : Owner[d] = Owner[c] => phase[d] \notin Running
  /\ Send(c, IF sha[Owner[c]] THEN "eval" ELSE "load")
  /\ UNCHANGED <<sha, cached, counters, restarts, before, executed>>

(* ScriptLoad was answered. *)
Loaded(c) ==
  /\ phase[c] \in Loading
  /\ \/ /\ reply[c] = "ok"
        /\ sha' = [sha EXCEPT ![Owner[c]] = TRUE]
        /\ Send(c, IF phase[c] = "load" THEN "eval" ELSE "eval_again")
     \/ /\ reply[c] = "error"
        /\ Return(c, "load_failed")
        /\ UNCHANGED sha
  /\ UNCHANGED <<cached, counters, restarts, before, executed>>

(* The bug of MaxRetries left at the default: the client sends the command  *)
(* again when the reply does not come.                                      *)
GiveUpRetrying(c) ==
  /\ phase[c] \in Running
  /\ IF phase[c] = "eval" THEN Send(c, "eval_again")
     ELSE Return(c, IF phase[c] \in Loading THEN "load_failed" ELSE "ambiguous")
  /\ UNCHANGED <<sha, cached, counters, restarts, before, executed>>

(* The bug of taking a timeout for a batch that was refused. *)
GiveUpDefinite(c) ==
  /\ phase[c] \in Running
  /\ Return(c, IF phase[c] \in Loading THEN "load_failed" ELSE "rejected")
  /\ UNCHANGED <<sha, cached, counters, restarts, before, executed>>

(* The deadline passes or the connection breaks.  MaxRetries is -1: the     *)
(* command is not sent again.                                               *)
GiveUp(c) ==
  /\ phase[c] \in Running
  /\ Return(c, IF phase[c] \in Loading THEN "load_failed" ELSE "ambiguous")
  /\ UNCHANGED <<sha, cached, counters, restarts, before, executed>>

(* EvalSHA was answered. *)
Evaluated(c) ==
  /\ phase[c] \in Running \ Loading
  /\ \/ reply[c] = "ok" /\ Return(c, "ok")
     \/ reply[c] = "validation" /\ Return(c, "rejected")
     \/ reply[c] = "error" /\ Return(c, "ambiguous")
     \/ reply[c] = "noscript" /\ phase[c] = "eval" /\ Send(c, "reload")
     \/ reply[c] = "noscript" /\ phase[c] = "eval_again" /\ Return(c, "unavailable")
  /\ UNCHANGED <<sha, cached, counters, restarts, before, executed>>

-----------------------------------------------------------------------------
(* Redis *)

(* The reply reaches the call if it still waits for this command. *)
Answer(m, value) ==
  /\ wire' = wire \ {m}
  /\ reply' = IF phase[m.call] = m.phase THEN [reply EXCEPT ![m.call] = value] ELSE reply
  /\ UNCHANGED <<sha, phase, restarts, before>>

ScriptLoad(m) ==
  /\ m.phase \in Loading
  /\ cached' = TRUE
  /\ Answer(m, "ok")
  /\ UNCHANGED <<counters, executed>>

WriteCounters(c) ==
  /\ counters' = [k \in Keys |->
       IF k \in DOMAIN Batch[c] THEN counters[k] + Batch[c][k] ELSE counters[k]]
  /\ executed' = [executed EXCEPT ![c] = @ + 1]

(* The bug of an addition that may overflow. *)
AcceptableUnchecked(k, delta) == counters[k] # Malformed

(* The first loop of the script *)
Acceptable(k, delta) ==
  counters[k] # Malformed /\ counters[k] + delta <= MaxInt64

AcceptedKeys(c) == {k \in DOMAIN Batch[c] : Acceptable(k, Batch[c][k])}

(* The bug of writing each key as soon as it has been checked. *)
RunScriptPartially(m) ==
  /\ m.phase \notin Loading /\ cached
  /\ counters' = [k \in Keys |->
       IF k \in AcceptedKeys(m.call) THEN counters[k] + Batch[m.call][k] ELSE counters[k]]
  /\ \/ /\ AcceptedKeys(m.call) = DOMAIN Batch[m.call]
        /\ executed' = [executed EXCEPT ![m.call] = @ + 1]
        /\ Answer(m, "ok")
     \/ /\ AcceptedKeys(m.call) # DOMAIN Batch[m.call]
        /\ UNCHANGED executed
        /\ Answer(m, "validation")
  /\ UNCHANGED cached

RunScript(m) ==
  /\ m.phase \notin Loading /\ cached
  /\ \/ /\ AcceptedKeys(m.call) = DOMAIN Batch[m.call]
        /\ WriteCounters(m.call)
        /\ Answer(m, "ok")
     \/ /\ AcceptedKeys(m.call) # DOMAIN Batch[m.call]
        /\ UNCHANGED <<counters, executed>>
        /\ Answer(m, "validation")
  /\ UNCHANGED cached

NoScript(m) ==
  /\ m.phase \notin Loading /\ ~cached
  /\ Answer(m, "noscript")
  /\ UNCHANGED <<cached, counters, executed>>

(* Any other error reply: LOADING, READONLY, OOM ... *)
ErrorReply(m) ==
  /\ Answer(m, "error")
  /\ UNCHANGED <<cached, counters, executed>>

(* Redis restarts with its data: the script cache and the connections go.   *)
Restart ==
  /\ restarts < MaxRestarts
  /\ restarts' = restarts + 1
  /\ cached' = FALSE
  /\ wire' = {}
  /\ UNCHANGED <<clientVars, counters, before, executed>>

Next ==
  \/ \E c \in Calls : Begin(c) \/ Loaded(c) \/ Evaluated(c) \/ GiveUp(c)
  \/ \E m \in wire : ScriptLoad(m) \/ RunScript(m) \/ NoScript(m) \/ ErrorReply(m)
  \/ Restart

Spec == Init /\ [][Next]_vars

-----------------------------------------------------------------------------
(* Properties *)

(* Variables have their types; a counter never passes MAX_INT64.            *)
TypeOK ==
  /\ sha \in [Range(Owner) -> BOOLEAN]
  /\ phase \in [Calls -> Running \cup NotExecuted \cup {"idle", "ok", "ambiguous"}]
  /\ reply \in [Calls -> {"none", "ok", "noscript", "validation", "error"}]
  /\ wire \subseteq [call : Calls, phase : Running]
  /\ cached \in BOOLEAN
  /\ counters \in [Keys -> 0..MaxInt64 \cup {Malformed}]
  /\ executed \in [Calls -> Nat]

(* Apply returns nil only for a batch that was written, and no reload,      *)
(* restart or lost reply makes Redis write one batch twice.                 *)
ExecutedOnce ==
  \A c \in Calls : executed[c] <= 1 /\ (phase[c] = "ok" => executed[c] = 1)

(* An error that is not an AmbiguousError means the batch was not written   *)
(* and never will be: no command that could write it is still on its way.   *)
DefiniteErrorNotExecuted ==
  \A c \in Calls : phase[c] \in NotExecuted =>
    executed[c] = 0 /\ \A m \in wire : m.call = c => m.phase \in Loading

(* Redis holds exactly the batches it wrote, each as a whole: a batch with  *)
(* one bad key leaves no trace in the others.                               *)
AllOrNothing ==
  \A k \in Keys :
    counters[k] = IF before[k] = Malformed THEN Malformed
                  ELSE before[k] + SumFunction([c \in {d \in Calls : k \in DOMAIN Batch[d]}
                                                  |-> executed[c] * Batch[c][k]])
=============================================================================
