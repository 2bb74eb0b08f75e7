------------------------- MODULE CounterStoreProofs -------------------------
(***************************************************************************)
(* A batch is written at most once, and never after an error that is not     *)
(* called ambiguous, for any number of updaters, calls, keys and restarts,   *)
(* whatever is lost or late; and it is written as a whole, so that each      *)
(* counter is a sum of deltas.                                              *)
(***************************************************************************)
EXTENDS CounterStore, SetLemmas

Outcomes == {"ok", "ambiguous"} \cup NotExecuted
Phases == {"idle"} \cup Running \cup Outcomes
Replies == {"none", "ok", "noscript", "validation", "error"}

-----------------------------------------------------------------------------
(* The counters stay within what the script accepts. *)
LEMMA WriteInRange ==
  ASSUME TypeOK, NEW c \in Calls, AcceptedKeys(c) = DOMAIN Batch[c], WriteCounters(c)
  PROVE  /\ counters' \in [Keys -> 0..MaxInt64 \cup {Malformed}]
         /\ executed' \in [Calls -> Nat]
<1>1. ASSUME NEW k \in DOMAIN Batch[c]
      PROVE  counters[k] + Batch[c][k] \in 0..MaxInt64
  <2>1. Acceptable(k, Batch[c][k])
    BY DEF AcceptedKeys
  <2>2. counters[k] \in 0..MaxInt64
    BY <2>1, StoreAssumption DEF Acceptable, TypeOK
  <2>3. Batch[c][k] \in 1..MaxInt64
    BY StoreAssumption
  <2> QED
    BY <2>1, <2>2, <2>3, StoreAssumption DEF Acceptable
<1> QED
  BY <1>1 DEF WriteCounters, TypeOK

(* Every step of a client, of Redis and of a restart keeps the types.        *)
LEMMA TypeStep ==
  ASSUME TypeOK, [Next]_vars
  PROVE  TypeOK'
<1> USE DEF clientVars, Running, Loading, NotExecuted
<1>1. ASSUME NEW c \in Calls, NEW p \in Running, Send(c, p)
      PROVE  /\ phase' \in [Calls -> Phases] /\ reply' \in [Calls -> Replies]
             /\ wire' \subseteq [call : Calls, phase : Running]
  BY <1>1 DEF Send, TypeOK, Phases, Replies, Outcomes
<1>2. ASSUME NEW c \in Calls, NEW p \in Outcomes, Return(c, p)
      PROVE  /\ phase' \in [Calls -> Phases] /\ reply' \in [Calls -> Replies]
             /\ wire' \subseteq [call : Calls, phase : Running]
  BY <1>2 DEF Return, TypeOK, Phases, Replies, Outcomes
<1>3. ASSUME phase' \in [Calls -> Phases], reply' \in [Calls -> Replies],
             wire' \subseteq [call : Calls, phase : Running],
             sha' \in [Range(Owner) -> BOOLEAN],
             UNCHANGED <<cached, counters, executed>>
      PROVE  TypeOK'
  BY <1>3 DEF TypeOK, Phases, Replies, Outcomes
<1>4. ASSUME NEW c \in Calls, Begin(c)
      PROVE  TypeOK'
  <2>1. PICK p \in Running : Send(c, p)
    BY <1>4 DEF Begin
  <2> QED
    BY <1>1, <1>3, <1>4, <2>1 DEF Begin, TypeOK
<1>5. ASSUME NEW c \in Calls, Loaded(c)
      PROVE  TypeOK'
  <2>1. sha' \in [Range(Owner) -> BOOLEAN]
    BY <1>5, StoreAssumption DEF Loaded, TypeOK
  <2>2. (\E p \in Running : Send(c, p)) \/ (\E p \in Outcomes : Return(c, p))
    BY <1>5 DEF Loaded, Outcomes
  <2> QED
    BY <1>1, <1>2, <1>3, <1>5, <2>1, <2>2 DEF Loaded
<1>6. ASSUME NEW c \in Calls, Evaluated(c)
      PROVE  TypeOK'
  <2>1. (\E p \in Running : Send(c, p)) \/ (\E p \in Outcomes : Return(c, p))
    BY <1>6 DEF Evaluated, Outcomes
  <2> QED
    BY <1>1, <1>2, <1>3, <1>6, <2>1 DEF Evaluated, TypeOK
<1>7. ASSUME NEW c \in Calls, GiveUp(c)
      PROVE  TypeOK'
  <2>1. \E p \in Outcomes : Return(c, p)
    BY <1>7 DEF GiveUp, Outcomes
  <2> QED
    BY <1>2, <1>3, <1>7, <2>1 DEF GiveUp, TypeOK
<1>8. ASSUME NEW m \in wire, NEW value \in Replies, Answer(m, value)
      PROVE  /\ phase' = phase /\ sha' = sha /\ reply' \in [Calls -> Replies]
             /\ wire' \subseteq [call : Calls, phase : Running]
  BY <1>8 DEF Answer, TypeOK, Replies
<1>9. ASSUME NEW m \in wire, ScriptLoad(m) \/ NoScript(m) \/ ErrorReply(m)
      PROVE  TypeOK'
  <2>1. PICK value \in Replies : Answer(m, value)
    BY <1>9 DEF ScriptLoad, NoScript, ErrorReply, Replies
  <2>2. cached' \in BOOLEAN /\ UNCHANGED <<counters, executed>>
    BY <1>9 DEF ScriptLoad, NoScript, ErrorReply, TypeOK
  <2> QED
    BY <1>8, <2>1, <2>2 DEF TypeOK, Replies
<1>10. ASSUME NEW m \in wire, RunScript(m)
       PROVE  TypeOK'
  <2>1. PICK value \in Replies : Answer(m, value)
    BY <1>10 DEF RunScript, Replies
  <2>2. cached' = cached
    BY <1>10 DEF RunScript
  <2>3. m.call \in Calls
    BY DEF TypeOK
  <2>4. /\ counters' \in [Keys -> 0..MaxInt64 \cup {Malformed}]
        /\ executed' \in [Calls -> Nat]
    BY <1>10, <2>3, WriteInRange DEF RunScript, TypeOK
  <2> QED
    BY <1>8, <2>1, <2>2, <2>4 DEF TypeOK, Replies
<1>11. CASE Restart
  BY <1>11 DEF Restart, TypeOK
<1>12. CASE UNCHANGED vars
  BY <1>12 DEF vars, TypeOK
<1> QED
  BY <1>4, <1>5, <1>6, <1>7, <1>9, <1>10, <1>11, <1>12 DEF Next

(* Variables keep their types, and no counter passes MAX_INT64.              *)
THEOREM StoreTypeCorrect == Spec => []TypeOK
<1>1. Init => TypeOK
  BY StoreAssumption DEF Init, TypeOK
<1>2. TypeOK /\ [Next]_vars => TypeOK'
  BY TypeStep
<1> QED
  BY <1>1, <1>2, PTL DEF Spec

-----------------------------------------------------------------------------
(* A command that can write the batch of c *)
Evals(c) == {m \in wire : m.call = c /\ m.phase \notin Loading}

(* Why nothing is written twice: a call has one such command on its way at   *)
(* most, and none once its batch is written; a call that still waits for it  *)
(* has no answer yet, and one that has the answer knows what was done.       *)
Once(c) ==
  /\ executed[c] \in {0, 1}
  /\ Evals(c) # {} => executed[c] = 0 /\ phase[c] \in {"eval", "eval_again", "ambiguous"}
  /\ \A m, n \in Evals(c) : m = n
  /\ phase[c] \in {"eval", "eval_again"} =>
       /\ executed[c] = 1 <=> reply[c] = "ok"
       /\ \A m \in Evals(c) : m.phase = phase[c] /\ reply[c] = "none"
  /\ phase[c] = "ok" => executed[c] = 1
  /\ phase[c] \in {"idle"} \cup Loading \cup NotExecuted => executed[c] = 0

OnceInv == \A c \in Calls : Once(c)

(* What one call does leaves the others alone, and so does what Redis does   *)
(* for another call.                                                        *)
LEMMA OthersOnce ==
  ASSUME OnceInv, NEW c \in Calls, executed'[c] = executed[c], phase'[c] = phase[c],
         reply'[c] = reply[c], Evals(c)' \subseteq Evals(c)
  PROVE  Once(c)'
  BY DEF OnceInv, Once

(* Only a command that meets its script writes, and it is gone then.         *)
LEMMA OnceStep ==
  ASSUME TypeOK, OnceInv, [Next]_vars
  PROVE  OnceInv'
<1> USE DEF clientVars, Running, Loading, NotExecuted
<1>1. ASSUME NEW c \in Calls, Begin(c) \/ Loaded(c) \/ Evaluated(c) \/ GiveUp(c)
      PROVE  OnceInv'
  <2>1. /\ executed' = executed
        /\ phase'[c] \in Phases /\ phase' = [phase EXCEPT ![c] = phase'[c]]
        /\ \/ wire' = wire /\ reply' = reply
           \/ /\ wire' = wire \cup {[call |-> c, phase |-> phase'[c]]}
              /\ reply' = [reply EXCEPT ![c] = "none"]
    BY <1>1 DEF Begin, Loaded, Evaluated, GiveUp, Send, Return, TypeOK, Phases, Outcomes
  <2>2. ASSUME NEW d \in Calls, d # c
        PROVE  Once(d)'
    <3>1. executed'[d] = executed[d] /\ phase'[d] = phase[d] /\ reply'[d] = reply[d]
      BY <2>1, <2>2 DEF TypeOK
    <3>2. Evals(d)' \subseteq Evals(d)
      BY <2>1, <2>2 DEF Evals
    <3> QED
      BY <3>1, <3>2, OthersOnce
  <2>3. Once(c)
    BY DEF OnceInv
  <2>4. ASSUME Begin(c) PROVE Once(c)'
    <3>1. phase[c] = "idle" /\ phase'[c] \in {"load", "eval"} /\ reply'[c] = "none"
          /\ wire' = wire \cup {[call |-> c, phase |-> phase'[c]]}
      BY <2>4 DEF Begin, Send, TypeOK
    <3>2. Evals(c)' \subseteq {[call |-> c, phase |-> phase'[c]]}
          /\ (phase'[c] = "load" => Evals(c)' = {})
      BY <2>3, <3>1 DEF Once, Evals
    <3> QED
      BY <2>1, <2>3, <3>1, <3>2 DEF Once
  <2>5. ASSUME Loaded(c) PROVE Once(c)'
    <3>1. phase[c] \in Loading
      BY <2>5 DEF Loaded
    <3>2. Evals(c) = {} /\ executed[c] = 0
      BY <2>3, <3>1 DEF Once
    <3>3. CASE phase'[c] = "load_failed" /\ wire' = wire
      <4>1. Evals(c)' = {}
        BY <3>2, <3>3 DEF Evals
      <4> QED
        BY <2>1, <3>2, <3>3, <4>1 DEF Once
    <3>4. CASE /\ phase'[c] \in {"eval", "eval_again"} /\ reply'[c] = "none"
               /\ wire' = wire \cup {[call |-> c, phase |-> phase'[c]]}
      <4>1. Evals(c)' \subseteq {[call |-> c, phase |-> phase'[c]]}
        BY <3>2, <3>4 DEF Evals
      <4> QED
        BY <2>1, <3>2, <3>4, <4>1 DEF Once
    <3> QED
      BY <2>5, <3>3, <3>4 DEF Loaded, Send, Return, TypeOK
  <2>6. ASSUME Evaluated(c) PROVE Once(c)'
    <3>1. phase[c] \in {"eval", "eval_again"} /\ reply[c] # "none"
      BY <2>6 DEF Evaluated
    <3>2. Evals(c) = {} /\ (executed[c] = 1 <=> reply[c] = "ok") /\ executed[c] \in {0, 1}
      BY <2>3, <3>1 DEF Once
    <3>3. /\ Evals(c)' = {}
          /\ \/ reply[c] = "ok" /\ phase'[c] = "ok"
             \/ reply[c] # "ok" /\ phase'[c] \in {"rejected", "ambiguous", "reload", "unavailable"}
      BY <2>6, <3>2 DEF Evaluated, Send, Return, Evals, TypeOK
    <3> QED
      BY <2>1, <3>2, <3>3 DEF Once
  <2>7. ASSUME GiveUp(c) PROVE Once(c)'
    <3>1. /\ wire' = wire /\ phase[c] \in Running
          /\ phase'[c] = IF phase[c] \in Loading THEN "load_failed" ELSE "ambiguous"
      BY <2>7 DEF GiveUp, Return, TypeOK
    <3>2. Evals(c)' = Evals(c)
      BY <3>1 DEF Evals
    <3> QED
      BY <2>1, <2>3, <3>1, <3>2 DEF Once
  <2> QED
    BY <1>1, <2>2, <2>4, <2>5, <2>6, <2>7 DEF OnceInv
<1>2. ASSUME NEW m \in wire, ScriptLoad(m) \/ RunScript(m) \/ NoScript(m) \/ ErrorReply(m)
      PROVE  OnceInv'
  <2> DEFINE c == m.call
  <2>1. c \in Calls /\ Once(c)
    BY DEF TypeOK, OnceInv
  <2>2. PICK value \in Replies :
          /\ Answer(m, value)
          /\ executed' = IF value = "ok" /\ m.phase \notin Loading
                         THEN [executed EXCEPT ![c] = @ + 1] ELSE executed
    BY <1>2 DEF ScriptLoad, RunScript, WriteCounters, NoScript, ErrorReply, Replies
  <2>3. /\ wire' = wire \ {m} /\ phase' = phase
        /\ reply' = IF phase[c] = m.phase THEN [reply EXCEPT ![c] = value] ELSE reply
    BY <2>2 DEF Answer
  <2>4. \A d \in Calls : Evals(d)' \subseteq Evals(d)
    BY <2>3 DEF Evals
  <2>5. ASSUME NEW d \in Calls, d # c
        PROVE  Once(d)'
    <3>1. executed'[d] = executed[d] /\ reply'[d] = reply[d]
      BY <2>1, <2>2, <2>3, <2>5 DEF TypeOK
    <3> QED
      BY <2>3, <2>4, <3>1, OthersOnce
  <2>6. ASSUME m.phase \in Loading PROVE Once(c)'
    <3>1. executed' = executed /\ Evals(c)' \subseteq Evals(c)
      BY <2>1, <2>2, <2>4, <2>6
    <3>2. phase[c] \in {"eval", "eval_again"} => reply' = reply
      BY <2>3, <2>6
    <3> HIDE DEF c
    <3> QED
      BY <2>1, <2>3, <3>1, <3>2 DEF Once
  <2>7. ASSUME m.phase \notin Loading PROVE Once(c)'
    <3>1. m \in Evals(c)
      BY <2>7 DEF Evals
    <3>2. Evals(c)' = {}
      BY <2>1, <2>3, <3>1 DEF Once, Evals
    <3>3. executed[c] = 0 /\ (phase[c] \in {"eval", "eval_again"} => phase[c] = m.phase)
          /\ phase[c] \in {"eval", "eval_again", "ambiguous"}
      BY <2>1, <3>1 DEF Once
    <3>4. phase[c] = m.phase => reply'[c] = value
      BY <2>1, <2>3 DEF TypeOK
    <3>5. executed'[c] = IF value = "ok" THEN 1 ELSE 0
      BY <2>1, <2>2, <2>7, <3>3 DEF TypeOK
    <3> HIDE DEF c
    <3> QED
      BY <2>3, <3>2, <3>3, <3>4, <3>5 DEF Once
  <2> HIDE DEF c
  <2> QED
    BY <2>5, <2>6, <2>7 DEF OnceInv
<1>3. CASE Restart
  <2>1. \A c \in Calls : Evals(c)' = {}
    BY <1>3 DEF Restart, Evals
  <2> QED
    BY <1>3, <2>1 DEF Restart, OnceInv, Once
<1>4. CASE UNCHANGED vars
  BY <1>4 DEF vars, OnceInv, Once, Evals
<1> QED
  BY <1>1, <1>2, <1>3, <1>4 DEF Next

(* The invariant holds from the first call on. *)
LEMMA OnceInvariance == Spec => [](TypeOK /\ OnceInv)
<1>1. Init => OnceInv
  BY DEF Init, OnceInv, Once, Evals, Loading, NotExecuted
<1>2. TypeOK /\ OnceInv /\ [Next]_vars => OnceInv'
  BY OnceStep
<1> QED
  BY <1>1, <1>2, StoreTypeCorrect, PTL DEF Spec

(* Apply returns nil only for a batch that was written, and nothing makes    *)
(* Redis write a batch twice: not the second EVALSHA of Apply after a        *)
(* restart, and not a reply that was lost.                                  *)
THEOREM WrittenOnce == Spec => []ExecutedOnce
<1>1. TypeOK /\ OnceInv => ExecutedOnce
  BY DEF OnceInv, Once, ExecutedOnce
<1> QED
  BY <1>1, OnceInvariance, PTL

(* Behind an error that is not an AmbiguousError the batch is not written,   *)
(* and no command is on its way that could still write it.                  *)
THEOREM DefiniteErrors == Spec => []DefiniteErrorNotExecuted
<1>1. TypeOK /\ OnceInv => DefiniteErrorNotExecuted
  BY DEF OnceInv, Once, Evals, DefiniteErrorNotExecuted, NotExecuted
<1> QED
  BY <1>1, OnceInvariance, PTL
-----------------------------------------------------------------------------
(* The calls with key k in their batch, and what Redis wrote of it for each  *)
Writers(k) == {d \in Calls : k \in DOMAIN Batch[d]}
Written(k) == [c \in Writers(k) |-> executed[c] * Batch[c][k]]

(* What was there at the start is a counter or malformed.                    *)
BeforeTyped == before \in [Keys -> Nat \cup {Malformed}]

AdditionInv == BeforeTyped /\ AllOrNothing

(* The counters and what was written stay apart from the clients' business.  *)
LEMMA AdditionKept ==
  ASSUME AdditionInv, UNCHANGED <<before, counters, executed>>
  PROVE  AdditionInv'
  BY DEF AdditionInv, BeforeTyped, AllOrNothing

(* One more execution of a call adds its delta once. *)
LEMMA OnceMore ==
  ASSUME NEW n \in Nat, NEW d \in Nat
  PROVE  (n + 1) * d = n * d + d
  OBVIOUS

(* The script writes all keys of a batch or none: to each counter the delta  *)
(* of the batch is added, and none of these is malformed.                    *)
LEMMA WriteAdds ==
  ASSUME IsFiniteSet(Calls), TypeOK, TypeOK', AdditionInv, NEW c \in Calls,
         AcceptedKeys(c) = DOMAIN Batch[c], WriteCounters(c), before' = before
  PROVE  AdditionInv'
<1> SUFFICES ASSUME NEW k \in Keys
             PROVE  counters'[k] = IF before[k] = Malformed THEN Malformed
                                   ELSE before[k] + SumFunction(Written(k)')
  BY DEF AdditionInv, BeforeTyped, AllOrNothing, Written, Writers
<1>1. IsFiniteSet(Writers(k)) /\ DOMAIN Written(k) = Writers(k)
      /\ DOMAIN (Written(k)') = Writers(k)
  BY FS_Subset DEF Writers, Written
<1>2. ASSUME NEW d \in Writers(k)
      PROVE  /\ executed[d] \in Nat /\ executed'[d] \in Nat /\ Batch[d][k] \in Nat
             /\ Written(k)[d] = executed[d] * Batch[d][k]
             /\ Written(k)'[d] = executed'[d] * Batch[d][k]
             /\ Written(k)[d] \in Nat /\ Written(k)'[d] \in Nat
  <2>1. executed[d] \in Nat /\ executed'[d] \in Nat /\ Batch[d][k] \in Nat
    BY StoreAssumption DEF TypeOK, Writers
  <2>2. /\ Written(k)[d] = executed[d] * Batch[d][k]
        /\ Written(k)'[d] = executed'[d] * Batch[d][k]
    BY DEF Written, Writers
  <2> QED
    BY <2>1, <2>2
<1>3. counters[k] = IF before[k] = Malformed THEN Malformed
                    ELSE before[k] + SumFunctionOnSet(Written(k), Writers(k))
  BY <1>1 DEF AdditionInv, AllOrNothing, Written, Writers, SumFunction
<1>4. CASE c \notin Writers(k)
  <2>1. counters'[k] = counters[k]
    BY <1>4 DEF WriteCounters, Writers
  <2>2. \A d \in Writers(k) : Written(k)[d] = Written(k)'[d]
    BY <1>4 DEF WriteCounters, Written, Writers, TypeOK
  <2> QED
    BY <1>1, <1>3, <2>1, <2>2, SumCongruent DEF SumFunction
<1>5. CASE c \in Writers(k)
  <2>1. counters'[k] = counters[k] + Batch[c][k] /\ counters[k] # Malformed
    BY <1>5 DEF WriteCounters, Writers, AcceptedKeys, Acceptable
  <2>2. \A d \in Writers(k) \ {c} : Written(k)[d] = Written(k)'[d]
    BY <1>2 DEF WriteCounters, Writers, TypeOK
  <2>3. SumFunctionOnSet(Written(k)', Writers(k)) + Written(k)[c]
          = SumFunctionOnSet(Written(k), Writers(k)) + Written(k)'[c]
    <3> DEFINE f == Written(k)
               g == Written(k)'
    <3>1. \A d \in Writers(k) : f[d] \in Nat /\ g[d] \in Nat
      BY <1>2
    <3>2. \A d \in Writers(k) \ {c} : f[d] = g[d]
      BY <2>2
    <3> HIDE DEF f, g
    <3>3. SumFunctionOnSet(g, Writers(k)) + f[c] = SumFunctionOnSet(f, Writers(k)) + g[c]
      BY <1>1, <1>5, <3>1, <3>2, SumChange
    <3> QED
      BY <3>3 DEF f, g
  <2>4. Written(k)'[c] = Written(k)[c] + Batch[c][k]
    <3>1. executed'[c] = executed[c] + 1
      BY DEF WriteCounters, TypeOK
    <3> QED
      BY <1>2, <1>5, <3>1, OnceMore
  <2>5. /\ SumFunctionOnSet(Written(k), Writers(k)) \in Nat
        /\ SumFunctionOnSet(Written(k)', Writers(k)) \in Nat
    BY <1>1, <1>2, SumType
  <2>6. before[k] # Malformed /\ before[k] \in Nat
    BY <1>3, <2>1 DEF AdditionInv, BeforeTyped
  <2>7. Batch[c][k] \in Nat /\ Written(k)[c] \in Nat
    BY <1>2, <1>5
  <2> QED
    BY <1>1, <1>3, <2>1, <2>3, <2>4, <2>5, <2>6, <2>7 DEF SumFunction
<1> QED
  BY <1>4, <1>5

(* Only the script writes; a batch that it refuses leaves everything alone.  *)
LEMMA AdditionStep ==
  ASSUME IsFiniteSet(Calls), TypeOK, TypeOK', AdditionInv, [Next]_vars
  PROVE  AdditionInv'
<1>1. ASSUME NEW c \in Calls, Begin(c) \/ Loaded(c) \/ Evaluated(c) \/ GiveUp(c)
      PROVE  AdditionInv'
  BY <1>1, AdditionKept DEF Begin, Loaded, Evaluated, GiveUp
<1>2. ASSUME NEW m \in wire, ScriptLoad(m) \/ NoScript(m) \/ ErrorReply(m)
      PROVE  AdditionInv'
  BY <1>2, AdditionKept DEF ScriptLoad, NoScript, ErrorReply, Answer
<1>3. ASSUME NEW m \in wire, RunScript(m)
      PROVE  AdditionInv'
  <2>1. PICK c \in Calls : c = m.call
    BY DEF TypeOK
  <2>2. before' = before
    BY <1>3 DEF RunScript, Answer
  <2>3. CASE AcceptedKeys(c) = DOMAIN Batch[c] /\ WriteCounters(c)
    BY <2>2, <2>3, WriteAdds
  <2>4. CASE UNCHANGED <<counters, executed>>
    BY <2>2, <2>4, AdditionKept
  <2> QED
    BY <1>3, <2>1, <2>3, <2>4 DEF RunScript
<1>4. CASE Restart \/ UNCHANGED vars
  BY <1>4, AdditionKept DEF Restart, vars
<1> QED
  BY <1>1, <1>2, <1>3, <1>4 DEF Next

(* At the start nothing has been written. *)
LEMMA AdditionInit ==
  ASSUME IsFiniteSet(Calls), Init
  PROVE  AdditionInv
<1>1. BeforeTyped
  BY StoreAssumption DEF Init, BeforeTyped
<1>2. ASSUME NEW k \in Keys
      PROVE  SumFunction(Written(k)) = 0
  <2>1. \A c \in Writers(k) : Batch[c][k] \in Nat
    BY StoreAssumption DEF Writers
  <2>2. \A c \in Writers(k) : Written(k)[c] = 0
    BY <2>1 DEF Written, Writers, Init
  <2>3. IsFiniteSet(Writers(k)) /\ DOMAIN Written(k) = Writers(k)
    BY FS_Subset DEF Writers, Written
  <2> QED
    BY <2>2, <2>3, SumOfZeros DEF SumFunction
<1>3. ASSUME NEW k \in Keys
      PROVE  counters[k] = IF before[k] = Malformed THEN Malformed
                           ELSE before[k] + SumFunction(Written(k))
  BY <1>1, <1>2, <1>3 DEF Init, BeforeTyped
<1>4. AllOrNothing
  BY <1>3 DEF AllOrNothing, Written, Writers
<1> QED
  BY <1>1, <1>4 DEF AdditionInv

(* Each counter is what it was plus the deltas of the batches that Redis     *)
(* wrote, each written as a whole: the script checks every key before it     *)
(* writes one, and no call of Apply, retry or late command does otherwise.   *)
(* The sum is over the calls of a run, of which there are finitely many.     *)
THEOREM BatchesWhole ==
  ASSUME IsFiniteSet(Calls)
  PROVE  Spec => []AllOrNothing
<1>1. Init => AdditionInv
  BY AdditionInit
<1>2. TypeOK /\ TypeOK' /\ AdditionInv /\ [Next]_vars => AdditionInv'
  BY AdditionStep
<1>3. AdditionInv => AllOrNothing
  BY DEF AdditionInv
<1> QED
  BY <1>1, <1>2, <1>3, StoreTypeCorrect, PTL DEF Spec
=============================================================================
