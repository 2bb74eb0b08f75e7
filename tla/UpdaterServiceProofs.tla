------------------------ MODULE UpdaterServiceProofs ------------------------
(***************************************************************************)
(* The updater as a service keeps what the batcher promises, shuts down in   *)
(* order, and counts each body that it acknowledges in full, for every set   *)
(* of bodies and all limits.                                                *)
(***************************************************************************)
EXTENDS UpdaterService, BatcherProofs

-----------------------------------------------------------------------------
(* runService and the handlers drive the batcher only through its           *)
(* operations, in an order that the batcher's own specification allows:      *)
(* whatever is proved of the batcher holds in the service.                  *)
LEMMA ServiceStepIsBatcherStep ==
  ASSUME [ServiceNext]_<<vars, serviceVars>>
  PROVE  [Next]_vars
<1>1. CASE StartService
  BY <1>1 DEF StartService, Next
<1>2. ASSUME NEW r \in Requests, HandlerBegins(r) \/ Reject(r) \/ HandlerSubmits(r)
      PROVE  [Next]_vars
  BY <1>2 DEF HandlerBegins, Reject, HandlerSubmits, Next
<1>3. CASE BeginShutdown \/ ShutdownCompletes \/ ShutdownExpires \/ CloseRedis
  BY <1>3 DEF BeginShutdown, ShutdownCompletes, ShutdownExpires, CloseRedis
<1>4. CASE StopBatcher
  BY <1>4 DEF StopBatcher, Next
<1>5. CASE BatcherStep
  BY <1>5 DEF BatcherStep, Next
<1>6. CASE Exited \/ UNCHANGED <<vars, serviceVars>>
  BY <1>6 DEF Exited
<1> QED
  BY <1>1, <1>2, <1>3, <1>4, <1>5, <1>6 DEF ServiceNext

(* Every behaviour of the service is one of the batcher.                     *)
THEOREM ServiceImplementsBatcher == ServiceSpec => Spec
<1>1. ServiceInit => Init
  BY DEF ServiceInit
<1>2. [ServiceNext]_<<vars, serviceVars>> => [Next]_vars
  BY ServiceStepIsBatcherStep
<1> QED
  BY <1>1, <1>2, PTL DEF ServiceSpec, Spec

-----------------------------------------------------------------------------
(* The order of a shutdown.                                                 *)

(* Where the batcher's Stop is in each phase of runService.                  *)
PhaseShape ==
  /\ service \in {"starting", "serving", "shutdown", "stopping", "returned"}
  /\ listening => service = "serving"
  /\ service = "starting" => begun = {}
  /\ service \in {"serving", "shutdown"} => accepting
  /\ service \in {"starting", "serving", "shutdown"} => stopper = "idle" /\ ~redisClosed
  /\ redisClosed => stopper \in {"returned", "late"}

(* When Shutdown has returned nil no handler runs, so none meets a batcher   *)
(* that was stopped.                                                        *)
NobodyLeft ==
  ~overdue =>
    /\ service \in {"stopping", "returned"} => Active = {}
    /\ \A r \in Requests : sub[r] # "not_running"

(* Every step of the service keeps the phases and the batcher in step.       *)
LEMMA PhaseStep ==
  ASSUME PhaseShape, [ServiceNext]_<<vars, serviceVars>>
  PROVE  PhaseShape'
<1> USE DEF PhaseShape, serviceVars
<1>1. CASE StartService
  BY <1>1 DEF StartService, Start, stopVars
<1>2. ASSUME NEW r \in Requests, HandlerBegins(r) \/ Reject(r)
      PROVE  PhaseShape'
  BY <1>2 DEF HandlerBegins, Reject, vars, submitVars, stopVars
<1>3. ASSUME NEW r \in Requests, HandlerSubmits(r) PROVE PhaseShape'
  BY <1>3 DEF HandlerSubmits, Submit, SubmitBegin, SubmitSend, SubmitResult,
     SubmitCancel, Refuse, stopVars
<1>4. CASE BeginShutdown \/ ShutdownCompletes \/ ShutdownExpires
  BY <1>4 DEF BeginShutdown, ShutdownCompletes, ShutdownExpires, vars,
     submitVars, stopVars
<1>5. CASE StopBatcher
  BY <1>5 DEF StopBatcher, Stop, StopBegin, StopDone, StopDeadline, StopJoined
<1>6. CASE CloseRedis
  BY <1>6 DEF CloseRedis, vars, submitVars, stopVars
<1>7. CASE BatcherStep
  <2>1. UNCHANGED <<accepting, stopper>>
    <3>1. CASE RunStep
      BY <3>1 DEF RunStep, Receive, Dequeued, TimerFires, EnterDrain, EnterAbort,
         DrainEmpty, AbortEmpty, FlushOk, FlushFailed, FlushReturns,
         submitVars, stopVars
    <3>2. ASSUME NEW b \in wire, RedisExecute(b)
          PROVE  UNCHANGED <<accepting, stopper>>
      BY <3>2 DEF RedisExecute, submitVars, stopVars
    <3> QED
      BY <1>7, <3>1, <3>2 DEF BatcherStep
  <2> QED
    BY <1>7, <2>1 DEF BatcherStep
<1>8. CASE Exited \/ UNCHANGED <<vars, serviceVars>>
  BY <1>8 DEF Exited, vars, submitVars, stopVars
<1> QED
  BY <1>1, <1>2, <1>3, <1>4, <1>5, <1>6, <1>7, <1>8 DEF ServiceNext

(* Only a Submit changes what Submit knows.                                 *)
LEMMA NobodyLeftStep ==
  ASSUME TypeOK, PhaseShape, NobodyLeft, [ServiceNext]_<<vars, serviceVars>>
  PROVE  NobodyLeft'
<1> USE DEF NobodyLeft, serviceVars
<1>1. ASSUME sub' = sub, begun' = begun, rejected \subseteq rejected', overdue' = overdue,
             service' \in {"stopping", "returned"} =>
               service \in {"stopping", "returned"} \/ Active = {}
      PROVE  NobodyLeft'
  BY <1>1 DEF Active
<1>2. CASE StartService
  BY <1>1, <1>2 DEF StartService, Start
<1>3. ASSUME NEW r \in Requests, HandlerBegins(r) PROVE NobodyLeft'
  BY <1>3 DEF HandlerBegins, PhaseShape, vars, submitVars
<1>4. ASSUME NEW r \in Requests, Reject(r) PROVE NobodyLeft'
  BY <1>1, <1>4 DEF Reject, vars, submitVars
<1>5. ASSUME NEW r \in Requests, HandlerSubmits(r), ~overdue PROVE NobodyLeft'
  <2>1. sub[r] \in {"idle", "sending", "waiting"} /\ r \in Active
    BY <1>5 DEF HandlerSubmits, Submit, SubmitBegin, SubmitSend, SubmitResult,
       SubmitCancel, Active
  <2>2. service \in {"serving", "shutdown"}
    BY <1>5, <2>1 DEF PhaseShape, HandlerSubmits
  <2>3. accepting /\ service' = service
    BY <1>5, <2>2 DEF PhaseShape, HandlerSubmits
  <2>4. \A q \in Requests : sub'[q] # "not_running"
    <3>1. CASE SubmitBegin(r)
      BY <1>5, <2>3, <3>1 DEF SubmitBegin, Refuse, TypeOK
    <3>2. CASE SubmitSend(r) \/ SubmitCancel(r)
      BY <1>5, <3>2 DEF SubmitSend, SubmitCancel, TypeOK
    <3>3. CASE SubmitResult(r)
      BY <1>5, <3>3 DEF SubmitResult, TypeOK, Outcomes
    <3> QED
      BY <1>5, <3>1, <3>2, <3>3 DEF HandlerSubmits, Submit
  <2> QED
    BY <2>2, <2>3, <2>4
<1>6. CASE BeginShutdown \/ ShutdownCompletes
  BY <1>1, <1>6 DEF BeginShutdown, ShutdownCompletes, vars, submitVars
<1>7. CASE ShutdownExpires
  BY <1>7 DEF ShutdownExpires
<1>8. CASE StopBatcher
  BY <1>1, <1>8 DEF StopBatcher, Stop, StopBegin, StopDone, StopDeadline,
     StopJoined, submitVars
<1>9. CASE CloseRedis \/ Exited \/ UNCHANGED <<vars, serviceVars>>
  BY <1>1, <1>9 DEF CloseRedis, Exited, vars, submitVars
<1>10. CASE BatcherStep
  <2>1. sub' = sub
    <3>1. CASE RunStep
      BY <3>1 DEF RunStep, Receive, Dequeued, TimerFires, EnterDrain, EnterAbort,
         DrainEmpty, AbortEmpty, FlushOk, FlushFailed, FlushReturns, submitVars
    <3>2. ASSUME NEW b \in wire, RedisExecute(b) PROVE sub' = sub
      BY <3>2 DEF RedisExecute, submitVars
    <3> QED
      BY <1>10, <3>1, <3>2 DEF BatcherStep
  <2> QED
    BY <1>1, <1>10, <2>1 DEF BatcherStep
<1>11. overdue => overdue'
  BY DEF ServiceNext, StartService, HandlerBegins, Reject, HandlerSubmits,
     BeginShutdown, ShutdownCompletes, ShutdownExpires, StopBatcher, CloseRedis,
     BatcherStep, Exited
<1> QED
  BY <1>2, <1>3, <1>4, <1>5, <1>6, <1>7, <1>8, <1>9, <1>10, <1>11 DEF ServiceNext

(* The order of a shutdown is an invariant of the service. *)
LEMMA ShutdownOrder == ServiceSpec => [](PhaseShape /\ NobodyLeft)
<1>1. ServiceInit => PhaseShape /\ NobodyLeft
  BY DEF ServiceInit, Init, PhaseShape, NobodyLeft, Active
<1>2. TypeOK /\ PhaseShape /\ NobodyLeft /\ [ServiceNext]_<<vars, serviceVars>>
        => PhaseShape' /\ NobodyLeft'
  BY PhaseStep, NobodyLeftStep
<1> QED
  BY <1>1, <1>2, ServiceImplementsBatcher, TypeCorrect, PTL DEF ServiceSpec

(* The client is closed after the goroutine of the batcher has returned, so  *)
(* no batch is in flight on a closed client, whatever expired before.        *)
THEOREM ClientClosedLast == ServiceSpec => []ClientOutlivesBatcher
<1>1. Shape /\ PhaseShape => ClientOutlivesBatcher
  BY DEF Shape, StopShape, GoroutineShape, PhaseShape, ClientOutlivesBatcher
<1> QED
  BY <1>1, ServiceImplementsBatcher, ShapeInvariant, ShutdownOrder, PTL

-----------------------------------------------------------------------------
(* A shutdown within its deadlines. *)

(* A body is a sequence. *)
LEMMA BodyLength ==
  ASSUME NEW body \in Bodies
  PROVE  Len(body.tokens) \in Nat /\ DOMAIN body.tokens = 1..Len(body.tokens)
<1>1. PICK T : body.tokens \in Seq(T)
  BY DEF Bodies
<1> QED
  BY <1>1

(* A body has finitely many lines. *)
LEMMA UnitsFinite ==
  ASSUME NEW body \in Bodies
  PROVE  IsFiniteSet(Units(body))
<1> DEFINE n == Len(body.tokens)
           ends == {0, n + 1} \cup {i \in DOMAIN body.tokens : body.tokens[i] = NewLine}
<1>1. n \in Nat /\ DOMAIN body.tokens = 1..n
  BY BodyLength
<1>2. ends \subseteq 0..n + 1
  BY <1>1
<1>3. IsFiniteSet(ends)
  <2>1. IsFiniteSet(0..n + 1)
    BY <1>1, FS_Interval
  <2> QED
    BY <1>2, <2>1, FS_Subset
<1>4. Lines(body.tokens) \subseteq ends \X ends
  BY DEF Lines
<1>5. Units(body) = {<<0, n + 1>>} \/ Units(body) \subseteq Lines(body.tokens)
  BY DEF Units
<1> HIDE DEF ends, n
<1>6. IsFiniteSet(ends \X ends)
  BY <1>3, FS_Product
<1>7. Units(body) \subseteq Lines(body.tokens) => Units(body) \in SUBSET (ends \X ends)
  BY <1>4
<1> QED
  BY <1>5, <1>6, <1>7, FS_Subset, FS_Singleton

(* One that the decoder accepts has some, and no more than MaxRecords.       *)
LEMMA UnitsCount ==
  ASSUME NEW body \in Bodies, Decodes(body)
  PROVE  Units(body) # {} /\ Cardinality(Units(body)) <= MaxRecords
<1> DEFINE n == Len(body.tokens)
           ends == {0, n + 1} \cup {i \in DOMAIN body.tokens : body.tokens[i] = NewLine}
<1>1. CASE body.media = "json"
  <2>1. Units(body) = {<<0, n + 1>>}
    BY <1>1 DEF Units
  <2> QED
    <3> DEFINE p == <<0, n + 1>>
    <3>1. Units(body) = {p}
      BY <2>1
    <3> HIDE DEF p
    <3>2. Cardinality({p}) = 1
      BY FS_Singleton
    <3> QED
      BY <3>1, <3>2, MaxRecordsAssumption
<1>2. CASE body.media = "ndjson"
  <2>1. n \in Nat /\ n # 0 /\ DOMAIN body.tokens = 1..n
    <3>1. PICK T : body.tokens \in Seq(T)
      BY DEF Bodies
    <3>2. body.tokens # <<>>
      BY DEF Decodes
    <3> QED
      BY <3>1, <3>2, BodyLength
  <2>2. ends \subseteq 0..n + 1 /\ n + 1 \in ends \ {0} /\ 0 \in ends
    BY <2>1
  <2>3. IsFiniteSet(ends \ {0}) /\ ends \ {0} \subseteq Nat
    <3>1. IsFiniteSet(0..n + 1)
      BY <2>1, FS_Interval
    <3> QED
      BY <2>1, <2>2, <3>1, FS_Subset
  <2>4. \E e \in ends \ {0} : \A x \in ends \ {0} : e =< x
    <3> DEFINE S == ends \ {0}
    <3>1. IsFiniteSet(S) /\ S \subseteq Nat /\ S # {}
      BY <2>2, <2>3
    <3> HIDE DEF S
    <3>2. \E e \in S : \A x \in S : e =< x
      BY <3>1, Extremes
    <3> QED
      BY <3>2 DEF S
  <2>5. PICK e \in ends \ {0} : \A x \in ends \ {0} : e =< x
    BY <2>4
  <2>6. <<0, e>> \in Lines(body.tokens)
    <3>1. e \in Nat /\ 0 < e /\ \A x \in ends : x <= 0 \/ e <= x
      BY <2>2, <2>3, <2>5
    <3> QED
      BY <2>2, <3>1 DEF Lines
  <2>7. <<0, e>> \notin Unterminated(body.tokens)
    BY <2>1 DEF Unterminated
  <2> QED
    BY <1>2, <2>6, <2>7 DEF Units, Decodes
<1> QED
  BY <1>1, <1>2 DEF Decodes

(* What the handler makes of such a body: a positive delta for every key, as  *)
(* many keys as records at most, and deltas that add up to the records.       *)
LEMMA DecodedRequest ==
  ASSUME NEW body \in Bodies, Decodes(body),
         NEW request, request = IngestRequest(body)
  PROVE  /\ request.events \in 1..MaxRecords
         /\ DOMAIN request.increments # {}
         /\ Cardinality(DOMAIN request.increments) <= request.events
         /\ SumFunction(request.increments) = request.events
<1> DEFINE U == Units(body)
           key == [p \in U |-> KeyOf(body, p)]
           D == {KeyOf(body, p) : p \in U}
           f == [k \in D |-> Delta(body, k)]
<1>1. request.events = Cardinality(U) /\ request.increments = f
  BY DEF IngestRequest
<1>2. IsFiniteSet(U) /\ U # {} /\ Cardinality(U) <= MaxRecords
  BY UnitsFinite, UnitsCount
<1>3. Cardinality(U) \in Nat /\ Cardinality(U) # 0
  BY <1>2, FS_CardinalityType, FS_EmptySet
<1>4. IsFiniteSet(D) /\ Cardinality(D) <= Cardinality(U)
  <2>1. key \in Surjection(U, D)
    BY DEF Surjection
  <2> HIDE DEF U, D, key
  <2> QED
    BY <1>2, <2>1, FS_Surjection
<1>5. D # {}
  BY <1>2
<1>6. f = [k \in D |-> Cardinality({p \in U : key[p] = k})]
  <2>1. \A k \in D : {p \in U : KeyOf(body, p) = k} = {p \in U : key[p] = k}
    OBVIOUS
  <2> QED
    BY <2>1 DEF Delta
<1>7. \A p \in U : key[p] \in D
  OBVIOUS
<1>8. SumFunctionOnSet(f, D) = Cardinality(U)
  <2> HIDE DEF U, D, key, f
  <2> QED
    BY <1>2, <1>4, <1>6, <1>7, SumOfFibres
<1>9. DOMAIN f = D
  OBVIOUS
<1> HIDE DEF U, D, key, f
<1> QED
  BY <1>1, <1>2, <1>3, <1>4, <1>5, <1>8, <1>9, MaxRecordsAssumption DEF SumFunction

(* validateRequest has nothing to object to what the decoder lets through.   *)
LEMMA BodiesFit ==
  ASSUME NEW r \in Requests, Request[r] # NoRecords
  PROVE  ~Invalid(r) /\ ~TooLarge(r)
<1> DEFINE request == Request[r]
<1>1. Body[r] \in Bodies /\ request = IngestRequest(Body[r])
  BY BodyAssumption
<1>2. Decodes(Body[r])
  BY <1>1 DEF IngestRequest
<1> HIDE DEF request
<1>3. /\ request.events \in 1..MaxRecords
      /\ DOMAIN request.increments # {}
      /\ Cardinality(DOMAIN request.increments) <= request.events
      /\ SumFunction(request.increments) = request.events
  BY <1>1, <1>2, DecodedRequest
<1>4. Cardinality(DOMAIN request.increments) \in Nat
  <2>1. DOMAIN request.increments \subseteq Keys
    BY RequestAssumption DEF IsIncrements, request
  <2> QED
    BY <2>1, KeysAssumption, FS_Subset, FS_CardinalityType
<1> QED
  BY <1>3, <1>4, ConfigAssumption, LimitAssumption, MaxRecordsAssumption
  DEF OneRequestFits, Invalid, Empty, TooLarge, request

(* Only a handler changes what Submit knows of its job. *)
LEMMA OnlyHandlersSubmit ==
  ASSUME [ServiceNext]_<<vars, serviceVars>>, ~ \E r \in Requests : HandlerSubmits(r)
  PROVE  sub' = sub
<1> USE DEF submitVars
<1>1. CASE RunStep
  BY <1>1 DEF RunStep, Receive, Dequeued, TimerFires, EnterDrain, EnterAbort,
     DrainEmpty, AbortEmpty, FlushOk, FlushFailed, FlushReturns
<1>2. ASSUME NEW b \in wire, RedisExecute(b) PROVE sub' = sub
  BY <1>2 DEF RedisExecute
<1>3. CASE StartService \/ StopBatcher
  BY <1>3 DEF StartService, Start, StopBatcher, Stop, StopBegin, StopDone,
     StopDeadline, StopJoined
<1>4. CASE UNCHANGED vars
  BY <1>4 DEF vars
<1> QED
  BY <1>1, <1>2, <1>3, <1>4 DEF ServiceNext, BatcherStep, HandlerBegins,
     Reject, BeginShutdown, ShutdownCompletes, ShutdownExpires, CloseRedis, Exited

(* validateRequest alone returns these two errors.                          *)
LEMMA FitStep ==
  ASSUME TypeOK, DecodedFits, [ServiceNext]_<<vars, serviceVars>>
  PROVE  DecodedFits'
<1> USE DEF DecodedFits
<1>1. CASE sub' = sub
  BY <1>1
<1>2. ASSUME NEW r \in Requests, HandlerSubmits(r) PROVE DecodedFits'
  <2>1. ~Invalid(r) /\ ~TooLarge(r)
    BY <1>2, BodiesFit DEF HandlerSubmits
  <2>2. CASE SubmitBegin(r)
    BY <2>1, <2>2 DEF SubmitBegin, Refuse, TypeOK
  <2>3. CASE SubmitSend(r) \/ SubmitCancel(r)
    BY <2>3 DEF SubmitSend, SubmitCancel, TypeOK
  <2>4. CASE SubmitResult(r)
    BY <2>4 DEF SubmitResult, TypeOK, Outcomes
  <2> QED
    BY <1>2, <2>2, <2>3, <2>4 DEF HandlerSubmits, Submit
<1> QED
  BY <1>1, <1>2, OnlyHandlersSubmit

(* No body that the decoder accepts is turned away by the batcher as empty,   *)
(* inconsistent or too large for a batch: what validateRequest checks holds   *)
(* of every decoded body, under the limits that LoadConfig accepts.           *)
THEOREM DecodedBodiesFit == ServiceSpec => []DecodedFits
<1>1. ServiceInit => DecodedFits
  BY DEF ServiceInit, Init, DecodedFits
<1>2. TypeOK /\ DecodedFits /\ [ServiceNext]_<<vars, serviceVars>> => DecodedFits'
  BY FitStep
<1> QED
  BY <1>1, <1>2, ServiceImplementsBatcher, TypeCorrect, PTL DEF ServiceSpec

(* Every handler that started before a shutdown within its deadlines has an   *)
(* answer of its own, and every accepted job is flushed.                      *)
THEOREM ShutdownIsGraceful == ServiceSpec => []GracefulShutdown
<1>4. ASSUME Shape, JobsInv, NothingAbandoned, DiscardOnlyAfterDeadline,
             PhaseShape, NobodyLeft, DecodedFits, begun \subseteq Requests
      PROVE  GracefulShutdown
  <2> SUFFICES ASSUME redisClosed, ~overdue, stopper = "returned", NEW r \in begun
               PROVE  /\ r \in rejected
                           \/ sub[r] \in {"queue_full", "cancelled", "ok", "failed"}
                      /\ sub[r] = "cancelled" => result[r] \in {"ok", "failed"}
    BY DEF GracefulShutdown
  <2>1. r \in Requests /\ pc = "exited" /\ result[r] # "stopped"
    BY <1>4 DEF Shape, StopShape, DiscardOnlyAfterDeadline
  <2>2. service \in {"stopping", "returned"}
    BY <1>4 DEF PhaseShape
  <2>3. r \in rejected \/ sub[r] \notin {"idle", "sending", "waiting"}
    BY <1>4, <2>2 DEF NobodyLeft, Active
  <2>4. sub[r] \notin {"not_running", "invalid", "too_large"}
    BY <1>4, <2>1 DEF NobodyLeft, DecodedFits
  <2>5. sub[r] # "stopped"
    BY <1>4, <2>1 DEF JobsInv, ReturnedResult, Outcomes
  <2>6. sub[r] \in {"idle", "sending", "waiting", "cancelled"} \cup Outcomes \cup Refusals
    BY <1>4, <2>1 DEF Shape, TypeOK
  <2>7. sub[r] = "cancelled" => result[r] \in {"ok", "failed"}
    BY <1>4, <2>1 DEF NothingAbandoned, Accepted, Shape, TypeOK, Outcomes
  <2> QED
    BY <2>3, <2>4, <2>5, <2>6, <2>7 DEF Outcomes, Refusals
<1>5. ServiceSpec => [](begun \subseteq Requests)
  <2>1. ServiceInit => begun \subseteq Requests
    BY DEF ServiceInit
  <2>2. begun \subseteq Requests /\ [ServiceNext]_<<vars, serviceVars>>
          => (begun \subseteq Requests)'
    BY DEF ServiceNext, StartService, HandlerBegins, Reject, HandlerSubmits,
       BeginShutdown, ShutdownCompletes, ShutdownExpires, StopBatcher, CloseRedis,
       BatcherStep, Exited, serviceVars
  <2> QED
    BY <2>1, <2>2, PTL DEF ServiceSpec
<1> QED
  BY <1>4, <1>5, DecodedBodiesFit, ServiceImplementsBatcher, ShapeInvariant, JobsInvariant,
     NoJobAbandoned, CleanStop, ShutdownOrder, PTL

-----------------------------------------------------------------------------
(* From the text of a body to its records.  The places of the tokens of an    *)
(* object are few, and the n-th of them is what it should be.                 *)

Rank(S, i) == Cardinality({j \in S : j <= i})

(* The rank of a number in a finite set grows with it. *)
LEMMA RankGrows ==
  ASSUME NEW S, IsFiniteSet(S), S \subseteq Nat
  PROVE  /\ \A i \in S : Rank(S, i) \in 1..Cardinality(S)
         /\ \A i, j \in S : i < j => Rank(S, i) < Rank(S, j)
<1> DEFINE below(i) == {j \in S : j <= i}
<1>1. \A i \in S : /\ IsFiniteSet(below(i)) /\ Cardinality(below(i)) \in Nat
                    /\ Cardinality(below(i)) <= Cardinality(S)
  <2> SUFFICES ASSUME NEW i \in S
               PROVE  /\ IsFiniteSet(below(i)) /\ Cardinality(below(i)) \in Nat
                      /\ Cardinality(below(i)) <= Cardinality(S)
    OBVIOUS
  <2>1. below(i) \in SUBSET S
    OBVIOUS
  <2> HIDE DEF below
  <2> QED
    BY <2>1, FS_Subset, FS_CardinalityType
<1>2. \A i \in S : Cardinality(below(i)) # 0
  <2> SUFFICES ASSUME NEW i \in S PROVE Cardinality(below(i)) # 0
    OBVIOUS
  <2>1. i \in below(i)
    OBVIOUS
  <2> HIDE DEF below
  <2> QED
    BY <1>1, <2>1, FS_EmptySet
<1>3. ASSUME NEW i \in S, NEW j \in S, i < j
      PROVE  Cardinality(below(i)) < Cardinality(below(j))
  <2>1. below(i) \in SUBSET below(j) /\ j \in below(j) /\ j \notin below(i)
    <3>1. i \in Nat /\ j \in Nat /\ \A x \in S : x \in Nat
      OBVIOUS
    <3>2. ~(j <= i) /\ j <= j /\ \A x \in S : x <= i => x <= j
      BY <1>3, <3>1
    <3> QED
      BY <3>2
  <2> HIDE DEF below
  <2>2. /\ Cardinality(below(i)) <= Cardinality(below(j))
        /\ Cardinality(below(i)) # Cardinality(below(j))
    BY <1>1, <2>1, FS_Subset
  <2> QED
    BY <1>1, <2>2
<1>4. Cardinality(S) \in Nat
  BY FS_CardinalityType
<1> QED
  BY <1>1, <1>2, <1>3, <1>4 DEF Rank

(* Nth finds the element of each rank. *)
LEMMA NthElement ==
  ASSUME NEW S, IsFiniteSet(S), S \subseteq Nat, NEW n \in 1..Cardinality(S)
  PROVE  Nth(S, n) \in S /\ Rank(S, Nth(S, n)) = n
<1> DEFINE c == Cardinality(S)
           rank == [i \in S |-> Rank(S, i)]
<1>1. c \in Nat /\ IsFiniteSet(1..c) /\ Cardinality(1..c) = c
  BY FS_CardinalityType, FS_Interval
<1>2. rank \in Injection(S, 1..c)
  <2>1. \A i, j \in S : i # j => Rank(S, i) # Rank(S, j)
    <3>1. \A i, j \in S : i # j => i < j \/ j < i
      OBVIOUS
    <3>2. \A i \in S : Rank(S, i) \in 1..c
      BY RankGrows
    <3>3. \A i \in S : Rank(S, i) \in Nat
      <4> HIDE DEF c
      <4> QED
        BY <1>1, <3>2
    <3>4. \A i, j \in S : i < j => Rank(S, i) < Rank(S, j)
      BY RankGrows
    <3> QED
      BY <3>1, <3>3, <3>4
  <2>2. \A i \in S : Rank(S, i) \in 1..c
    BY RankGrows
  <2> QED
    BY <2>1, <2>2 DEF Injection, IsInjective
<1>3. rank \in Surjection(S, 1..c)
  <2> HIDE DEF rank, c
  <2> QED
    BY <1>1, <1>2, FS_Injection DEF c
<1>4. \E i \in S : Rank(S, i) = n
  BY <1>3 DEF Surjection
<1> QED
  BY <1>4 DEF Nth, Rank

(* Four places are the first, the second, the third and the fourth.          *)
LEMMA FourElements ==
  ASSUME NEW S, IsFiniteSet(S), S \subseteq Nat, Cardinality(S) = 4
  PROVE  /\ S = {Nth(S, 1), Nth(S, 2), Nth(S, 3), Nth(S, 4)}
         /\ Nth(S, 1) < Nth(S, 2) /\ Nth(S, 2) < Nth(S, 3) /\ Nth(S, 3) < Nth(S, 4)
<1>1. \A n \in 1..4 : Nth(S, n) \in S /\ Rank(S, Nth(S, n)) = n
  BY NthElement
<1>2. \A i, j \in S : i < j \/ i = j \/ j < i
  OBVIOUS
<1>3. \A i \in S : Rank(S, i) \in 1..4
  BY RankGrows
<1>4. \A i, j \in S : i < j => Rank(S, i) < Rank(S, j)
  BY RankGrows
<1>5. \A i, j \in S : Rank(S, i) < Rank(S, j) => i < j
  BY <1>2, <1>3, <1>4
<1>6. \A i, j \in S : Rank(S, i) = Rank(S, j) => i = j
  BY <1>2, <1>3, <1>4
<1>7. \A i \in S : \E n \in 1..4 : i = Nth(S, n)
  BY <1>1, <1>3, <1>6
<1>8. \A n \in 1..4 : n = 1 \/ n = 2 \/ n = 3 \/ n = 4
  OBVIOUS
<1>9. 1 \in 1..4 /\ 2 \in 1..4 /\ 3 \in 1..4 /\ 4 \in 1..4
  OBVIOUS
<1>10. S = {Nth(S, 1), Nth(S, 2), Nth(S, 3), Nth(S, 4)}
  BY <1>1, <1>7, <1>8, <1>9
<1>11. Nth(S, 1) < Nth(S, 2) /\ Nth(S, 2) < Nth(S, 3) /\ Nth(S, 3) < Nth(S, 4)
  <2>1. 1 < 2 /\ 2 < 3 /\ 3 < 4
    OBVIOUS
  <2> QED
    <3>1. ASSUME NEW m \in 1..4, NEW n \in 1..4, m < n PROVE Nth(S, m) < Nth(S, n)
      <4>1. /\ Nth(S, m) \in S /\ Nth(S, n) \in S
            /\ Rank(S, Nth(S, m)) < Rank(S, Nth(S, n))
        BY <1>1, <3>1
      <4> QED
        BY <1>5, <4>1
    <3> QED
      BY <1>9, <2>1, <3>1
<1> QED
  BY <1>10, <1>11

-----------------------------------------------------------------------------
(* The records of a body that the decoder accepts                           *)

OpenPlaces(body) == {i \in DOMAIN body.tokens : body.tokens[i] = Open}

OpenOf(body, p) == Nth(Marks(body, p), 1)

(* What Accesses says of an object *)
Reports(body, i, k) ==
  /\ Following(body.tokens, i) = {Member("bucket", k[1]), Member("object", k[2])}
  /\ k = <<k[1], k[2], body.hour>>

(* The tokens differ. *)
LEMMA TokenKinds == Open.kind = "{" /\ Close.kind = "}" /\ NewLine.kind = "newline"
BY DEF Open, Close, NewLine, Token

(* The token of each place *)
LEMMA TokenType ==
  ASSUME NEW body \in Bodies, NEW i \in DOMAIN body.tokens
  PROVE  body.tokens[i] = [kind |-> body.tokens[i].kind, name |-> body.tokens[i].name,
                           value |-> body.tokens[i].value]
<1>1. PICK K, S : body.tokens \in Seq([kind : K, name : S, value : S])
  BY DEF Bodies
<1>2. body.tokens[i] \in [kind : K, name : S, value : S]
  <2> DEFINE T == [kind : K, name : S, value : S]
  <2>1. body.tokens \in Seq(T)
    BY <1>1
  <2> HIDE DEF T
  <2>2. body.tokens[i] \in T
    BY <2>1
  <2> QED
    BY <2>2 DEF T
<1> QED
  BY <1>2

(* The places of a line *)
LEMMA MarksType ==
  ASSUME NEW body \in Bodies, NEW p \in Units(body)
  PROVE  /\ p[1] \in Nat /\ p[2] \in Nat /\ p[2] <= Len(body.tokens) + 1
         /\ IsFiniteSet(Marks(body, p)) /\ Marks(body, p) \subseteq Nat
         /\ Marks(body, p) \subseteq DOMAIN body.tokens
         /\ \A i \in Marks(body, p) : p[1] < i /\ i < p[2]
<1> DEFINE n == Len(body.tokens)
           ends == {0, n + 1} \cup {i \in DOMAIN body.tokens : body.tokens[i] = NewLine}
<1>1. n \in Nat /\ DOMAIN body.tokens = 1..n
  BY BodyLength
<1>2. p = <<0, n + 1>> \/ p \in ends \X ends
  BY DEF Units, Lines
<1>3. ends \subseteq 0..n + 1
  BY <1>1
<1>4. p[1] \in 0..n + 1 /\ p[2] \in 0..n + 1
  <2> HIDE DEF ends
  <2>1. \A x \in ends \X ends : x[1] \in ends /\ x[2] \in ends
    OBVIOUS
  <2>2. 0 \in 0..n + 1 /\ n + 1 \in 0..n + 1
    BY <1>1
  <2> HIDE DEF n
  <2>3. CASE p = <<0, n + 1>>
    <3>1. p[1] = 0 /\ p[2] = n + 1
      BY <2>3
    <3> QED
      BY <2>2, <3>1
  <2>4. CASE p \in ends \X ends
    BY <1>3, <2>1, <2>4
  <2> QED
    BY <1>2, <2>3, <2>4
<1> HIDE DEF n, ends
<1>5. p[1] \in Nat /\ p[2] \in Nat /\ p[2] <= n + 1
  BY <1>1, <1>4
<1>6. Marks(body, p) \subseteq p[1] + 1 .. p[2] - 1
  BY DEF Marks
<1>7. IsFiniteSet(p[1] + 1 .. p[2] - 1)
  <2> DEFINE first == p[1] + 1
             last == p[2] - 1
  <2>1. first \in Int /\ last \in Int
    BY <1>5
  <2> HIDE DEF first, last
  <2>2. IsFiniteSet(first .. last)
    BY <2>1, FS_Interval
  <2> QED
    BY <2>2 DEF first, last
<1>8. \A i \in Marks(body, p) : i \in Nat /\ i \in 1..n /\ p[1] < i /\ i < p[2]
  <2>1. \A i \in p[1] + 1 .. p[2] - 1 : i \in Nat /\ i \in 1..n /\ p[1] < i /\ i < p[2]
    BY <1>1, <1>5
  <2> QED
    BY <1>6, <2>1
<1> QED
  BY <1>1, <1>5, <1>6, <1>7, <1>8, FS_Subset DEF n

(* The four places of an object, and what is there.                          *)
LEMMA ObjectPlaces ==
  ASSUME NEW body \in Bodies, Decodes(body), NEW p \in Units(body)
  PROVE  LET S == Marks(body, p)
             a == Nth(S, 1)
             b == Nth(S, 2)
             c == Nth(S, 3)
             d == Nth(S, 4)
         IN  /\ S = {a, b, c, d} /\ a < b /\ b < c /\ c < d
             /\ body.tokens[a] = Open /\ body.tokens[d] = Close
             /\ body.tokens[b].kind = "member" /\ body.tokens[c].kind = "member"
             /\ {body.tokens[b].name, body.tokens[c].name} = {"bucket", "object"}
             /\ Text(body, p)[2] = body.tokens[b] /\ Text(body, p)[3] = body.tokens[c]
<1> DEFINE S == Marks(body, p)
           text == Text(body, p)
<1>1. IsFiniteSet(S) /\ S \subseteq Nat
  BY MarksType
<1>2. IsObject(text)
  BY DEF Decodes
<1>3. Cardinality(S) = 4
  <2>1. Cardinality(S) \in Nat
    BY <1>1, FS_CardinalityType
  <2>2. text = [n \in 1..Cardinality(S) |-> body.tokens[Nth(S, n)]]
    BY DEF Text
  <2> HIDE DEF S, text
  <2>3. Len(text) = Cardinality(S)
    BY <2>1, <2>2
  <2> QED
    BY <1>2, <2>3 DEF IsObject
<1>4. \A n \in 1..4 : text[n] = body.tokens[Nth(S, n)]
  BY <1>3 DEF Text
<1>5. 1 \in 1..4 /\ 2 \in 1..4 /\ 3 \in 1..4 /\ 4 \in 1..4
  OBVIOUS
<1>6. /\ text[1] = Open /\ text[4] = Close
      /\ {text[2].name, text[3].name} = {"bucket", "object"}
      /\ text[2].kind = "member" /\ text[3].kind = "member"
  BY <1>2 DEF IsObject
<1> HIDE DEF S, text
<1>7. /\ S = {Nth(S, 1), Nth(S, 2), Nth(S, 3), Nth(S, 4)}
      /\ Nth(S, 1) < Nth(S, 2) /\ Nth(S, 2) < Nth(S, 3) /\ Nth(S, 3) < Nth(S, 4)
  BY <1>1, <1>3, FourElements
<1>8. /\ text[1] = body.tokens[Nth(S, 1)] /\ text[2] = body.tokens[Nth(S, 2)]
      /\ text[3] = body.tokens[Nth(S, 3)] /\ text[4] = body.tokens[Nth(S, 4)]
  BY <1>4, <1>5
<1> QED
  BY <1>6, <1>7, <1>8 DEF S, text

(* Each line has its object's opening between its ends.                      *)
LEMMA OpenOfLine ==
  ASSUME NEW body \in Bodies, Decodes(body), NEW p \in Units(body)
  PROVE  /\ OpenOf(body, p) \in OpenPlaces(body) /\ OpenOf(body, p) \in Nat
         /\ p[1] < OpenOf(body, p) /\ OpenOf(body, p) < p[2]
<1>1. OpenOf(body, p) \in Marks(body, p) /\ body.tokens[OpenOf(body, p)] = Open
  BY ObjectPlaces DEF OpenOf
<1> QED
  BY <1>1, MarksType DEF OpenPlaces

(* No two lines share a place. *)
LEMMA LinesApart ==
  ASSUME NEW body \in Bodies, NEW p \in Units(body), NEW q \in Units(body),
         NEW i \in Nat, p[1] < i, i < p[2], q[1] < i, i < q[2]
  PROVE  p = q
<1>1. CASE body.media = "json"
  BY <1>1 DEF Units
<1>2. CASE body.media # "json"
  <2> DEFINE ends == {0, Len(body.tokens) + 1}
                       \cup {j \in DOMAIN body.tokens : body.tokens[j] = NewLine}
  <2>1. /\ p \in ends \X ends /\ \A e \in ends : e <= p[1] \/ p[2] <= e
        /\ q \in ends \X ends /\ \A e \in ends : e <= q[1] \/ q[2] <= e
    BY <1>2 DEF Units, Lines
  <2> HIDE DEF ends
  <2>2. /\ p = <<p[1], p[2]>> /\ p[1] \in ends /\ p[2] \in ends
        /\ q = <<q[1], q[2]>> /\ q[1] \in ends /\ q[2] \in ends
    BY <2>1
  <2>3. p[1] \in Nat /\ p[2] \in Nat /\ q[1] \in Nat /\ q[2] \in Nat
    BY MarksType
  <2>4. p[1] = q[1] /\ p[2] = q[2]
    <3>1. (p[1] <= q[1] \/ q[2] <= p[1]) /\ (q[1] <= p[1] \/ p[2] <= q[1])
      BY <2>1, <2>2
    <3>2. (p[2] <= q[1] \/ q[2] <= p[2]) /\ (q[2] <= p[1] \/ p[2] <= q[2])
      BY <2>1, <2>2
    <3> QED
      BY <2>3, <3>1, <3>2
  <2> QED
    BY <2>2, <2>4
<1> QED
  BY <1>1, <1>2

(* Every object is a line of its own: the one around its opening.            *)
LEMMA LineOfOpen ==
  ASSUME NEW body \in Bodies, Decodes(body), NEW i \in OpenPlaces(body)
  PROVE  \E p \in Units(body) : OpenOf(body, p) = i
<1> DEFINE n == Len(body.tokens)
           ends == {0, n + 1} \cup {j \in DOMAIN body.tokens : body.tokens[j] = NewLine}
<1>1. n \in Nat /\ DOMAIN body.tokens = 1..n
  BY BodyLength
<1>2. i \in 1..n /\ i \in Nat /\ body.tokens[i] = Open /\ body.tokens[i] # NewLine
  <2>1. i \in 1..n /\ body.tokens[i] = Open
    BY <1>1 DEF OpenPlaces
  <2>2. Open # NewLine
    BY TokenKinds
  <2> QED
    BY <1>1, <2>1, <2>2
<1>3. \E p \in Units(body) : p[1] < i /\ i < p[2]
  <2>1. CASE body.media = "json"
    <3> DEFINE p == <<0, n + 1>>
    <3>1. p \in Units(body)
      BY <2>1 DEF Units
    <3>2. p[1] < i /\ i < p[2]
      BY <1>1, <1>2
    <3> QED
      BY <3>1, <3>2
  <2>2. CASE body.media # "json"
    <3> DEFINE L == {e \in ends : e < i}
               R == {e \in ends : i < e}
    <3>1. ends \subseteq 0..n + 1 /\ 0 \in L /\ n + 1 \in R
      BY <1>1, <1>2
    <3>2. L \in SUBSET (0..n + 1) /\ R \in SUBSET (0..n + 1)
      BY <3>1
    <3>3. IsFiniteSet(L) /\ IsFiniteSet(R) /\ L \subseteq Nat /\ R \subseteq Nat
      <4>1. IsFiniteSet(0..n + 1) /\ 0..n + 1 \subseteq Nat
        BY <1>1, FS_Interval
      <4> HIDE DEF L, R
      <4> QED
        BY <3>2, <4>1, FS_Subset
    <3>4. i \notin ends
      BY <1>1, <1>2
    <3> HIDE DEF L, R
    <3>5. PICK x \in L : \A y \in L : x >= y
      BY <3>1, <3>3, Extremes
    <3>6. PICK y \in R : \A z \in R : y =< z
      BY <3>1, <3>3, Extremes
    <3> DEFINE p == <<x, y>>
    <3>7. x \in ends /\ x < i /\ y \in ends /\ i < y /\ x \in Nat /\ y \in Nat
      BY <3>3 DEF L, R
    <3>8. \A e \in ends : e <= x \/ y <= e
      <4>1. \A e \in ends : e \in Nat /\ (e < i \/ i < e)
        BY <1>1, <1>2, <3>1, <3>4
      <4>2. \A e \in ends : e \in L \/ e \in R
        BY <4>1 DEF L, R
      <4>3. \A e \in L : e <= x
        BY <3>3, <3>5, <3>7
      <4>4. \A e \in R : y <= e
        BY <3>6
      <4> QED
        BY <4>2, <4>3, <4>4
    <3>9. p \in Lines(body.tokens)
      BY <1>2, <3>7, <3>8 DEF Lines
    <3>10. Text(body, p) # <<>>
      <4>1. i \in p[1] + 1 .. p[2] - 1
        BY <1>2, <3>7
      <4>2. i \in Marks(body, p)
        BY <1>2, <4>1 DEF Marks
      <4>3. IsFiniteSet(Marks(body, p))
        <5>1. IsFiniteSet(p[1] + 1 .. p[2] - 1)
          <6>1. p[1] + 1 \in Int /\ p[2] - 1 \in Int
            BY <3>7
          <6> QED
            BY <6>1, FS_Interval
        <5>2. Marks(body, p) \in SUBSET (p[1] + 1 .. p[2] - 1)
          BY DEF Marks
        <5> QED
          BY <5>1, <5>2, FS_Subset
      <4>4. Cardinality(Marks(body, p)) \in Nat \ {0}
        BY <4>2, <4>3, FS_CardinalityType, FS_EmptySet
      <4> DEFINE c == Cardinality(Marks(body, p))
      <4>5. DOMAIN Text(body, p) = 1..c
        BY DEF Text
      <4> HIDE DEF c
      <4>6. 1 \in 1..c
        BY <4>4 DEF c
      <4> QED
        <5>1. DOMAIN <<>> = {}
          OBVIOUS
        <5> QED
          BY <4>5, <4>6, <5>1
    <3>11. p \in Units(body)
      BY <2>2, <3>9, <3>10 DEF Units
    <3> QED
      BY <3>7, <3>11
  <2> QED
    BY <2>1, <2>2
<1>4. PICK p \in Units(body) : p[1] < i /\ i < p[2]
  BY <1>3
<1>5. i \in Marks(body, p)
  <2>1. p[1] \in Nat /\ p[2] \in Nat
    BY MarksType
  <2> QED
    BY <1>2, <1>4, <2>1 DEF Marks
<1>6. /\ body.tokens[Nth(Marks(body, p), 4)] # Open
      /\ body.tokens[Nth(Marks(body, p), 2)] # Open
      /\ body.tokens[Nth(Marks(body, p), 3)] # Open
  BY ObjectPlaces, TokenKinds
<1>7. i \in {Nth(Marks(body, p), 1), Nth(Marks(body, p), 2), Nth(Marks(body, p), 3),
            Nth(Marks(body, p), 4)}
  BY <1>5, ObjectPlaces
<1> QED
  BY <1>2, <1>6, <1>7 DEF OpenOf

(* The two tokens behind an opening are those of its line. *)
LEMMA FollowingOfLine ==
  ASSUME NEW body \in Bodies, Decodes(body), NEW p \in Units(body)
  PROVE  Following(body.tokens, OpenOf(body, p)) = {Text(body, p)[2], Text(body, p)[3]}
<1> DEFINE S == Marks(body, p)
           a == Nth(S, 1)
           b == Nth(S, 2)
           c == Nth(S, 3)
           d == Nth(S, 4)
           n == Len(body.tokens)
           after(j) == {k \in a + 1 .. j : body.tokens[k] # NewLine}
<1>1. /\ S = {a, b, c, d} /\ a < b /\ b < c /\ c < d
      /\ Text(body, p)[2] = body.tokens[b] /\ Text(body, p)[3] = body.tokens[c]
  BY ObjectPlaces
<1>2. /\ p[1] \in Nat /\ p[2] \in Nat /\ p[2] <= n + 1
      /\ S \subseteq Nat /\ S \subseteq DOMAIN body.tokens
      /\ \A i \in S : p[1] < i /\ i < p[2]
  BY MarksType
<1>3. n \in Nat /\ DOMAIN body.tokens = 1..n
  BY BodyLength
<1>4. /\ a \in Nat /\ b \in Nat /\ c \in Nat /\ d \in Nat
      /\ p[1] < a /\ d < p[2] /\ d <= n
  BY <1>1, <1>2, <1>3
<1>5. \A k \in Nat : p[1] < k /\ k < p[2] =>
         (body.tokens[k] # NewLine <=> k \in {a, b, c, d})
  <2>1. \A k \in Nat : p[1] < k /\ k < p[2] => k \in p[1] + 1 .. p[2] - 1
    BY <1>2
  <2> QED
    BY <1>1, <2>1 DEF Marks
<1> HIDE DEF S, a, b, c, d, n
<1>6. \A j \in Nat : j < d => after(j) = {k \in {b, c} : k <= j}
  <2> SUFFICES ASSUME NEW j \in Nat, j < d PROVE after(j) = {k \in {b, c} : k <= j}
    OBVIOUS
  <2>1. \A k \in a + 1 .. j : k \in Nat /\ p[1] < k /\ k < p[2] /\ k # a /\ k # d /\ k <= j
    BY <1>2, <1>4
  <2>2. \A k \in {b, c} : k <= j => k \in a + 1 .. j /\ body.tokens[k] # NewLine
    BY <1>1, <1>2, <1>4, <1>5
  <2>3. \A k \in a + 1 .. j : body.tokens[k] # NewLine => k \in {b, c}
    BY <1>5, <2>1
  <2> QED
    BY <2>1, <2>2, <2>3
<1>7. \A j \in Nat : d <= j => ~(Cardinality(after(j)) <= 2)
  <2> SUFFICES ASSUME NEW j \in Nat, d <= j PROVE ~(Cardinality(after(j)) <= 2)
    OBVIOUS
  <2>1. {b, c, d} \in SUBSET after(j)
    <3>1. \A k \in {b, c, d} : k \in a + 1 .. j /\ body.tokens[k] # NewLine
      BY <1>1, <1>2, <1>4, <1>5
    <3> QED
      BY <3>1
  <2>2. IsFiniteSet(after(j))
    <3>1. IsFiniteSet(a + 1 .. j)
      <4>1. a + 1 \in Int /\ j \in Int
        BY <1>4
      <4> QED
        BY <4>1, FS_Interval
    <3>2. after(j) \in SUBSET (a + 1 .. j)
      OBVIOUS
    <3> QED
      BY <3>1, <3>2, FS_Subset
  <2>3. Cardinality({b, c, d}) = 3
    <3>1. b # c /\ c # d /\ b # d
      BY <1>1, <1>4
    <3> QED
      BY <3>1, FewMembers
  <2>4. Cardinality({b, c, d}) <= Cardinality(after(j)) /\ Cardinality(after(j)) \in Nat
    <3> HIDE DEF after
    <3> QED
      BY <2>1, <2>2, FS_Subset, FS_CardinalityType
  <2> HIDE DEF after
  <2> QED
    BY <2>3, <2>4
<1>8. \A j \in {b, c} : Cardinality(after(j)) <= 2
  <2> SUFFICES ASSUME NEW j \in {b, c} PROVE Cardinality(after(j)) <= 2
    OBVIOUS
  <2>1. after(j) \in SUBSET {b, c}
    BY <1>1, <1>4, <1>6
  <2>2. IsFiniteSet({b, c}) /\ Cardinality({b, c}) \in 0..2
    BY FewMembers
  <2> HIDE DEF after
  <2>3. Cardinality(after(j)) <= Cardinality({b, c})
    BY <2>1, <2>2, FS_Subset
  <2>4. Cardinality(after(j)) \in Nat /\ Cardinality({b, c}) \in Nat
    BY <2>1, <2>2, FS_Subset, FS_CardinalityType
  <2> QED
    BY <2>2, <2>3, <2>4
<1>9. {k \in after(n) : Cardinality(after(k)) <= 2} = {b, c}
  <2>1. \A k \in after(n) : k \in Nat /\ body.tokens[k] # NewLine /\ a < k /\ k <= n
    BY <1>3, <1>4
  <2>2. \A k \in after(n) : Cardinality(after(k)) <= 2 => k \in {b, c}
    <3> SUFFICES ASSUME NEW k \in after(n), Cardinality(after(k)) <= 2 PROVE k \in {b, c}
      OBVIOUS
    <3>1. k < d
      BY <1>4, <1>7, <2>1
    <3>2. k \in {a, b, c, d}
      BY <1>2, <1>4, <1>5, <2>1, <3>1
    <3> QED
      BY <1>4, <2>1, <3>1, <3>2
  <2>3. b \in after(n) /\ c \in after(n)
    BY <1>1, <1>2, <1>3, <1>4, <1>5
  <2> HIDE DEF after
  <2> QED
    BY <1>8, <2>2, <2>3
<1>10. OpenOf(body, p) = a
  BY DEF OpenOf, a, S
<1>11. Following(body.tokens, a) =
         {body.tokens[j] : j \in {k \in after(n) : Cardinality(after(k)) <= 2}}
  BY DEF Following, n
<1> HIDE DEF after
<1>12. Following(body.tokens, a) = {body.tokens[b], body.tokens[c]}
  BY <1>9, <1>11
<1> QED
  BY <1>1, <1>10, <1>12

(* An access is reported where the decoder reads it. *)
LEMMA ReportIsRecord ==
  ASSUME NEW body \in Bodies, Decodes(body), NEW p \in Units(body), NEW k
  PROVE  Reports(body, OpenOf(body, p), k) <=> KeyOf(body, p) = k
<1> DEFINE text == Text(body, p)
           ValueOf(name) == (CHOOSE i \in {2, 3} : text[i].name = name)
           u == text[ValueOf("bucket")].value
           v == text[ValueOf("object")].value
<1>1. /\ text[2].kind = "member" /\ text[3].kind = "member"
      /\ {text[2].name, text[3].name} = {"bucket", "object"}
  BY ObjectPlaces
<1>2. /\ text[2] = Member(text[2].name, text[2].value)
      /\ text[3] = Member(text[3].name, text[3].value)
  <2>1. PICK i \in DOMAIN body.tokens, j \in DOMAIN body.tokens :
          text[2] = body.tokens[i] /\ text[3] = body.tokens[j]
    BY ObjectPlaces, MarksType
  <2> HIDE DEF text
  <2> QED
    BY <1>1, <2>1, TokenType DEF Member
<1> HIDE DEF text
<1>3. {text[2], text[3]} = {Member("bucket", u), Member("object", v)}
  <2>1. CASE text[2].name = "bucket" /\ text[3].name = "object"
    <3>1. ValueOf("bucket") = 2 /\ ValueOf("object") = 3
      BY <2>1
    <3> HIDE DEF ValueOf
    <3> QED
      BY <1>2, <2>1, <3>1
  <2>2. CASE text[2].name = "object" /\ text[3].name = "bucket"
    <3>1. ValueOf("bucket") = 3 /\ ValueOf("object") = 2
      BY <2>2
    <3> HIDE DEF ValueOf
    <3> QED
      BY <1>2, <2>2, <3>1
  <2> QED
    BY <1>1, <2>1, <2>2
<1>4. KeyOf(body, p) = <<u, v, body.hour>>
  BY DEF KeyOf, AccessKey, Access, text
<1> HIDE DEF u, v
<1>5. \A x, y : {Member("bucket", u), Member("object", v)}
                  = {Member("bucket", x), Member("object", y)} <=> u = x /\ v = y
  <2>1. \A x : /\ Member("bucket", x).name = "bucket" /\ Member("bucket", x).value = x
               /\ Member("object", x).name = "object" /\ Member("object", x).value = x
    BY DEF Member
  <2> QED
    BY <2>1
<1>6. Reports(body, OpenOf(body, p), k) <=>
        /\ {Member("bucket", u), Member("object", v)}
              = {Member("bucket", k[1]), Member("object", k[2])}
        /\ k = <<k[1], k[2], body.hour>>
  BY <1>3, FollowingOfLine DEF Reports, text
<1> QED
  BY <1>4, <1>5, <1>6

(* A key is reported as often in a body as the decoder's records have it.     *)
LEMMA SameCount ==
  ASSUME NEW body \in Bodies, Decodes(body), NEW k
  PROVE  Cardinality({i \in OpenPlaces(body) : Reports(body, i, k)}) = Delta(body, k)
<1> DEFINE P == {p \in Units(body) : KeyOf(body, p) = k}
           I == {i \in OpenPlaces(body) : Reports(body, i, k)}
           open == [p \in P |-> OpenOf(body, p)]
<1>1. \A p \in P : OpenOf(body, p) \in I
  BY OpenOfLine, ReportIsRecord
<1>2. \A p, q \in P : OpenOf(body, p) = OpenOf(body, q) => p = q
  BY OpenOfLine, LinesApart
<1>3. \A i \in I : \E p \in P : OpenOf(body, p) = i
  BY LineOfOpen, ReportIsRecord
<1>4. IsFiniteSet(P)
  BY UnitsFinite, FS_Subset
<1>5. Delta(body, k) = Cardinality(P)
  BY DEF Delta
<1> HIDE DEF P, I
<1>6. open \in Surjection(P, I) /\ open \in Injection(P, I)
  BY <1>1, <1>2, <1>3 DEF Surjection, Injection, IsInjective
<1> HIDE DEF open
<1>7. Cardinality(I) = Cardinality(P)
  BY <1>4, <1>6, FS_Surjection
<1> QED
  BY <1>5, <1>7 DEF I

-----------------------------------------------------------------------------
(* From the bodies to the counters. *)

(* Handlers submit only what they have decoded. *)
SubmittedDecoded == \A r \in Requests : sub[r] # "idle" => Request[r] # NoRecords

LEMMA OnlyDecodedSubmitted == ServiceSpec => []SubmittedDecoded
<1>1. ServiceInit => SubmittedDecoded
  BY DEF ServiceInit, Init, SubmittedDecoded
<1>2. ASSUME TypeOK, SubmittedDecoded, [ServiceNext]_<<vars, serviceVars>>
      PROVE  SubmittedDecoded'
  <2>1. CASE sub' = sub
    BY <1>2, <2>1 DEF SubmittedDecoded
  <2>2. ASSUME NEW r \in Requests, HandlerSubmits(r) PROVE SubmittedDecoded'
    <3>1. Request[r] # NoRecords
      BY <2>2 DEF HandlerSubmits
    <3>2. \A q \in Requests : q # r => sub'[q] = sub[q]
      BY <1>2, <2>2 DEF HandlerSubmits, Submit, SubmitBegin, SubmitSend, SubmitResult,
         SubmitCancel, Refuse, TypeOK
    <3> QED
      BY <1>2, <3>1, <3>2 DEF SubmittedDecoded
  <2> QED
    BY <1>2, <2>1, <2>2, OnlyHandlersSubmit
<1> QED
  BY <1>1, <1>2, ServiceImplementsBatcher, TypeCorrect, PTL DEF ServiceSpec

(* The objects of the bodies are finitely many, and each is named by its      *)
(* request and its place.                                                    *)
LEMMA ObjectsType ==
  ASSUME IsFiniteSet(Requests)
  PROVE  /\ IsFiniteSet(Objects)
         /\ \A o \in Objects : o = <<o[1], o[2]>> /\ o[1] \in Requests
                                /\ o[2] \in OpenPlaces(Body[o[1]])
         /\ \A r \in Requests : \A i \in OpenPlaces(Body[r]) : <<r, i>> \in Objects
<1> DEFINE of == [r \in Requests |-> {r} \X OpenPlaces(Body[r])]
           parts == {{r} \X OpenPlaces(Body[r]) : r \in Requests}
<1>1. Objects = UNION parts
  BY DEF Objects, OpenPlaces
<1>2. \A T \in parts : IsFiniteSet(T)
  <2> SUFFICES ASSUME NEW r \in Requests PROVE IsFiniteSet({r} \X OpenPlaces(Body[r]))
    OBVIOUS
  <2> DEFINE n == Len(Body[r].tokens)
  <2>1. n \in Nat /\ DOMAIN Body[r].tokens = 1..n
    BY BodyAssumption, BodyLength
  <2> HIDE DEF n
  <2>2. IsFiniteSet(1..n)
    BY <2>1, FS_Interval
  <2>3. OpenPlaces(Body[r]) \in SUBSET (1..n)
    BY <2>1 DEF OpenPlaces
  <2>4. IsFiniteSet(OpenPlaces(Body[r])) /\ IsFiniteSet({r})
    BY <2>2, <2>3, FS_Subset, FS_Singleton
  <2> QED
    BY <2>4, FS_Product
<1>3. of \in Surjection(Requests, parts)
  BY DEF Surjection
<1>4. \A o \in Objects : o = <<o[1], o[2]>> /\ o[1] \in Requests
                          /\ o[2] \in OpenPlaces(Body[o[1]])
  BY <1>1
<1>5. \A r \in Requests : \A i \in OpenPlaces(Body[r]) : <<r, i>> \in Objects
  BY <1>1
<1> HIDE DEF of, parts
<1>6. IsFiniteSet(parts)
  BY <1>3, FS_Surjection
<1> QED
  BY <1>1, <1>2, <1>4, <1>5, <1>6, FS_UNION

(* Accesses, by the body of a request *)
LEMMA AccessesAre ==
  ASSUME NEW o \in Objects, NEW k
  PROVE  <<o, k>> \in Accesses <=> k \in Keys /\ Reports(Body[o[1]], o[2], k)
BY DEF Accesses, Reports

(* The objects of one request that report a key                              *)
LEMMA CountOfRequest ==
  ASSUME IsFiniteSet(Requests), NEW r \in Requests, Request[r] # NoRecords, NEW k \in Keys
  PROVE  Cardinality({o \in Objects : o[1] = r /\ <<o, k>> \in Accesses}) =
           IF k \in DOMAIN Request[r].increments THEN Request[r].increments[k] ELSE 0
<1> DEFINE body == Body[r]
           I == {i \in OpenPlaces(body) : Reports(body, i, k)}
           O == {o \in Objects : o[1] = r /\ <<o, k>> \in Accesses}
           name == [i \in I |-> <<r, i>>]
<1>1. body \in Bodies /\ Request[r] = IngestRequest(body) /\ Decodes(body)
  BY BodyAssumption DEF IngestRequest
<1>2. Cardinality(I) = Delta(body, k)
  BY <1>1, SameCount
<1>3. IsFiniteSet(I)
  <2> DEFINE n == Len(body.tokens)
  <2>1. n \in Nat /\ DOMAIN body.tokens = 1..n
    BY <1>1, BodyLength
  <2> HIDE DEF n
  <2>2. IsFiniteSet(1..n) /\ I \in SUBSET (1..n)
    BY <2>1, FS_Interval DEF OpenPlaces
  <2> QED
    BY <2>2, FS_Subset
<1>4. \A i \in I : <<r, i>> \in O
  <2> SUFFICES ASSUME NEW i \in I PROVE <<r, i>> \in O
    OBVIOUS
  <2> DEFINE o == <<r, i>>
  <2>1. o \in Objects /\ o[1] = r /\ o[2] = i
    BY ObjectsType
  <2> HIDE DEF o
  <2> QED
    BY <2>1, AccessesAre DEF o
<1>5. \A o \in O : o[2] \in I /\ o = <<r, o[2]>>
  <2> SUFFICES ASSUME NEW o \in O PROVE o[2] \in I /\ o = <<r, o[2]>>
    OBVIOUS
  <2>1. o = <<o[1], o[2]>> /\ o[2] \in OpenPlaces(Body[o[1]]) /\ o[1] = r
    BY ObjectsType
  <2>2. Reports(Body[o[1]], o[2], k)
    BY AccessesAre
  <2> QED
    BY <2>1, <2>2
<1>6. IF k \in DOMAIN Request[r].increments
      THEN Request[r].increments[k] = Delta(body, k)
      ELSE Delta(body, k) = 0
  <2>1. Request[r].increments =
          [j \in {KeyOf(body, p) : p \in Units(body)} |-> Delta(body, j)]
    BY <1>1 DEF IngestRequest
  <2>2. k \notin {KeyOf(body, p) : p \in Units(body)} => Delta(body, k) = 0
    <3>1. k \notin {KeyOf(body, p) : p \in Units(body)} =>
            {p \in Units(body) : KeyOf(body, p) = k} = {}
      OBVIOUS
    <3> QED
      BY <3>1, FS_EmptySet DEF Delta
  <2> HIDE DEF body
  <2> QED
    BY <2>1, <2>2
<1> HIDE DEF I, O, body
<1>7. name \in Surjection(I, O) /\ name \in Injection(I, O)
  <2>1. \A i, j \in I : <<r, i>> = <<r, j>> => i = j
    OBVIOUS
  <2> QED
    BY <1>4, <1>5, <2>1 DEF Surjection, Injection, IsInjective
<1> HIDE DEF name
<1>8. Cardinality(O) = Cardinality(I)
  BY <1>3, <1>7, FS_Surjection
<1> QED
  BY <1>2, <1>6, <1>8 DEF O

(* What the batcher promises of requests is what was reported in bodies.      *)
LEMMA FullCount ==
  ASSUME IsFiniteSet(Requests), TypeOK, CountedAtMostOnce, CountersExact, SubmittedDecoded
  PROVE  CountedInFull
<1> DEFINE executed == {o \in Objects : counted[o[1]] > 0}
<1>1. \A r \in Requests :
        /\ counted[r] \in {0, 1}
        /\ counted[r] > 0 => Request[r] # NoRecords
  <2> SUFFICES ASSUME NEW r \in Requests
               PROVE  /\ counted[r] \in {0, 1}
                      /\ counted[r] > 0 => Request[r] # NoRecords
    OBVIOUS
  <2>1. counted[r] \in Nat
    BY DEF TypeOK
  <2>2. counted[r] <= (IF Accepted(r) THEN 1 ELSE 0)
    BY DEF CountedAtMostOnce
  <2>3. Accepted(r) => sub[r] # "idle"
    BY DEF Accepted, Outcomes
  <2> QED
    BY <2>1, <2>2, <2>3 DEF SubmittedDecoded
<1>2. ASSUME NEW o \in executed PROVE \E k \in Keys : <<o, k>> \in Accesses
  <2> DEFINE r == o[1]
             body == Body[r]
  <2>1. o \in Objects /\ r \in Requests /\ o[2] \in OpenPlaces(body) /\ counted[r] > 0
    BY ObjectsType
  <2>2. body \in Bodies /\ Request[r] = IngestRequest(body) /\ Decodes(body)
    BY <1>1, <2>1, BodyAssumption DEF IngestRequest
  <2>3. PICK p \in Units(body) : OpenOf(body, p) = o[2]
    BY <2>1, <2>2, LineOfOpen
  <2>4. KeyOf(body, p) \in DOMAIN Request[r].increments
    BY <2>2 DEF IngestRequest
  <2>5. KeyOf(body, p) \in Keys
    BY <2>1, <2>4, RequestAssumption DEF IsIncrements
  <2>6. Reports(body, o[2], KeyOf(body, p))
    BY <2>2, <2>3, ReportIsRecord
  <2> QED
    BY <2>1, <2>5, <2>6, AccessesAre
<1>3. ASSUME NEW k \in Keys
      PROVE  counters[k] = Cardinality({o \in executed : <<o, k>> \in Accesses})
  <2> DEFINE T == {o \in executed : <<o, k>> \in Accesses}
             R == {r \in Requests : k \in DOMAIN Request[r].increments}
             key == [o \in T |-> o[1]]
             f == [r \in Requests |-> Cardinality({o \in T : key[o] = r})]
             h == [r \in R |-> counted[r] * Request[r].increments[k]]
  <2>1. IsFiniteSet(T) /\ \A o \in T : key[o] \in Requests
    <3>1. T \in SUBSET Objects
      OBVIOUS
    <3> QED
      BY <3>1, ObjectsType, FS_Subset
  <2>2. SumFunctionOnSet(f, Requests) = Cardinality(T)
    <3> HIDE DEF T, key
    <3> QED
      BY <2>1, SumOfFibres
  <2>3. \A r \in Requests :
          f[r] = IF counted[r] > 0 /\ r \in R THEN Request[r].increments[k] ELSE 0
    <3> SUFFICES ASSUME NEW r \in Requests
                 PROVE  f[r] = IF counted[r] > 0 /\ r \in R
                               THEN Request[r].increments[k] ELSE 0
      OBVIOUS
    <3>1. f[r] = Cardinality({o \in T : o[1] = r})
      <4>1. {o \in T : key[o] = r} = {o \in T : o[1] = r}
        OBVIOUS
      <4> QED
        BY <4>1
    <3>2. CASE counted[r] > 0
      <4>1. {o \in T : o[1] = r} = {o \in Objects : o[1] = r /\ <<o, k>> \in Accesses}
        BY <3>2
      <4> HIDE DEF T, f
      <4> QED
        BY <1>1, <3>1, <3>2, <4>1, CountOfRequest
    <3>3. CASE ~(counted[r] > 0)
      <4>1. {o \in T : o[1] = r} = {}
        BY <3>3
      <4> HIDE DEF T, f
      <4> QED
        BY <3>1, <3>3, <4>1, FS_EmptySet
    <3> QED
      BY <3>2, <3>3
  <2>4. \A r \in R : Request[r].increments[k] \in Nat
    BY RequestAssumption DEF IsIncrements
  <2>5. \A r \in R : f[r] = h[r]
    <3> SUFFICES ASSUME NEW r \in R PROVE f[r] = h[r]
      OBVIOUS
    <3> DEFINE x == Request[r].increments[k]
    <3>1. x \in Nat /\ counted[r] \in {0, 1} /\ h[r] = counted[r] * x
          /\ f[r] = IF counted[r] > 0 THEN x ELSE 0
      BY <1>1, <2>3, <2>4
    <3> HIDE DEF x, f, h
    <3>2. 0 * x = 0 /\ 1 * x = x
      BY <3>1
    <3> QED
      BY <3>1, <3>2
  <2>6. \A r \in Requests : f[r] \in Nat
    BY <2>3, <2>4
  <2>7. \A r \in Requests \ R : f[r] = 0
    BY <2>3
  <2>8. counters[k] = SumFunctionOnSet(h, R)
    <3>1. counters[k] = SumFunction(h)
      BY DEF CountersExact
    <3>2. DOMAIN h = R
      OBVIOUS
    <3> HIDE DEF h, R
    <3> QED
      BY <3>1, <3>2 DEF SumFunction
  <2>9. IsFiniteSet(R) /\ R \subseteq Requests
    BY FS_Subset
  <2> HIDE DEF T, R, f, h
  <2>10. SumFunctionOnSet(f, Requests) = SumFunctionOnSet(f, R)
    BY <2>6, <2>7, <2>9, SumSupport
  <2>11. SumFunctionOnSet(f, R) = SumFunctionOnSet(h, R)
    BY <2>5, <2>9, SumCongruent
  <2> QED
    BY <2>2, <2>8, <2>10, <2>11 DEF T
<1> QED
  BY <1>2, <1>3 DEF CountedInFull

(* The counters in Redis are the accesses reported in the bodies that Redis   *)
(* executed, each body once and with all of its lines, each access under the  *)
(* hour in which its request arrived, however handlers, batches and shutdown  *)
(* interleave (DecodeRequest, ingest, the batcher and the script).            *)
THEOREM BodiesCountedInFull ==
  ASSUME IsFiniteSet(Requests)
  PROVE  ServiceSpec => []CountedInFull
<1>1. TypeOK /\ CountedAtMostOnce /\ CountersExact /\ SubmittedDecoded => CountedInFull
  BY FullCount
<1> QED
  BY <1>1, ServiceImplementsBatcher, TypeCorrect, CountedOnce, CountersAreSums,
     OnlyDecodedSubmitted, PTL
=============================================================================
