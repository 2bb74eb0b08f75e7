-------------------------- MODULE UpdaterService --------------------------
(***************************************************************************)
(* The updater as a service: runService of src/internal/updater/run.go with *)
(* the ingest handlers of http.go around the Batcher.  A handler reads and   *)
(* decodes its request (Ingest.tla), answers it itself if that fails, and    *)
(* calls Submit otherwise.  When the process is told to stop, or the         *)
(* listener fails, runService shuts the HTTP server down, stops the batcher   *)
(* and closes the Redis client, in this order, each of the first two with a  *)
(* deadline of UPDATER_SHUTDOWN_TIMEOUT.                                     *)
(*                                                                         *)
(* http.Server is external: Shutdown closes the listeners at once and waits  *)
(* for the handlers that run; ListenAndServe returns when it is called.      *)
(***************************************************************************)
EXTENDS Batcher, Ingest

CONSTANT Body   \* the body and arrival of each request

(* LoadConfig: one request must fit within both limits of a batch. *)
OneRequestFits == MaxEvents >= MaxRecords /\ MaxKeys >= MaxRecords

\* Request is what the handlers make of the bodies.
ASSUME BodyAssumption ==
  \A r \in Requests : Body[r] \in Bodies /\ Request[r] = IngestRequest(Body[r])
ASSUME ConfigAssumption == OneRequestFits

VARIABLES
  service,      \* where runService is
  listening,    \* the server accepts requests
  begun,        \* the handlers that have started
  rejected,     \* those that answered without calling Submit
  overdue,      \* Shutdown returned at its deadline, handlers still running
  redisClosed   \* closeRedis has been called

serviceVars == <<service, listening, begun, rejected, overdue, redisClosed>>

ServiceInit ==
  /\ Init
  /\ service = "starting"
  /\ listening = FALSE
  /\ begun = {} /\ rejected = {}
  /\ overdue = FALSE
  /\ redisClosed = FALSE

(* Handlers that have not written their response *)
Active == {r \in begun \ rejected : sub[r] \in {"idle", "sending", "waiting"}}

StartService ==
  /\ service = "starting"
  /\ Start
  /\ service' = "serving"
  /\ listening' = TRUE
  /\ UNCHANGED <<begun, rejected, overdue, redisClosed>>

(* A request arrives: the handler notes the hour and reads the body. *)
HandlerBegins(r) ==
  /\ listening
  /\ r \notin begun
  /\ begun' = begun \cup {r}
  /\ UNCHANGED <<vars, service, listening, rejected, overdue, redisClosed>>

(* The body is not accepted, or reading it fails: the failure status, and    *)
(* nothing of it is counted.                                                *)
Reject(r) ==
  /\ r \in begun \ rejected
  /\ sub[r] = "idle"
  /\ rejected' = rejected \cup {r}
  /\ UNCHANGED <<vars, service, listening, begun, overdue, redisClosed>>

(* ingest calls Submit with what it has decoded. *)
HandlerSubmits(r) ==
  /\ r \in begun \ rejected
  /\ Request[r] # NoRecords
  /\ Submit(r)
  /\ UNCHANGED serviceVars

(* The bug of stopping the batcher while the server still serves. *)
BeginShutdownAfterStop ==
  /\ service = "serving"
  /\ service' = "stopping"
  /\ UNCHANGED <<vars, listening, begun, rejected, overdue, redisClosed>>

(* ctx.Done() or a listener error, and the start of Shutdown *)
BeginShutdown ==
  /\ service = "serving"
  /\ service' = "shutdown"
  /\ listening' = FALSE
  /\ UNCHANGED <<vars, begun, rejected, overdue, redisClosed>>

(* Shutdown returns nil: no handler runs. *)
ShutdownCompletes ==
  /\ service = "shutdown"
  /\ Active = {}
  /\ service' = "stopping"
  /\ UNCHANGED <<vars, listening, begun, rejected, overdue, redisClosed>>

(* The bug of a Shutdown without a deadline. *)
ShutdownUnbounded ==
  /\ service = "shutdown"
  /\ Active = {}
  /\ service' = "stopping"
  /\ UNCHANGED <<vars, listening, begun, rejected, overdue, redisClosed>>

(* Shutdown returns at its deadline; handlers go on. *)
ShutdownExpires ==
  /\ service = "shutdown"
  /\ Active # {}
  /\ service' = "stopping"
  /\ overdue' = TRUE
  /\ UNCHANGED <<vars, listening, begun, rejected, redisClosed>>

StopBatcher ==
  /\ service = "stopping"
  /\ Stop
  /\ UNCHANGED serviceVars

(* The bug of closing the client when Stop's deadline passes. *)
CloseRedisEarly ==
  /\ service = "stopping"
  /\ stopper \in {"expired", "returned", "late"}
  /\ redisClosed' = TRUE
  /\ service' = "returned"
  /\ UNCHANGED <<vars, listening, begun, rejected, overdue>>

(* closeRedis once Stop has returned, and the return of runService: the     *)
(* error of ListenAndServe is there since Shutdown.                          *)
CloseRedis ==
  /\ service = "stopping"
  /\ stopper \in {"returned", "late"}
  /\ redisClosed' = TRUE
  /\ service' = "returned"
  /\ UNCHANGED <<vars, listening, begun, rejected, overdue>>

(* Redis may execute what is on the wire also when the client is closed. *)
BatcherStep ==
  /\ RunStep \/ \E b \in wire : RedisExecute(b)
  /\ UNCHANGED serviceVars

(* Handlers that outlive Shutdown end with the process. *)
Exited == service = "returned" /\ UNCHANGED <<vars, serviceVars>>

ServiceNext ==
  \/ StartService
  \/ \E r \in Requests : HandlerBegins(r) \/ Reject(r) \/ HandlerSubmits(r)
  \/ BeginShutdown \/ ShutdownCompletes \/ ShutdownExpires
  \/ StopBatcher \/ CloseRedis
  \/ BatcherStep
  \/ Exited

ServiceSpec == ServiceInit /\ [][ServiceNext]_<<vars, serviceVars>>

(* Goroutines that can run do; Shutdown and Stop have deadlines.  Nobody    *)
(* has to send requests or to stop the service, and Redis need not answer.  *)
ServiceFairSpec ==
  /\ ServiceSpec
  /\ WF_<<vars, serviceVars>>(RunStep /\ UNCHANGED serviceVars)
  /\ WF_<<vars, serviceVars>>(ShutdownCompletes \/ ShutdownExpires)
  /\ WF_<<vars, serviceVars>>(StopBatcher)
  /\ WF_<<vars, serviceVars>>(CloseRedis)
  /\ WF_<<vars, serviceVars>>(\E r \in Requests : HandlerSubmits(r) /\ SubmitSend(r))

-----------------------------------------------------------------------------
(* Properties *)

(* The Redis client is closed only when the batcher's goroutine is gone:    *)
(* no batch is in flight on a closed client, drain deadline or not.          *)
ClientOutlivesBatcher == redisClosed => pc = "exited" /\ flushing = EmptyBatch

(* A shutdown within its deadlines turns no request away and drops none:     *)
(* every handler that had started gets an answer of its own, and a job whose  *)
(* client left is flushed as well.                                          *)
GracefulShutdown ==
  redisClosed /\ ~overdue /\ stopper = "returned" =>
    \A r \in begun :
      /\ r \in rejected \/ sub[r] \in {"queue_full", "cancelled", "ok", "failed"}
      /\ sub[r] = "cancelled" => result[r] \in {"ok", "failed"}

(* The objects in the bodies, each by its request and place in the text, and *)
(* the accesses they report                                                *)
Objects ==
  UNION {{r} \X {i \in DOMAIN Body[r].tokens : Body[r].tokens[i] = Open} : r \in Requests}

(* The two tokens that follow position i, line ends left out *)
Following(tokens, i) ==
  LET after(j) == {k \in i + 1 .. j : tokens[k] # NewLine}
  IN  {tokens[j] : j \in {k \in after(Len(tokens)) : Cardinality(after(k)) <= 2}}

Accesses ==
  {report \in Objects \X Keys :
     LET object == report[1]
         key == report[2]
         body == Body[object[1]]
     IN  /\ Following(body.tokens, object[2])
              = {Member("bucket", key[1]), Member("object", key[2])}
         /\ key = <<key[1], key[2], body.hour>>}

(* The counters are the accesses of the bodies that Redis executed, each     *)
(* body once, with all of its lines or not at all, each access under the hour *)
(* in which its request arrived, however the batches were mixed.            *)
CountedInFull ==
  LET executed == {o \in Objects : counted[o[1]] > 0}
  IN  /\ \A k \in Keys : counters[k] = Cardinality({o \in executed : <<o, k>> \in Accesses})
      /\ \A o \in executed : \E k \in Keys : <<o, k>> \in Accesses

(* No body that the decoder accepts is turned away by the batcher as empty,  *)
(* inconsistent or too large for a batch: a client that retries would retry  *)
(* for ever.                                                                *)
DecodedFits == \A r \in Requests : sub[r] \notin {"invalid", "too_large"}

(* Told to stop, the service returns, whatever Redis and the clients do.    *)
ServiceReturns == service = "shutdown" ~> service = "returned"
=============================================================================
