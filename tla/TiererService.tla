--------------------------- MODULE TiererService ---------------------------
(***************************************************************************)
(* The tierer as a service: Run and runServiceLoops of                       *)
(* src/internal/tierer/service.go around the Scanner.  The HTTP server and    *)
(* Scanner.Run are two goroutines.  When the process is told to stop or the   *)
(* server fails, runServiceLoops cancels the scanner's context, shuts the     *)
(* server down and waits for both, up to the shutdown deadline; then Run      *)
(* closes the Redis client and the process ends.  It is started again, if    *)
(* at all, by whoever supervises it, perhaps with another configuration.     *)
(*                                                                         *)
(* http.Server is external: ListenAndServe returns when Shutdown is called   *)
(* or the listener fails; Shutdown returns by its deadline.                  *)
(***************************************************************************)
EXTENDS Scanner

VARIABLES
  service,      \* where the process is
  serving,      \* ListenAndServe has not returned
  draining,     \* Shutdown has been called and has not returned
  overdue,      \* the shutdown deadline has passed
  redisClosed   \* rawRedis.Close has been called

serviceVars == <<service, serving, draining, overdue, redisClosed>>

TiererInit ==
  /\ Init
  /\ service = "running" /\ serving = TRUE
  /\ draining = FALSE /\ overdue = FALSE /\ redisClosed = FALSE

(* The context of the process ends, and with it the scanner's. *)
Signal ==
  /\ service = "running"
  /\ Cancel
  /\ UNCHANGED serviceVars

(* ListenAndServe returns an error of its own. *)
ServerFails ==
  /\ service = "running" /\ serving
  /\ Failure
  /\ serving' = FALSE
  /\ UNCHANGED <<store, redis, process, pc, scan, history,
                 service, draining, overdue, redisClosed>>

ToldToStop == service = "running" /\ (cancelled \/ ~serving)

(* The first select, whichever of its cases is ready: cancel, and the start  *)
(* of Shutdown and of its deadline.                                         *)
BeginStop ==
  /\ ToldToStop
  /\ cancelled' = TRUE
  /\ service' = "stopping" /\ draining' = TRUE
  /\ UNCHANGED <<store, redis, scope, pc, scan, history, failures,
                 serving, overdue, redisClosed>>

(* Shutdown, which makes ListenAndServe return, returns. *)
ShutdownReturns ==
  /\ service = "stopping" /\ draining
  /\ serving' = FALSE /\ draining' = FALSE
  /\ UNCHANGED <<vars, service, overdue, redisClosed>>

Return(timedOut) ==
  /\ service = "stopping"
  /\ service' = "returned"
  /\ overdue' = timedOut
  /\ UNCHANGED <<vars, serving, draining, redisClosed>>

(* The bug of a loop that waits for the server only. *)
AllDoneButScanner == ~serving /\ ~draining /\ Return(FALSE)

(* The loop ends: server, worker and Shutdown have all returned. *)
AllDone == ~serving /\ ~draining /\ pc = "stopped" /\ Return(FALSE)

(* The bug of a loop that waits for the scanner however long it takes. *)
DeadlineWaiting == pc = "stopped" /\ Return(TRUE)

(* case <-deadlineCtx.Done() *)
Deadline == Return(TRUE)

(* The deferred Close of Run *)
CloseRedis ==
  /\ service = "returned" /\ ~redisClosed
  /\ redisClosed' = TRUE
  /\ UNCHANGED <<vars, service, serving, draining, overdue>>

(* The goroutines end with the process, wherever they are. *)
ProcessEnds ==
  /\ pc' = "stopped" /\ cancelled' = TRUE
  /\ todo' = {} /\ fetched' = 0 /\ page' = {} /\ more' = FALSE
  /\ chunk' = {} /\ rest' = {}
  /\ service' = "exited" /\ serving' = FALSE /\ draining' = FALSE
  /\ UNCHANGED <<store, redis, scope, history, overdue, redisClosed>>

Exit == service = "returned" /\ redisClosed /\ ProcessEnds /\ UNCHANGED failures

Crash == service # "exited" /\ Failure /\ ProcessEnds

StartProcess ==
  /\ service = "exited"
  /\ Restart
  /\ service' = "running" /\ serving' = TRUE
  /\ draining' = FALSE /\ overdue' = FALSE /\ redisClosed' = FALSE

(* Scanner.Run: after an error or a traversal it waits and goes on.          *)
ScannerStep ==
  /\ ScanStep \/ SaveCursorUnanswered \/ ResetCursorUnanswered \/ Fail \/ CancelledStep
  /\ UNCHANGED serviceVars

Outside == (LateCommand \/ Change) /\ UNCHANGED serviceVars

TiererNext ==
  \/ Signal \/ ServerFails \/ BeginStop \/ ShutdownReturns \/ AllDone \/ Deadline
  \/ CloseRedis \/ Exit \/ Crash \/ StartProcess
  \/ ScannerStep \/ Outside

TiererSpec == TiererInit /\ [][TiererNext]_<<vars, serviceVars>>

(* Run calls ScanOnce again and again, the object store answers every        *)
(* listing, and a listing that does not go on ends with a failure.  Shutdown *)
(* has a deadline.  A cancelled scanner may be stuck in a call for ever, and *)
(* nobody has to stop the process, or to start it again.                     *)
TiererFairSpec ==
  /\ TiererSpec
  /\ WF_<<vars, serviceVars>>(ScanStep /\ ~cancelled /\ UNCHANGED serviceVars)
  /\ WF_<<vars, serviceVars>>(BeginStop)
  /\ WF_<<vars, serviceVars>>(AllDone \/ Deadline)
  /\ WF_<<vars, serviceVars>>(CloseRedis)
  /\ WF_<<vars, serviceVars>>(Exit)

-----------------------------------------------------------------------------
(* Properties *)

(* A stop within the deadline closes the Redis client only when Scanner.Run  *)
(* has returned: no cursor and no reservation is cut off by the shutdown.    *)
RedisOutlivesScanner == redisClosed /\ ~overdue => pc = "stopped"

(* Told to stop, or with its server gone, the process ends, whatever the     *)
(* scanner is waiting for.                                                  *)
ServiceStops == ToldToStop ~> service = "exited"

(* A process that is left running goes on completing traversals, after       *)
(* restarts, errors, lost replies and deleted buckets.                       *)
TraversalsComplete == []<>(pc = "resetting") \/ []<>(service # "running")
=============================================================================
