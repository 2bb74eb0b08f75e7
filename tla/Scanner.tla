------------------------------ MODULE Scanner ------------------------------
(***************************************************************************)
(* The tierer's traversal of the object store, src/internal/tierer:         *)
(* Scanner.Run, ScanOnce, scanBucket and processChunk of scanner.go, the     *)
(* listing of minio.go and the cursors of redis.go.                         *)
(*                                                                         *)
(* ScanOnce lists the buckets and the objects of each in order of name,     *)
(* collects chunks, handles the objects of a chunk one by one, and saves    *)
(* the last one as the cursor of its scope, the hash of the configuration.  *)
(* The traversal ends by deleting the cursor.  After any error, and after a  *)
(* crash, the next ScanOnce resumes behind the cursor in Redis; everything   *)
(* else is lost.  Objects and buckets come and go meanwhile.                *)
(*                                                                         *)
(* A cursor command whose reply is lost is executed at once, later or never. *)
(* Run's context may be cancelled at any moment; the process then restarts,  *)
(* perhaps with another configuration.  handleObject (Stat, budget, tag or   *)
(* restore) is one step here.                                               *)
(***************************************************************************)
EXTENDS Integers, FiniteSets, FiniteSetsExt

CONSTANTS
  Scopes,       \* configurations, each with its cursor
  Buckets,      \* bucket names; numbers, ordered as the strings are
  Objects,      \* objects that may exist, as <<bucket, name>>; names are positive
  Excluded,     \* the buckets each scope excludes (exact names and prefixes)
  Directories,  \* empty objects whose name ends in "/"
  ChunkSize,    \* ScannerConfig.ChunkSize
  PageSize,     \* most objects in one answer of ListObjects
  None,         \* there is no cursor
  MaxChanges,   \* bound: changes made by the users of the object store
  MaxFailures   \* bound: errors, crashes and cancellations of the scanner

ASSUME ScannerAssumption ==
  /\ Scopes # {} /\ IsFiniteSet(Scopes)
  /\ Buckets \subseteq Nat /\ IsFiniteSet(Buckets)
  /\ Excluded \in [Scopes -> SUBSET Buckets]
  /\ Objects \subseteq Buckets \X (Nat \ {0}) /\ IsFiniteSet(Objects)
  /\ Directories \subseteq Objects
  /\ ChunkSize \in Nat \ {0} /\ PageSize \in Nat \ {0}
  /\ None \notin Objects
  /\ MaxChanges \in Nat /\ MaxFailures \in Nat

VARIABLES
  buckets,   \* the buckets of the object store
  objects,   \* its objects
  cursor,    \* the cursors in Redis, by key
  late,      \* commands on them that Redis may still execute
  scope,     \* the scope of the running configuration
  cancelled, \* Run's context is done
  pc,        \* where ScanOnce is; "stopped" when Run has returned
  todo,      \* the buckets of ScanOnce's loop not yet finished
  fetched,   \* the last name of the current bucket in an answer of ListObjects
  page,      \* names in such answers that scanBucket has not received
  more,      \* the last answer was truncated
  chunk,     \* names collected in the current bucket
  rest,      \* those of a full chunk not yet handled
  due,       \* history: objects in scope there all the time since the scope's
             \*   traversal began, and not handled since
  handled,   \* history: objects handled since the scope's traversal began
  stray,     \* history: the furthest cursor of an earlier traversal that a late
             \*   command put in place since the traversal began
  repeats,   \* history: how often an object was handled again
  setbacks,  \* history: late commands that moved a cursor back
  changes, failures

store == <<buckets, objects, changes>>
redis == <<cursor, late>>
process == <<scope, cancelled>>
scan == <<todo, fetched, page, more, chunk, rest>>
history == <<due, handled, stray, repeats, setbacks>>
vars == <<store, redis, process, pc, scan, history, failures>>

Before(o, p) == o[1] < p[1] \/ (o[1] = p[1] /\ o[2] < p[2])
UpTo(o, point) == point # None /\ (o = point \/ Before(o, point))
Names == {o[2] : o \in Objects}
InScope(s) == {o \in Objects : o[1] \notin Excluded[s]} \ Directories

Current == Min(todo)
Last == <<Current, Max(chunk)>>

(* cursorKey: one key for each scope. *)
Key(s) == s

Cursor == cursor[Key(scope)]

(* What scanBucket starts with *)
StartAfter(b, point) == IF point # None /\ point[1] = b THEN point[2] ELSE 0

NewBucket(set, point) ==
  /\ todo' = set
  /\ pc' = IF set = {} THEN "resetting" ELSE "listing"
  /\ fetched' = IF set = {} THEN 0 ELSE StartAfter(Min(set), point)
  /\ page' = {}
  /\ more' = (set # {})
  /\ chunk' = {}
  /\ rest' = {}

Idle ==
  /\ pc' = "idle"
  /\ todo' = {} /\ fetched' = 0 /\ page' = {} /\ more' = FALSE
  /\ chunk' = {} /\ rest' = {}

Init ==
  /\ buckets = Buckets
  /\ objects \in SUBSET Objects
  /\ cursor = [s \in Scopes |-> None] /\ late = {}
  /\ scope \in Scopes /\ cancelled = FALSE
  /\ pc = "idle"
  /\ todo = {} /\ fetched = 0 /\ page = {} /\ more = FALSE
  /\ chunk = {} /\ rest = {}
  /\ due = [s \in Scopes |-> objects \cap InScope(s)]
  /\ handled = [s \in Scopes |-> {}] /\ stray = [s \in Scopes |-> None]
  /\ repeats = 0 /\ setbacks = 0
  /\ changes = 0 /\ failures = 0

-----------------------------------------------------------------------------
(* ScanOnce *)

(* The bug of listing every bucket. *)
LoadExcludedToo ==
  /\ pc = "idle" /\ ~cancelled
  /\ NewBucket({b \in buckets : Cursor # None => b >= Cursor[1]}, Cursor)
  /\ UNCHANGED <<store, redis, process, history, failures>>

(* LoadCursor and Buckets *)
Load ==
  /\ pc = "idle" /\ ~cancelled
  /\ NewBucket({b \in buckets \ Excluded[scope] : Cursor # None => b >= Cursor[1]}, Cursor)
  /\ UNCHANGED <<store, redis, process, history, failures>>

(* An answer of ListObjects: the next names of the bucket as it is now.  It *)
(* may be asked for while scanBucket is still busy with the names before.   *)
FetchPage ==
  /\ pc \in {"listing", "handling", "saving"} /\ ~cancelled
  /\ more /\ Current \in buckets
  /\ LET behind == {n \in Names : n > fetched /\ <<Current, n>> \in objects}
     IN  \E answer \in SUBSET behind :
           /\ Cardinality(answer) <= PageSize
           /\ \A n \in answer, m \in behind \ answer : n < m
           /\ answer = {} => behind = {}
           /\ page' = page \cup answer
           /\ fetched' = IF answer = {} THEN fetched ELSE Max(answer)
           /\ more' = (answer # behind)
  /\ UNCHANGED <<store, redis, process, pc, todo, chunk, rest, history, failures>>

(* The bug of a listing without inactivity timeout that reports no error. *)
BucketGoneUnnoticed ==
  /\ pc = "listing"
  /\ page = {} /\ more /\ Current \notin buckets
  /\ UNCHANGED vars

(* ListObjects fails: the bucket was deleted after Buckets listed it. *)
BucketGone ==
  /\ pc = "listing"
  /\ page = {} /\ more /\ Current \notin buckets
  /\ Idle
  /\ UNCHANGED <<store, redis, process, history, failures>>

(* A chunk is evaluated from one read of the counters, which a cancelled     *)
(* context refuses (CancelledReturns).                                       *)
StartChunk(names) ==
  /\ ~cancelled
  /\ chunk' = names
  /\ rest' = names
  /\ pc' = "handling"

(* case item := <-stream *)
ReceiveItem ==
  /\ pc = "listing"
  /\ page # {}
  /\ page' = page \ {Min(page)}
  /\ LET collected == IF <<Current, Min(page)>> \in Directories THEN chunk
                      ELSE chunk \cup {Min(page)}
     IN  \/ Cardinality(collected) = ChunkSize /\ StartChunk(collected)
         \/ /\ Cardinality(collected) < ChunkSize
            /\ chunk' = collected
            /\ UNCHANGED <<rest, pc>>
  /\ UNCHANGED <<store, redis, process, todo, fetched, more, history, failures>>

(* The stream is closed: the last, partial chunk, or the next bucket. *)
StreamClosed ==
  /\ pc = "listing"
  /\ page = {} /\ ~more
  /\ \/ /\ chunk # {}
        /\ StartChunk(chunk)
        /\ UNCHANGED <<todo, fetched, page, more>>
     \/ chunk = {} /\ NewBucket(todo \ {Current}, None)
  /\ UNCHANGED <<store, redis, process, history, failures>>

(* handleObject, whatever comes of it. *)
Handle ==
  /\ pc = "handling"
  /\ LET o == <<Current, Min(rest)>>
     IN  /\ handled' = [handled EXCEPT ![scope] = @ \cup {o}]
         /\ due' = [due EXCEPT ![scope] = @ \ {o}]
         /\ repeats' = IF o \in handled[scope] THEN repeats + 1 ELSE repeats
  /\ rest' = rest \ {Min(rest)}
  /\ pc' = IF rest' = {} THEN "saving" ELSE "handling"
  /\ UNCHANGED <<store, redis, process, todo, fetched, page, more, chunk,
                 stray, setbacks, failures>>

SaveCursorAs(point) ==
  /\ cursor' = [cursor EXCEPT ![Key(scope)] = point]
  /\ chunk' = {}
  /\ pc' = "listing"
  /\ UNCHANGED <<store, late, process, todo, fetched, page, more, rest, history, failures>>

(* The bug of saving the cursor only with the last chunk of a bucket. *)
SaveCursorAtBucketEnd ==
  /\ pc = "saving" /\ ~cancelled
  /\ SaveCursorAs(IF page = {} /\ ~more THEN Last ELSE Cursor)

(* The bug of saving the cursor of a chunk that was cut short. *)
SaveCursorCancelled == pc = "saving" /\ SaveCursorAs(Last)

SaveCursor == pc = "saving" /\ ~cancelled /\ SaveCursorAs(Last)

Failure == failures < MaxFailures /\ failures' = failures + 1

Command(point) == [scope |-> scope, cursor |-> point, old |-> FALSE]

(* The answer of Redis does not arrive: the error ends ScanOnce, and the     *)
(* cursor is saved now, or later.                                           *)
SaveCursorUnanswered ==
  /\ pc = "saving" /\ ~cancelled
  /\ Failure
  /\ \/ cursor' = [cursor EXCEPT ![Key(scope)] = Last] /\ UNCHANGED late
     \/ late' = late \cup {Command(Last)} /\ UNCHANGED cursor
  /\ Idle
  /\ UNCHANGED <<store, process, history>>

(* The cursor is deleted, and the scope's next traversal begins. *)
BeginTraversal ==
  /\ cursor' = [cursor EXCEPT ![Key(scope)] = None]
  /\ late' = {IF c.scope = scope THEN [c EXCEPT !.old = TRUE] ELSE c : c \in late}
  /\ due' = [due EXCEPT ![scope] = objects \cap InScope(scope)]
  /\ handled' = [handled EXCEPT ![scope] = {}]
  /\ stray' = [stray EXCEPT ![scope] = None]

(* The bug of deleting the cursor after a listing that was cut short. *)
ResetCursorCancelled ==
  /\ pc = "resetting"
  /\ BeginTraversal
  /\ Idle
  /\ UNCHANGED <<store, process, repeats, setbacks, failures>>

ResetCursor ==
  /\ pc = "resetting" /\ ~cancelled
  /\ BeginTraversal
  /\ Idle
  /\ UNCHANGED <<store, process, repeats, setbacks, failures>>

ResetCursorUnanswered ==
  /\ pc = "resetting" /\ ~cancelled
  /\ Failure
  /\ \/ BeginTraversal
     \/ late' = late \cup {Command(None)} /\ UNCHANGED <<cursor, due, handled, stray>>
  /\ Idle
  /\ UNCHANGED <<store, process, repeats, setbacks>>

(* Redis executes a command whose client has given up on it. *)
LateCommand ==
  \E c \in late :
    /\ late' = late \ {c}
    /\ cursor' = [cursor EXCEPT ![Key(c.scope)] = c.cursor]
    /\ LET before == cursor[Key(c.scope)]
       IN  setbacks' = IF before # None /\ ~UpTo(before, c.cursor) THEN setbacks + 1
                       ELSE setbacks
    /\ stray' = IF c.old /\ c.cursor # None /\ ~UpTo(c.cursor, stray[c.scope])
                THEN [stray EXCEPT ![c.scope] = c.cursor] ELSE stray
    /\ UNCHANGED <<store, process, pc, scan, due, handled, repeats, failures>>

(* An error that ScanOnce returns, a listing that stalls, or the end of the  *)
(* process: a cursor not yet written stays unwritten.                        *)
Fail ==
  /\ pc \notin {"idle", "stopped"} /\ ~cancelled
  /\ Failure
  /\ Idle
  /\ UNCHANGED <<store, redis, process, history>>

-----------------------------------------------------------------------------
(* The end of Run's context *)

Cancel ==
  /\ pc # "stopped" /\ ~cancelled
  /\ Failure
  /\ cancelled' = TRUE
  /\ UNCHANGED <<store, redis, scope, pc, scan, history>>

(* ctx.Done() of scanBucket, ctx.Err() of processChunk, a request that the   *)
(* client refuses or breaks off and whose error is returned.                *)
CancelledReturns ==
  /\ cancelled /\ pc \notin {"idle", "stopped"}
  /\ Idle
  /\ UNCHANGED <<store, redis, process, history, failures>>

(* handleObject reports no error when Stat, the marker or the restore fails: *)
(* the object is passed over and the chunk goes on.                          *)
PassOver ==
  /\ cancelled /\ pc = "handling"
  /\ rest' = rest \ {Min(rest)}
  /\ pc' = IF rest' = {} THEN "saving" ELSE "handling"
  /\ UNCHANGED <<store, redis, process, todo, fetched, page, more, chunk, history, failures>>

(* The adapter closes its stream without an error, and scanBucket may take   *)
(* that for the end of the bucket before it looks at ctx.Done().             *)
StreamCutShort ==
  /\ cancelled /\ pc = "listing"
  /\ chunk = {} /\ NewBucket(todo \ {Current}, None)
  /\ UNCHANGED <<store, redis, process, history, failures>>

(* Run returns ctx.Err(). *)
RunReturns ==
  /\ cancelled /\ pc = "idle"
  /\ pc' = "stopped"
  /\ UNCHANGED <<store, redis, process, scan, history, failures>>

(* The next process, with the same configuration or another one. *)
Restart ==
  /\ pc = "stopped"
  /\ pc' = "idle"
  /\ cancelled' = FALSE
  /\ scope' \in Scopes
  /\ UNCHANGED <<store, redis, scan, history, failures>>

-----------------------------------------------------------------------------
(* The users of the object store *)

Insert(o) ==
  /\ o \notin objects
  /\ objects' = objects \cup {o}
  /\ buckets' = buckets \cup {o[1]}

Delete(o) ==
  /\ o \in objects
  /\ objects' = objects \ {o}
  /\ UNCHANGED buckets

DeleteBucket(b) ==
  /\ b \in buckets
  /\ buckets' = buckets \ {b}
  /\ objects' = {o \in objects : o[1] # b}

Change ==
  /\ changes < MaxChanges
  /\ changes' = changes + 1
  /\ \/ \E o \in Objects : Insert(o) \/ Delete(o)
     \/ \E b \in Buckets : DeleteBucket(b)
  /\ due' = [s \in Scopes |-> due[s] \cap objects']
  /\ UNCHANGED <<redis, process, pc, scan, handled, stray, repeats, setbacks, failures>>

-----------------------------------------------------------------------------
ScanStep ==
  \/ Load \/ FetchPage \/ BucketGone \/ ReceiveItem \/ StreamClosed
  \/ Handle \/ SaveCursor \/ ResetCursor

CancelledStep == CancelledReturns \/ PassOver \/ StreamCutShort \/ RunReturns

Next ==
  \/ ScanStep \/ SaveCursorUnanswered \/ ResetCursorUnanswered \/ LateCommand
  \/ Fail \/ Cancel \/ CancelledStep \/ Restart \/ Change

Spec == Init /\ [][Next]_vars

(* Run calls ScanOnce again and again, the object store answers every        *)
(* listing, and a listing that does not go on ends with a failure.           *)
Fairness == WF_vars(ScanStep /\ ~cancelled)

FairSpec == Spec /\ Fairness

-----------------------------------------------------------------------------
(* Properties *)

(* Every variable has its type; a chunk never exceeds ChunkSize, and only    *)
(* objects in scope are handled.                                            *)
TypeOK ==
  /\ buckets \subseteq Buckets
  /\ objects \subseteq {o \in Objects : o[1] \in buckets}
  /\ cursor \in [Scopes -> Objects \cup {None}]
  /\ late \subseteq [scope : Scopes, cursor : Objects \cup {None}, old : BOOLEAN]
  /\ scope \in Scopes /\ cancelled \in BOOLEAN
  /\ pc \in {"idle", "listing", "handling", "saving", "resetting", "stopped"}
  /\ todo \subseteq Buckets
  /\ fetched \in Names \cup {0} /\ page \subseteq Names /\ more \in BOOLEAN
  /\ chunk \subseteq Names /\ Cardinality(chunk) <= ChunkSize
  /\ rest \subseteq chunk
  /\ \A s \in Scopes : due[s] \subseteq objects /\ handled[s] \subseteq InScope(s)
  /\ stray \in [Scopes -> Objects \cup {None}]
  /\ repeats \in Nat /\ setbacks \in 0..MaxFailures
  /\ changes \in 0..MaxChanges /\ failures \in 0..MaxFailures

(* A traversal that deletes its cursor has handled every object in scope     *)
(* that was there all the time, however often it was interrupted, cancelled  *)
(* or suspended for another configuration, and whatever was inserted and     *)
(* deleted around it.  Only the objects up to a cursor of an earlier          *)
(* traversal that Redis was late to save are not covered.                    *)
TraversalCovers ==
  [][pc = "resetting" /\ pc' = "idle" /\ Cursor' = None /\ (cancelled => Cursor # None)
     => \A o \in due[scope] : UpTo(o, stray[scope])]_vars

(* The saved cursor never runs ahead of the work: everything in scope up to *)
(* it has been handled, so resuming behind it skips nothing, but for such a  *)
(* late cursor.                                                             *)
CursorCovers ==
  \A s \in Scopes : \A o \in due[s] : UpTo(o, cursor[Key(s)]) => UpTo(o, stray[s])

(* An interruption costs at most one chunk: only the objects of a chunk      *)
(* whose cursor was not saved are handled (and charged to a budget) again.   *)
(* A late command that moves the cursor back costs at most a traversal.      *)
ReworkBounded == repeats <= failures * ChunkSize + setbacks * Cardinality(Objects)

(* README.md:357-358, in the instructions for a rollback: "A changed action  *)
(* configuration intentionally creates a new cursor scope and full            *)
(* traversal."                                                              *)
FullTraversalAfterChange ==
  [][scope' # scope => cursor'[Key(scope')] = None]_vars
=============================================================================
