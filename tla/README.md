# TLA+ models of cwm-minio-tierer

The repository holds two programs. `redis-updater` receives audit records from
Vector over HTTP and adds them to hourly access counters in Redis.
`minio-tierer` walks over the objects of a MinIO server, reads their counters,
and marks an object for transition (a tag that an external ILM rule acts on) or
restores it. This directory models their concurrent and failure-prone parts in
TLA+, checks them with TLC on small instances, and proves every safety property
of the passing runs with TLAPS for every instance.

## The system

    Vector --HTTP--> handlers --Submit--> batcher --Apply--> Redis counters
                                                               |
    coverage producer (external) ---- coverage records ------> Redis
                                                               |
    MinIO <--list, stat, tag, restore-- scanner <--counters, coverage, cursor, budgets--

| Component | State | Operations | Correct when |
|---|---|---|---|
| micro-batcher, `updater/batcher.go` | `accepting`, the channels `queue` and `stop`, the gauge `depth`, the goroutine's pending batch and timer, one result channel per job | `Start`, `Submit`, `run`, `drain`, `abort`, `flush`, `Stop` | every accepted job gets one answer; nil means counted exactly once; nothing is counted twice; the limits hold; Stop leaves nothing running |
| acknowledgement budget, `updater/config.go` | none, a check made by `LoadConfig` | `worstCaseAcknowledgementTime` | no handler waits longer than it says |
| HTTP ingest, `updater/http.go`, `decoder.go` | none of its own | `DecodeRequest`, aggregation into a `BatchRequest`, `Submit`, status code | a body is accepted as a whole or not at all; each access is counted under its object and the hour of its arrival; what the decoder accepts fits into a batch |
| updater service, `updater/run.go` | phase of `runService` | serve, `Shutdown`, `Stop`, close Redis | the Redis client outlives the batcher; a shutdown within its deadlines loses nothing; the service ends |
| counter store, `redisstore/` | `sha`; the counters and the script cache in Redis | `Load`, `Apply`, the counter script | written at most once and as a whole; an error that is not ambiguous means never written |
| contracts, `contracts/` | none | hour windows, expiry, retention rule, keys | no counter expires while a window still needs it |
| scanner, `tierer/scanner.go` | the cursor in Redis; the stream, the chunk, the buckets left to do | `ScanOnce`, `scanBucket`, `processChunk` | a traversal covers what was there all the time; an interruption skips nothing and repeats one chunk at most |
| usage and evaluation, `tierer/redis.go`, `evaluator.go` | none; reads counters and coverage | `ReadChunk`, `ReadCoverage`, `Evaluate` | low and high are what the covered counters say |
| object actions and budgets, `tierer/scanner.go`, `minio.go`, `redis.go` | tags and restore state of an object, daily budgets | `handleObject`, `PlanMarker`, `ApplyMarker`, `Restore`, `Reserve` | only the object that was evaluated is changed; no other tag is lost; no budget is exceeded |
| tierer service, `tierer/service.go` | phase of `runServiceLoops` | start, loops, shutdown with its deadline, close Redis | the process ends; Redis is closed behind the scanner unless the deadline passed; processes in turn complete a traversal together |
| configuration, `updater/config.go`, `tierer/config.go` | none | parsing and checks of the environment | the limits fit each other (`OneRequestFits`, the acknowledgement budget) |
| metrics, logging, `cmd/` | none that is read back | | not modelled |

What makes it hard: handlers, the batcher's goroutine and Stop interleave at
every channel operation and lock; a Redis call that times out may still be
executed, even after the commands that followed it; Redis restarts lose the
script; the scanner may stop, be cancelled or change its configuration between
any two calls and resumes from a cursor; buckets, objects, counters, coverage and
the hour itself change while a chunk is being processed. `PROJECT.json` lists the
hazards with their lines and the properties that cover them.

## Modules

| Module | Models | Runs (`MC<module>` and its configurations) |
|---|---|---|
| `Batcher` | `batcher.go` in full, with Redis as a wire that may execute a batch late or never | `batcher_safety`, `batcher_promise` |
| `BatchPromise` | what `Submit` promises its caller, the abstract specification of `Batcher` | through `batcher_promise` |
| `Ingest` | `DecodeRequest` and the aggregation of `ingest`, as operators on token sequences | through `updater_service` |
| `UpdaterService` | `runService` and the handlers, composed with `Batcher` and `Ingest` | `updater_service` |
| `AckBudget` | `Batcher` with a clock | `ack_budget`, `ack_budget_doc` |
| `CounterStore` | `Store.Load`, `Store.Apply` and the Lua script, several updaters, one Redis | `counter_store` |
| `Scanner` | the traversal, its cursors, its cancellation and the changing object store | `scanner_safety`, `scanner_scope_doc` |
| `TiererService` | `runServiceLoops` and the processes it runs in, composed with `Scanner` | `tierer_service` |
| `UsageRead` | reading and evaluating one object's usage against a moving clock | `usage_read`, `usage_read_doc` |
| `ObjectAction` | `handleObject` with its requests to MinIO and the daily budgets, against everybody else who changes the object | `object_action` |
| `BatcherProofs`, `AckBudgetProofs`, `UpdaterServiceProofs`, `CounterStoreProofs`, `ScannerProofs`, `UsageReadProofs`, `ObjectActionProofs` | theorems about the module each is named after; `BatcherProofs` also about `BatchPromise`, `ScannerProofs` also about `TiererService` | (TLAPS) |
| `SetLemmas` | facts about finite sets and sums that the proofs share | (TLAPS) |

### Batcher

An action is one step of one goroutine between two points where another can
interfere. `SubmitBegin` is `Submit` up to the depth increment under `stateMu`,
`SubmitSend` the non-blocking send and the unlock, `SubmitResult` and
`SubmitCancel` the two cases of its final select. `stateMu` is held while a
Submit is `"sending"`; every other critical section is one action and waits for
`MutexFree`. The goroutine is a program counter: `Receive` takes a job off the
channel in any of the three loops, `Dequeued` accounts for it and merges it into
the batch, flushes, or answers it. `flush` begins with `StartFlush` (the batch
is on the `wire`) and ends with `FlushOk` or `FlushFailed`; after either, a
batch that `Absorb` left full is flushed as well. `RedisExecute` may happen at
any time after the batch was put on the wire, once, or never. Answers are sends
on channels of one place (`CanResolve`): one that did not go through, as on a
second answer, or on a channel without a place whose reader has left, would stop
the goroutine. A batch is `[jobs, events, increments]`; keys are model values,
and because a key names an hour, a batch cannot hold two expiries for one key. A
request the decoder rejects never calls `Submit`, so `Request` ranges over what
`ingest` can pass. `Start` is called once, `Stop` by one caller, as `runService`
does.

`batcher_safety` has requests that share a key, fill a batch exactly, do not
fit after each other by events, and do not fit by keys (`MCBatcher.tla` says
which); four of them over a channel of two are enough to have one job in
flight, one pending, one in hand and one refused or queued, at the time Stop,
its deadline or the timer arrives. The safety properties are about where jobs
are (`JobsConserved`, `NothingAbandoned`), what an answer means
(`AckedOnlyIfCounted`, `CountedAtMostOnce`, `CountersExact`), the limits and
the gauge (`BatchWithinLimits`, `DepthAccounting`) and Stop
(`DiscardOnlyAfterDeadline`, `NoFlushAfterStop`).
`batcher_promise` shows the refinement `KeepsPromise` and the liveness with a
channel of one and an oversized request instead of the one that overflows by
keys. There is no empty request: `ingest` submits none, as `Ingest` shows.

Fairness (`batcher_promise`): the goroutine `run` takes a step when it can
(Go's scheduler; `Apply` sends at most three commands and go-redis gives each up
after the timeouts of `RedisOptions`, so `FlushFailed` is always possible in a
flush; `MaxWait` ends the wait for more requests), Submit goes on after
its lock and when its answer is there, and Stop returns when the goroutine has.
Redis is not assumed to answer, no client is assumed to leave, and nobody is
assumed to call Stop or to reach its deadline. Under this `AcceptedIsAnswered`
and `StopReturns` hold.

### UpdaterService and Ingest

`Ingest` translates the decoder on sequences of tokens: braces, members, line
ends, and `Junk` for what is not JSON or not UTF-8. JSON lexing and the media-type
parser are the Go library's. A body is cut into units (the whole of a JSON body,
the lines of an NDJSON one), each of which must be an object with exactly the
members `bucket` and `object`, wherever a JSON body breaks its lines (`Text` takes
the tokens of a stretch without its line ends); `IngestRequest` aggregates the records by
object and hour of arrival. `MCUpdaterService` has TLC compare `Decodes` with the
grammar for every sequence of up to five tokens and for three lines of every
kind, well-formed or not (`DecoderIsStrict`).

`UpdaterService` is `runService` phase by phase around the actions of `Batcher`:
the listener closes first, `Shutdown` waits for handlers until its deadline, then
the batcher stops, then Redis is closed. A handler exists from its first byte
(`HandlerBegins`), may answer without calling `Submit` (`Reject`: the body is
not accepted or breaks off), and may call it late, also after an expired
`Shutdown`. The run has four bodies over a channel of one, decoded with
`MaxRecords` 2 and batched with `MaxEvents` 3 and `MaxKeys` 2: two accesses to
one object, one more to it, in a JSON body with a line end, that fills the batch,
two in the next hour, and a malformed line behind a good one.

* `CountedInFull` goes from the text of the bodies to the counters in Redis:
  each executed body with all its lines or not at all, each access under its hour.
* `DecodedFits`: no accepted body is `too_large` or `invalid` for the batcher, as
  a client that retries would do so for ever. It needs `OneRequestFits`, a check
  of `LoadConfig`.
* `GracefulShutdown`: within both deadlines every handler gets an answer of its own
  and no job is discarded. `ClientOutlivesBatcher`: Redis is closed only behind
  the goroutine, whichever deadline passed.
* `ServiceReturns`: told to stop, the service ends. Fairness is that of the
  goroutine and of a handler that holds the lock, and that `Shutdown` and `Stop` end
  by their deadlines (the contexts of `run.go`); clients need not go on reading
  or sending.

### AckBudget

Time passes in units, and only when everybody waits (`AllWait`), so the run
measures waiting and not computing. There is no Stop and no client that leaves:
they only shorten a wait.

A flush is the sequence of commands that `Apply` sends: `EVALSHA`, and after a
`NOSCRIPT` reply `SCRIPT LOAD` and a second `EVALSHA` (`NextCommand`; `Run` has
loaded the script once, so that a flush does not begin with a load). The context
of `flush` has a deadline of `OperationTimeout`, but `RedisOptions` leaves
`ContextTimeoutEnabled` off: go-redis looks at the context before it begins a
command, and not while the command is written or its reply read. How long one
command lasts at most is composed inside go-redis, from dialling and greeting if
it needs a new connection, writing and reading, each with a timeout of its own;
it is left open as the constant `CommandTime`. So a flush lasts at most
`FlushTime`, `OperationTimeout + CommandTime`, and not `OperationTimeout`.

`ack_budget` shows the bound that holds, `(QueueSize + 2) * FlushTime + MaxWait`,
with four requests over a channel of one, `MaxWait` 1, `OperationTimeout` 1 and
`CommandTime` 2: a first command may end at the deadline, the next one outlasts it,
and a flush without the deadline would be twice as long. The bound is reached in
the run. `ack_budget_doc` shows a wait beyond the bound of the code, and gives that
bound the benefit of flushes that all end within `OperationTimeout` (`PromptSpec`).

### CounterStore

Each `Apply` is a call with its phase (`load`, `eval`, `reload`,
`eval_again`), Redis a set of commands on the wire, a script cache and the
counters. A command whose client has given up stays on the wire. `Answer`
drops a reply nobody waits for. The keys start anywhere: absent, one below
`MaxInt64`, or malformed. Three calls by two updaters on two shared keys, and
`MaxRestarts = 2` restarts, so that the second `EVALSHA` of an `Apply` can meet
a second restart. The digit-string arithmetic of the script is taken as the
addition it implements (`MaxInt64` is a small number). Expiry is in
`UsageRead`.

### Scanner

`Load` is `LoadCursor` and `Buckets`; `FetchPage` is one answer of
`ListObjects`, which minio-go asks for ahead of `scanBucket`; `ReceiveItem`,
`StreamClosed`, `Handle`, `SaveCursor` and `ResetCursor` follow the loops of
`scanBucket`, `processChunk` and `ScanOnce`. `Fail` is an error or crash
anywhere. Users insert and delete objects and delete buckets at any moment.
`handleObject` is one step here (`ObjectAction` opens it).

*Scopes.* A configuration has its cursor under its own key and its own excluded
buckets; `Restart` may choose another one, so that A's cursor can lie for as
long as B runs. *Late commands.* A `SET` or `DEL` of the cursor whose reply is
lost (`SaveCursorUnanswered`, `ResetCursorUnanswered`) was executed, or stays in
`late` and is executed at any later time, also behind the reset that follows, or
never. *Cancellation.* After `Cancel` every call may return its error
(`CancelledReturns`), but not every error ends the scan: `handleObject` passes
over an object (`PassOver`), and the adapter closes its stream without an error
(`StreamCutShort`), so that a cancelled scanner can walk to the end of its
loops. What keeps the cursor right then is that the Redis client refuses a done
context, which is what `~cancelled` in the cursor's actions stands for.

`scanner_safety` has two scopes over three buckets, each excluding one, one with a
directory marker, with chunks and pages of two: a bucket of three objects has a
full and a partial chunk, one of two a chunk that ends with the page. `MaxChanges`
is one and `MaxFailures` two, shared by failures, lost replies and cancellations:
enough for a late command behind a cancellation and a resumption. `due`,
`handled`, `stray`, `repeats` and `setbacks` are history.

* `CursorCovers`: everything in scope up to the cursor, and there since the
  traversal began, has been handled, so resuming skips nothing.
* `TraversalCovers`: a traversal that deletes its cursor has handled everything
  that was there all the time.
* Both except what lies before `stray`, the furthest cursor of an *earlier*
  traversal that a late command put in place: Redis executing a `SET` after the
  reset makes the next traversal start in the middle. The code can do nothing
  about it, and the traversal after that one covers the rest.
* `ReworkBounded`: an interruption repeats one chunk at most, a late command that
  moves the cursor back one traversal at most.

### TiererService

`runServiceLoops` around `Scanner`: `Signal` and `ServerFails` are what ends the
first select, `BeginStop` cancels the scanner and starts `Shutdown` and its
deadline, `AllDone` and `Deadline` end the waiting loop, `CloseRedis` is the deferred
close of `Run`. Then the process exits, or it crashes at any time, with the
scanner wherever it is; `StartProcess` starts another one.

Fairness: the scanner's own step while it is not cancelled (`Scanner.Run` calls
`ScanOnce` for ever, and a listing that stalls ends with an error), `BeginStop`,
that the waiting loop ends by its deadline, `CloseRedis` and `Exit`. A cancelled
scanner may be stuck in a call for ever; failures are not assumed to happen, and
a bounded number is needed for a traversal to end at all; nobody has to stop or
to start a process. The instance is one scope over two buckets of two and one
objects with chunks of two: a full chunk, a partial one and a change of bucket.

* `RedisOutlivesScanner`: a stop within its deadline closes the client behind the
  scanner. Past the deadline the scanner may still be in a call; the proofs show that
  the cursor is right even then.
* `ServiceStops`, `TraversalsComplete`: the process ends when told to, and one that
  is left running goes on completing traversals.

### UsageRead

One object, hours as numbers, accesses counted one by one. The updater counts
an access under the hour in which it arrived, some time later; the coverage
producer, which is not in this repository, publishes an hour when all of that
hour's accesses are counted, as `README.md:83-87` requires. A chunk fixes its
evaluation hour, reads counters, reads coverage and evaluates; it is assumed to
do this before the end of the following hour (`HourPasses`). Windows of three
and two hours (the high one with the current hour), the smallest retention
`ValidateRetention` admits and four hours of run are enough for the window to
leave its first hour and for an expiry to fall next to it. The high decision
needs no coverage. With coverage switched off `ReadCoverage` takes every hour as
covered, and a low decision then claims nothing about accesses not yet counted; the
model is the mode with coverage.

### ObjectAction

One key of one bucket, versioned or not, visited by `MaxVisits` traversals of the
one tierer. `List` is what the listing says of the object, `Evaluate` and `Stat`
the two decisions of `handleObject` (`DecideAction` on the listed and on the current
state, with `SameIdentity` between them), `PlanMarker` the read of the tags, `Reserve`,
`RedisReserve` and `Reserved` the budget's script with its request and answer,
`Mutate`, `MinIOTag`, `MinIORestore` and `Mutated` the request that changes the
object. Every await is a pair of steps with the world between them: users upload,
delete and tag (`Upload`, `Delete`, `Retag`), lifecycle management transitions a marked
object, restored copies complete and expire, and midnight passes. `GiveUp` is an
error, a timeout or a crash at any point; what is on a wire stays there and may
be executed at any later time, or never. A failed `Reserve` ends the scan and other
errors only the object: for one object both mean that the next visit follows.

What is abstracted: the result of the evaluation is any pair of low and high
(`UsageRead` says which are sound); an upload has an identity of its own, so the
second-precision comparison of `LastModified` is never what tells two uploads
apart; the marker key has the configured value or another one; the verification
read of `ApplyMarker` decides only what is reported, as the tags are written by
then; limits are small numbers, and a tag limit of two stands for ten. An
upload, a deletion or a retagging is one of `MaxChanges`. `used`, `judged`,
`changed`, `sent`, `stale` and `uncharged` are for the properties, except that `used`
is also the budget's keys in Redis.

`object_action` checks two visits, two versions, one change by users and one
midnight: a late request of the first visit can meet the second visit's read,
another version, or the next day. Objects start with every set of tags, moved or
not, with or without a copy. The budgets are one attempt for the marker and two
attempts or the bytes of one object for restores, or unlimited; both modes of
`Apply` are checked.

* `MutationsWithinBudget`: reservations are charged to the day of the call, and a
  request reserved before midnight may be sent after it, so a day can see one
  request more than its reservations, and its budget, and no more.
  `MutationsReserved`: over all days up to any, there are never more requests
  than reservations.
* `OnlyJudgedChanged`: with versions, whatever is delayed, only a version that was
  found low (or high) is tagged (or restored). Without versions an object
  uploaded after `Stat` is hit, which `README.md:424-425` accepts.
* `UnrelatedTagsKept`: a marker write keeps the tags of others unless they were
  written after the marker's read, which `README.md:426` accepts.
* `UnchargedOnlyIfExpired`: a renewal is charged no bytes
  (`docs/specification.md:148-149`). It starts a whole copy only if the copy it was
  to renew expired between the start of the chunk and the request.

No fairness is assumed, and the object may be left alone for ever, so deadlock
is not checked in this run.

## Findings

* `ack_budget_doc`: `worstCaseAcknowledgementTime` (`updater/config.go:165-181`)
  allows `(QUEUE_SIZE + 1) * (BATCH_MAX_WAIT + REDIS_OPERATION_TIMEOUT)`. A job
  that was taken off a full channel while it does not fit into the pending
  batch is neither on the channel nor in flight, so a request may wait for
  `QUEUE_SIZE + 2` flushes. With a small `BATCH_MAX_WAIT` the write timeout can
  cut off a response whose events are counted; Vector sends them again. The run
  lets no flush outlast `REDIS_OPERATION_TIMEOUT`, which `README.md:164` calls the
  "batch timeout". A command begun before the deadline of `flush` goes on until
  its own timeouts, so the wait can be longer still (see AckBudget).
* `usage_read_doc`: `ReadChunk` reads the counters before the coverage. The last
  counts of an hour and its publication can fall between the two reads, and
  the object is then low on counters that were not complete.
  `docs/specification.md:56-58` allows a missing key to count as zero only when
  all coverage records match. `LowSoundIfClosed`, checked by `usage_read`, is what
  holds.
* `scanner_scope_doc`: the cursor of a configuration stays in Redis when another
  one takes over, and is used when the first one comes back: after A, B and A
  again the traversal resumes in the middle of A's scope. `README.md:357-358`
  promises that a changed configuration "creates a new cursor scope and full
  traversal". What lies before A's old cursor waits for the traversal after.

## Proofs

Each proof module assumes what the `ASSUME`s of its module state of the constants
(TLC evaluates them in the runs), and three theorems about sums that a run has
finitely many requests (`CountersAreSums`, `BodiesCountedInFull`) or calls
(`BatchesWhole`); without that the sums mean nothing. The invariants that TLC
checks are not inductive by themselves; what each proof adds to them is named
here.

**SetLemmas**: a finite set of numbers has a largest and a smallest member, and
what a sum over a finite set does when one term changes (`SumFunction` of the
community modules). The fold behind the sum is a recursive function, and the
provers have no induction. A smallest counterexample takes its place: if the
recursion failed for some subset, it would fail for a smallest one, and that one
is its first element and a smaller subset, for which it does not fail. That
there is a smallest one is the well-foundedness of strict inclusion on finite
sets, which the library states as a fact about a set and not an operator.

**BatcherProofs** proves for every set of requests and keys, all sizes and all
limits, what `batcher_safety` and `batcher_promise` check on an instance. The
argument is built in layers, each an invariant that is inductive together with
those below it:

1. `Shape`: `TypeOK`, with `GoroutineShape` (the goroutine holds a job exactly
   at `"received"`, a flush exists only at `"apply"`, nothing is left at
   `"exited"`) and `StopShape` (stateMu has one holder; once Stop has closed the
   door nobody is between check and send; drain, abort and exit happen only
   behind the closed door; a Stop that returned has seen the goroutine leave).
   `TypeOK` alone is not inductive: that `depth` stays a natural number needs the
   gauge's exact value, so `DepthAccounting` is carried along (`TypeCorrect`,
   `DepthExact`).
2. `JobsInv`: `JobsConserved`, and that what Submit returned is what was sent to
   it. With `StopShape`, where the lock around check and send enters, nothing is
   left when the goroutine has returned (`NoJobLost`, `NoJobAbandoned`).
3. `CountInv`: a request not yet sent is not counted; the batches on the wire are
   disjoint, of sent requests, and not counted; `"ok"` and `replied` mean counted
   (`AckImpliesCounted`, `CountedOnce`).
4. Stop, from `Shape`: results are `"stopped"` only after the deadline
   (`CleanStop`), and after Stop no step of the goroutine and no send is possible
   (`QuietAfterStop`).
5. *Limits*: a request that was accepted fits by itself, `CanAdd` keeps what fits
   (`LimitsHold`).
6. *Sums*: the increments of every batch, pending, in flight or left on the wire,
   are the sums over its jobs. The jobs of a batch are disjoint from what was
   counted (3), so an execution adds to each counter exactly the deltas of the
   requests that become counted (`CountersAreSums`).
7. *Refinement*: with 1 to 3, every step of `Batcher` is a step of `BatchPromise`
   or a stutter (`Refinement`). The abstract specification implies what it is
   for (`PromiseKept`), and so does the batcher (`PromiseKeptByBatcher`).

**AckBudgetProofs**: a clock only delays the batcher (`TimedIsBatcher`), so the
layers above hold with it. `Ages` bounds what a job may have waited by its place, in
flushes (`Turns`, each of `FlushTime`): one for every place it has moved up in the channel, and then
more in hand, pending, in flush and answered. A job on the channel may have waited
for one more when nothing is pending, and for another when nothing is in hand or
in flush (`Spare`). `Clocks` keeps the timer and the command in their bounds, says
that a flush is no older than its command by more than `OperationTimeout`, from
which its bound follows (`FlushBounded`), and that a pending batch has a timer
whenever the goroutine waits. Time passes
only when everybody waits, and then the clock of what the goroutine waits for moves
with the ages (`AnsweredInTime`). Nothing is assumed of `CommandTime` but that it
is a positive number. `worstCaseAcknowledgementTime` misses this bound by one
flush, and by what a flush lasts beyond `OperationTimeout`.

**UpdaterServiceProofs**: every step of the service is a step of the batcher or
leaves it alone (`ServiceImplementsBatcher`), so the invariants above hold in the
service. With them and the order of `runService` (the listener is closed before
the batcher stops, Redis behind it) follows `ClientClosedLast`. `DecodedBodiesFit`
is about the decoder: a key of an accepted body has a unit, so keys are no more
than units, and units no more than `MaxRecords`, which `OneRequestFits` relates to
the limits of a batch. Then no handler is refused for its body, and
`ShutdownIsGraceful`: a Shutdown that completed has seen every handler leave, so
nobody can meet the closed door. `BodiesCountedInFull` goes from
the tokens to the counters: every unit of an accepted body has one opening brace, so
counting the braces with an access behind them counts the units of that access,
and that number is the delta that `CountersAreSums` adds up. TLC's
version of this property counts in the text on its own, without the decoder's units.

**CounterStoreProofs**: `Once(c)` follows a call through `EVALSHA`, `NOSCRIPT`,
`SCRIPT LOAD` and the second `EVALSHA`: at most one of its commands can still be
executed, none once it was, and none behind a definite error. `WrittenOnce`,
`DefiniteErrors` and `StoreTypeCorrect` (no counter passes `MaxInt64`) follow, for
any number of updaters, calls and restarts. `BatchesWhole`: a counter is its first
value and the sum over the calls of what each wrote, since the script checks every
key before it writes one, and a malformed counter is never written.

**ScannerProofs**: for all scopes, buckets, objects, chunk and page sizes and any
number of failures.

* *Nothing is skipped.* `ListOrder` says that what was listed lies behind what was
  handled and what has not been listed lies behind both; `Ahead` that an object
  that is due and in scope still lies before the scanner, or before a stray cursor;
  `LateCovers` the same of a late command as of the cursor. Together they are
  inductive and give `CursorNeverAhead` and `TraversalsCover`. A page is any initial
  part of the names behind the last one, which is where the order of `ListObjects`
  enters.
* *Types.* `Tidy`: what ScanOnce holds in each place; a chunk being listed is not
  yet full, and has no directory marker and no excluded bucket in it. `Accounts`: the
  commands still late and the setbacks of those executed are no more than the
  failures (`TypeCorrect`).
* *Rework.* An object may be repeated if it was handled in this traversal and still
  lies ahead of the scanner or of its scope's cursor (`Redo`). `ReworkInv` balances
  `repeats`, what may still be repeated, and a chunk held in reserve while a cancelled
  ScanOnce goes on, against what failures and setbacks pay for. The chunk being
  handled is not in `Redo`: an interruption puts it there and pays for it;
  saving the cursor takes it out for good; a late command that moves a cursor
  back puts at most all objects in (`ReworkIsBounded`).
* *The service around it.* All three are kept wherever a process ends, so
  `NextProcessSkipsNothing`, `TraversalsOfServiceCover`, `TypesOfService` and
  `ReworkOfService` hold over processes that are stopped, overdue or crash. For the
  last one a failure of the server has paid for the chunk that the cancellation
  behind it may cost (`Told`), and a service that left its first select has cancelled
  its scanner (`Stopping`). `RedisClosedLast` is the shutdown order of
  `runServiceLoops`.

**UsageReadProofs**: what a chunk read of a closed window is still so when it is
evaluated, because nothing arrives in an hour that is over and a covered hour has
nothing left to count; other sums only grow (`HighIsSound`,
`LowIsSoundIfClosed`). `RetentionSuffices` shows that `ValidateRetention` demands
enough.

**ObjectActionProofs**: `ActionTypeCorrect`; then one invariant for each property,
on top of the types. *Judged*: `SameIdentity` carries the judgement from the
listing to the request, the version ID from there to the object
(`OnlyJudgedAreChanged`). *Renewal*: a copy that outlasted the chunk's start is
there or has expired since (`FreeCopyOnlyIfExpired`). *Tags*: one request a visit,
and the tags of others in a plan or a request are those of the object unless the
visit is stale (`TagsOfOthersKept`). *Budget*: while a reservation is held the day
has no more requests than reservations, and a request for one that is still on
its way from the day before finds a day without any (`BudgetHolds`). *Ledger*: over
the days up to any, the sum of the requests is no more than that of the
reservations, and smaller by one while a reservation is held
(`EveryRequestReserved`).

Only model-checked: the liveness properties (`AcceptedIsAnswered`, `StopReturns`,
`ServiceReturns`, `ServiceStops`, `TraversalsComplete`), because fairness and
`ENABLED` are out of the prover's reach; `DecoderIsStrict`, a comparison that TLC
evaluates of the decoder with a grammar over short bodies; and the three
violations under Findings, which are counterexamples.

## Not modelled

* JSON lexing, the media-type parser, the encoding of keys, the parsing of
  configuration and of stored values: pure functions of their input.
* Malformed and expired budget keys (the script refuses the first, and the second
  are two days past their use) and malformed counters: they end the chunk with an
  error, which is `Fail` in `Scanner`. A coverage record with another value is one
  that is not there.
* Readiness checks, health endpoints, metrics and logs, apart from the gauge
  `depth`, and the two `main` functions.
* MinIO, Redis, Vector, the ILM rule and the coverage producer, beyond what the
  code expects of them.
* Several tierers at once: `README.md` runs one.

## Plan

1. `Scanner` composed with `ObjectAction`, for the repetition of a chunk against
   the budgets; today each side is checked against the other's behaviour as a
   nondeterministic choice.
2. The order of a chunk's evaluation over several objects (`processChunk` reads
   the counters of all its objects at once), and the malformed values it meets.
