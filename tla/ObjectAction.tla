---------------------------- MODULE ObjectAction ----------------------------
(***************************************************************************)
(* What the tierer does to one object: handleObject, handleMarker and        *)
(* handleRestore of src/internal/tierer/scanner.go, DecideAction of          *)
(* evaluator.go, the requests to MinIO of minio.go, and the daily budgets of *)
(* redis.go.                                                                 *)
(*                                                                         *)
(* Between the listing of the object, its Stat, the read of its tags, the    *)
(* reservation and the request that changes it, users upload, delete and     *)
(* tag it, lifecycle management transitions it, restored copies expire and   *)
(* midnight passes.  A request whose client has given up may be executed     *)
(* later, or never.  The tierer is one process and handles one object at a   *)
(* time; the object is visited by several traversals.                        *)
(*                                                                         *)
(* Every upload has an identity of its own (ETag, LastModified, size).       *)
(***************************************************************************)
EXTENDS Integers, FiniteSets, Functions

CONSTANTS
  UserTags,         \* tags of others
  Marker, Conflict, \* the marker key with the configured and with another value
  TagLimit,         \* tags an object can have; ten in the code and in MinIO
  Size,             \* the object's size
  RestoreDays,      \* TIERER_RESTORE_DAYS
  Limits,           \* choices of the budgets: kind -> [attempts, bytes], 0 is unlimited
  None, Ongoing,    \* no restored copy; a copy being made
  MaxVersions, MaxChanges, MaxVisits, LastDay  \* bounds

Kinds == {"transition", "restore"}
Days == 0..LastDay
Versions == 1..MaxVersions

ASSUME ObjectAssumption ==
  /\ {Marker, Conflict} \cap UserTags = {} /\ Marker # Conflict
  /\ IsFiniteSet(UserTags) /\ TagLimit \in Nat
  /\ Size \in Nat /\ RestoreDays \in Nat \ {0}
  /\ Limits \subseteq [Kinds -> [attempts : Nat, bytes : Nat]]
  /\ None \notin Nat /\ Ongoing \notin Nat /\ None # Ongoing
  /\ MaxVersions \in Nat \ {0} /\ MaxChanges \in Nat
  /\ MaxVisits \in Nat /\ LastDay \in Nat

VARIABLES
  day,        \* the UTC day
  versioned,  \* the bucket keeps versions
  objects,    \* per version: its tags, transition and restore state
  current,    \* the current version; 0 when the key is deleted
  newest,     \* the last version uploaded
  changes,    \* uploads, deletions and tag changes so far
  apply,      \* ScannerConfig.Apply
  limit,      \* TransitionBudget and RestoreBudget
  pc,         \* where handleObject is
  visits,     \* how often the object was listed; names the visit
  item,       \* the Object that handleObject works on
  usage,      \* low and high of its Result
  chunkDay,   \* chunkNow
  action, plan,  \* the Action, and MarkerPlan.Tags
  reply,      \* the answer to the request handleObject waits for
  redisWire, minioWire,  \* requests that have not been executed
  used,       \* the budget keys in Redis, per kind and day
  judged,     \* history: versions found low or high, with the budget's kind
  changed,    \* history: versions that the tierer's requests changed
  sent,       \* history: changing requests sent, per kind and day
  stale,      \* history: visits whose target's tags were written after they read them
  uncharged   \* history: copies MinIO began for requests charged with no bytes

world == <<day, versioned, objects, current, newest, changes>>
config == <<apply, limit>>
handler == <<pc, item, usage, chunkDay, action, plan, reply>>
wires == <<redisWire, minioWire, used>>
history == <<judged, changed, sent, stale, uncharged>>
vars == <<world, config, visits, handler, wires, history>>

Listed(v) == [version |-> v, known |-> FALSE, moved |-> FALSE, restore |-> None]
NoItem == Listed(0)
NoUsage == [low |-> FALSE, high |-> FALSE]
TagSets ==
  {t \in SUBSET (UserTags \cup {Marker, Conflict}) :
     Cardinality(t) <= TagLimit /\ ~({Marker, Conflict} \subseteq t)}
NewObject(t) == [tags |-> t, moved |-> FALSE, restore |-> None]
Kind(a) == IF a = "mark" THEN "transition" ELSE "restore"

(* handleObject returns. *)
Done ==
  /\ pc' = "idle"
  /\ item' = NoItem /\ usage' = NoUsage /\ chunkDay' = 0
  /\ action' = "none" /\ plan' = {} /\ reply' = "none"

Init ==
  /\ day = 0 /\ versioned \in BOOLEAN /\ apply \in BOOLEAN /\ limit \in Limits
  /\ \E t \in TagSets, r \in {None, Ongoing, 1}, m \in BOOLEAN :
       /\ r # None => m
       /\ objects = [v \in Versions |->
            IF v = 1 THEN [tags |-> t, moved |-> m, restore |-> r] ELSE NewObject({})]
  /\ current = 1 /\ newest = 1 /\ changes = 0
  /\ pc = "idle" /\ visits = 0
  /\ item = NoItem /\ usage = NoUsage /\ chunkDay = 0
  /\ action = "none" /\ plan = {} /\ reply = "none"
  /\ redisWire = {} /\ minioWire = {}
  /\ used = [k \in Kinds |-> [d \in Days |-> [attempts |-> 0, bytes |-> 0]]]
  /\ judged = {} /\ changed = {} /\ stale = {} /\ uncharged = {}
  /\ sent = [k \in Kinds |-> [d \in Days |-> 0]]

-----------------------------------------------------------------------------
(* Listing and evaluation *)

(* A listing may leave out the class, the restore state, or both. *)
List ==
  /\ pc = "idle" /\ current # 0 /\ visits < MaxVisits
  /\ visits' = visits + 1
  /\ pc' = "listed"
  /\ \/ item' = Listed(current)
     \/ \E r \in {None, objects[current].restore} :
          item' = [Listed(current) EXCEPT !.known = TRUE, !.restore = r,
                                          !.moved = objects[current].moved]
  /\ UNCHANGED <<world, config, usage, chunkDay, action, plan, reply, wires, history>>

(* The bug of taking any restored copy for one that is still there. *)
DecideActionOverdue(state, result, today) ==
  IF ~state.moved THEN IF result.low THEN "mark" ELSE "none"
  ELSE IF ~result.high \/ state.restore = Ongoing THEN "none"
  ELSE IF state.restore # None THEN "renew" ELSE "restore"

DecideAction(state, result, today) ==
  IF ~state.moved THEN IF result.low THEN "mark" ELSE "none"
  ELSE IF ~result.high \/ state.restore = Ongoing THEN "none"
  ELSE IF state.restore # None /\ state.restore > today THEN "renew" ELSE "restore"

(* The evaluation of the chunk (UsageRead.tla) and the first decision, which *)
(* trusts the listing unless it leaves the state open.  Stat then replaces   *)
(* what the listing said.                                                    *)
Evaluate ==
  /\ pc = "listed"
  /\ \E result \in [low : BOOLEAN, high : BOOLEAN] :
       LET wanted == IF item.known THEN DecideAction(item, result, day) # "none"
                     ELSE result.low \/ result.high
       IN  \/ /\ wanted
              /\ chunkDay' = day
              /\ usage' = result
              /\ pc' = "stat"
              /\ judged' = judged \cup
                   {<<item.version, k>> : k \in {j \in Kinds :
                      IF j = "transition" THEN result.low ELSE result.high}}
              /\ item' = Listed(item.version)
              /\ UNCHANGED <<action, plan, reply>>
           \/ ~wanted /\ Done /\ UNCHANGED judged
  /\ UNCHANGED <<world, config, visits, wires, changed, sent, stale, uncharged>>

-----------------------------------------------------------------------------
(* Stat, the marker's plan and the reservation *)

(* The decision on the current state, and where it leads; the Result has no  *)
(* further use.                                                              *)
Decided(state) ==
  LET a == DecideAction(state, usage, chunkDay)
  IN  \/ /\ a = "none" \/ (a # "mark" /\ ~apply)
         /\ Done
      \/ /\ a = "mark" \/ (a # "none" /\ apply)
         /\ item' = [version |-> current, known |-> TRUE,
                     moved |-> state.moved, restore |-> state.restore]
         /\ action' = a
         /\ pc' = IF a = "mark" THEN "plan" ELSE "reserve"
         /\ usage' = NoUsage
         /\ UNCHANGED <<chunkDay, plan, reply>>

(* The bug of acting on whatever Stat finds. *)
StatAnyIdentity ==
  /\ pc = "stat"
  /\ \/ current = 0 /\ Done
     \/ current # 0 /\ Decided(objects[current])
  /\ UNCHANGED <<world, config, visits, wires, history>>

(* Stat asks for the current version; SameIdentity refuses another one. *)
Stat ==
  /\ pc = "stat"
  /\ \/ current # item.version /\ Done
     \/ current = item.version /\ Decided(objects[current])
  /\ UNCHANGED <<world, config, visits, wires, history>>

(* What a request for version v reaches: the version ID is empty in a bucket *)
(* that keeps no versions.                                                   *)
Target(v) == IF versioned THEN v ELSE current

(* The bug of writing the marker alone. *)
MergedAlone(tags) == {Marker}

Merged(tags) == (tags \ {Conflict}) \cup {Marker}

(* PlanMarker and the first part of handleMarker. *)
PlanMarker ==
  /\ pc = "plan"
  /\ LET v == Target(item.version)
         tags == IF v = 0 THEN {} ELSE objects[v].tags
         required == /\ v # 0 /\ Marker \notin tags
                     /\ Conflict \in tags \/ Cardinality(tags) < TagLimit
     IN  \/ ~(required /\ apply) /\ Done
         \/ /\ required /\ apply
            /\ plan' = Merged(tags)
            /\ pc' = "reserve"
            /\ UNCHANGED <<item, usage, chunkDay, action, reply>>
  /\ UNCHANGED <<world, config, visits, wires, history>>

(* Reserve: the day is that of the call. *)
Reserve ==
  /\ pc = "reserve"
  /\ LET k == Kind(action)
     IN  \/ /\ limit[k] = [attempts |-> 0, bytes |-> 0]
            /\ pc' = "mutate"
            /\ UNCHANGED redisWire
         \/ /\ limit[k] # [attempts |-> 0, bytes |-> 0]
            /\ pc' = "reserving"
            /\ redisWire' = redisWire \cup {[visit |-> visits, kind |-> k, day |-> day,
                               bytes |-> IF action = "renew" THEN 0 ELSE Size]}
  /\ UNCHANGED <<world, config, visits, item, usage, chunkDay, action, plan, reply,
                 minioWire, used, history>>

(* The bug of comparing what was used before. *)
WithinOffByOne(value, delta, most) == most = 0 \/ value <= most

Within(value, delta, most) == most = 0 \/ value + delta <= most

(* reserveBudgetScript *)
RedisReserve(m) ==
  /\ m \in redisWire
  /\ redisWire' = redisWire \ {m}
  /\ LET now == used[m.kind][m.day]
         allowed == /\ Within(now.attempts, 1, limit[m.kind].attempts)
                    /\ Within(now.bytes, m.bytes, limit[m.kind].bytes)
     IN  /\ used' = IF allowed
                      THEN [used EXCEPT ![m.kind][m.day] =
                              [attempts |-> @.attempts + 1, bytes |-> @.bytes + m.bytes]]
                      ELSE used
         /\ reply' = IF pc = "reserving" /\ m.visit = visits
                       THEN IF allowed THEN "allowed" ELSE "refused"
                       ELSE reply
  /\ UNCHANGED <<world, config, visits, pc, item, usage, chunkDay, action, plan,
                 minioWire, history>>

Reserved ==
  /\ pc = "reserving"
  /\ \/ /\ reply = "allowed"
        /\ pc' = "mutate"
        /\ reply' = "none"
        /\ UNCHANGED <<item, usage, chunkDay, action, plan>>
     \/ reply = "refused" /\ Done
  /\ UNCHANGED <<world, config, visits, wires, history>>

-----------------------------------------------------------------------------
(* ApplyMarker and Restore *)

(* The object and the plan are in the request from here on. *)
Mutate ==
  /\ pc = "mutate"
  /\ pc' = "mutating"
  /\ minioWire' = minioWire \cup
       {[visit |-> visits, version |-> item.version, action |-> action, tags |-> plan,
         chunkDay |-> chunkDay, expires |-> item.restore]}
  /\ sent' = [sent EXCEPT ![Kind(action)][day] = @ + 1]
  /\ item' = NoItem /\ chunkDay' = 0 /\ plan' = {}
  /\ UNCHANGED <<world, config, visits, usage, action, reply,
                 redisWire, used, judged, changed, stale, uncharged>>

(* Visits that have read the tags of the version that requests now reach. *)
Readers(v) ==
  {m.visit : m \in {n \in minioWire : n.action = "mark" /\ Target(n.version) = v}}
    \cup (IF plan # {} /\ Target(item.version) = v THEN {visits} ELSE {})

Answered(m) ==
  /\ minioWire' = minioWire \ {m}
  /\ reply' = IF pc = "mutating" /\ m.visit = visits THEN "done" ELSE reply
  /\ UNCHANGED <<day, versioned, current, newest, changes, config, visits, pc, item,
                 usage, chunkDay, action, plan, redisWire, used, judged, sent>>

(* PutObjectTagging replaces all tags. *)
MinIOTag(m) ==
  /\ m.action = "mark"
  /\ LET v == Target(m.version)
     IN  \/ v = 0 /\ UNCHANGED <<objects, changed, stale>>
         \/ /\ v # 0
            /\ objects' = [objects EXCEPT ![v].tags = m.tags]
            /\ changed' = changed \cup {<<v, "transition">>}
            /\ stale' = IF m.tags = objects[v].tags THEN stale
                        ELSE stale \cup (Readers(v) \ {m.visit})
  /\ UNCHANGED uncharged
  /\ Answered(m)

(* RestoreObject starts a copy, or extends the one there is. *)
MinIORestore(m) ==
  /\ m.action # "mark"
  /\ LET v == Target(m.version)
         possible == v # 0 /\ objects[v].moved /\ objects[v].restore # Ongoing
         fresh == objects[v].restore = None
     IN  \/ ~possible /\ UNCHANGED <<objects, changed, uncharged>>
         \/ /\ possible
            /\ objects' = [objects EXCEPT ![v].restore =
                             IF fresh THEN Ongoing ELSE day + RestoreDays + 1]
            /\ changed' = changed \cup {<<v, "restore">>}
            /\ uncharged' = IF fresh /\ m.action = "renew"
                              THEN uncharged \cup {[request |-> m, version |-> v, day |-> day]}
                              ELSE uncharged
  /\ UNCHANGED stale
  /\ Answered(m)

(* ApplyMarker reads the tags back; only its report depends on them. *)
Mutated ==
  /\ pc = "mutating" /\ reply = "done"
  /\ Done
  /\ UNCHANGED <<world, config, visits, wires, history>>

(* The bug of refunding the reservation of a request that failed. *)
GiveUpRefunding ==
  /\ pc # "idle"
  /\ Done
  /\ used' = IF pc = "mutating" /\ limit[Kind(action)].attempts > 0
               THEN [used EXCEPT ![Kind(action)][day].attempts = IF @ > 0 THEN @ - 1 ELSE 0]
               ELSE used
  /\ UNCHANGED <<world, config, visits, redisWire, minioWire, history>>

(* A request fails or times out, or the process ends.  Only a failed Reserve *)
(* stops the scan; here the next visit of the object may follow either way.  *)
GiveUp ==
  /\ pc # "idle"
  /\ Done
  /\ UNCHANGED <<world, config, visits, wires, history>>

-----------------------------------------------------------------------------
(* The world *)

Midnight ==
  /\ day < LastDay
  /\ day' = day + 1
  /\ UNCHANGED <<objects, current, newest, changes, stale>>

(* Users: a new current version, a delete (marker), other tags. *)
Upload ==
  /\ changes < MaxChanges /\ newest < MaxVersions
  /\ changes' = changes + 1
  /\ newest' = newest + 1 /\ current' = newest + 1
  /\ \E t \in SUBSET UserTags :
       Cardinality(t) <= TagLimit /\ objects' = [objects EXCEPT ![newest + 1] = NewObject(t)]
  /\ stale' = IF versioned THEN stale ELSE stale \cup Readers(current)
  /\ UNCHANGED day

Delete ==
  /\ changes < MaxChanges /\ current # 0
  /\ changes' = changes + 1
  /\ current' = 0
  /\ stale' = IF versioned THEN stale ELSE stale \cup Readers(current)
  /\ UNCHANGED <<day, objects, newest>>

Retag ==
  /\ changes < MaxChanges /\ current # 0
  /\ changes' = changes + 1
  /\ \E t \in SUBSET UserTags :
       LET tags == t \cup (objects[current].tags \ UserTags)
       IN  /\ Cardinality(tags) <= TagLimit /\ tags # objects[current].tags
           /\ objects' = [objects EXCEPT ![current].tags = tags]
  /\ stale' = stale \cup Readers(current)
  /\ UNCHANGED <<day, current, newest>>

SetRestore(v, r) ==
  /\ objects' = [objects EXCEPT ![v].restore = r]
  /\ UNCHANGED <<day, current, newest, changes, stale>>

RestoreCompletes(v) ==
  objects[v].restore = Ongoing /\ SetRestore(v, day + RestoreDays + 1)

CopyExpires(v) ==
  /\ objects[v].restore \notin {None, Ongoing} /\ objects[v].restore <= day
  /\ SetRestore(v, None)

(* Lifecycle management acts on the marker. *)
Transition ==
  /\ current # 0 /\ ~objects[current].moved /\ Marker \in objects[current].tags
  /\ objects' = [objects EXCEPT ![current].moved = TRUE]
  /\ UNCHANGED <<day, current, newest, changes, stale>>

World ==
  /\ \/ Midnight \/ Upload \/ Delete \/ Retag \/ Transition
     \/ \E v \in Versions : RestoreCompletes(v) \/ CopyExpires(v)
  /\ UNCHANGED <<versioned, config, visits, handler, wires, judged, changed, sent, uncharged>>

Next ==
  \/ List \/ Evaluate \/ Stat \/ PlanMarker \/ Reserve \/ Reserved
  \/ Mutate \/ Mutated \/ GiveUp
  \/ \E m \in redisWire : RedisReserve(m)
  \/ \E m \in minioWire : MinIOTag(m) \/ MinIORestore(m)
  \/ World

Spec == Init /\ [][Next]_vars

-----------------------------------------------------------------------------
(* Properties *)

(* Variables have their types; no budget key passes its limit, whatever was  *)
(* reserved for that day; no request writes more tags than allowed.          *)
TypeOK ==
  /\ day \in Days /\ versioned \in BOOLEAN /\ apply \in BOOLEAN /\ limit \in Limits
  /\ objects \in [Versions -> [tags : TagSets, moved : BOOLEAN,
                               restore : Nat \cup {None, Ongoing}]]
  /\ current \in Versions \cup {0} /\ newest \in Versions /\ changes \in 0..MaxChanges
  /\ pc \in {"idle", "listed", "stat", "plan", "reserve", "reserving", "mutate", "mutating"}
  /\ visits \in 0..MaxVisits
  /\ action \in {"none", "mark", "restore", "renew"}
  /\ plan \in TagSets
  /\ reply \in {"none", "allowed", "refused", "done"}
  /\ \A k \in Kinds, d \in Days :
       LET l == limit[k]
       IN  /\ used[k][d].attempts \in Nat /\ used[k][d].bytes \in Nat
           /\ l.attempts > 0 => used[k][d].attempts <= l.attempts
           /\ l.bytes > 0 => used[k][d].bytes <= l.bytes

(* A day sees at most one changing request more than were reserved for it,   *)
(* and so than its budget: the one reserved before midnight.  In audit mode  *)
(* there is neither a request nor a reservation.                            *)
MutationsWithinBudget ==
  \A k \in Kinds, d \in Days :
    LET l == limit[k]
    IN  /\ l.attempts + l.bytes > 0 => sent[k][d] <= used[k][d].attempts + 1
        /\ l.attempts > 0 => sent[k][d] <= l.attempts + 1
        /\ ~apply => sent[k][d] = 0 /\ used[k][d].attempts = 0

UpTo(f, d) == SumFunction([e \in 0..d |-> f[e]])

(* Every changing request was reserved first, on its day or before: with     *)
(* lost replies, late executions and repeated visits no reservation serves   *)
(* two requests.                                                            *)
MutationsReserved ==
  \A k \in Kinds, d \in Days :
    limit[k].attempts + limit[k].bytes > 0 =>
      UpTo(sent[k], d) <= UpTo([e \in Days |-> used[k][e].attempts], d)

(* In a bucket that keeps versions, the tierer changes only versions whose    *)
(* usage it has judged, however late a request is executed and whatever was  *)
(* uploaded meanwhile.                                                      *)
OnlyJudgedChanged == versioned => changed \subseteq judged

(* Writing the marker loses and revives no tag of others, unless the tags or *)
(* the object were replaced after they were read.                           *)
UnrelatedTagsKept ==
  [][\A m \in minioWire \ minioWire' :
       LET v == Target(m.version)
       IN  m.action = "mark" /\ v # 0 /\ m.visit \notin stale =>
             objects'[v].tags \cap UserTags = objects[v].tags \cap UserTags]_vars

(* MinIO begins a copy for a renewal, charged with no bytes, only when the    *)
(* copy that Stat saw had not expired when the chunk began but had when the   *)
(* request was executed, or when the object was replaced.                   *)
UnchargedOnlyIfExpired ==
  \A u \in uncharged :
    \/ u.version # u.request.version
    \/ u.request.chunkDay < u.request.expires /\ u.request.expires <= u.day
=============================================================================
