------------------------- MODULE ObjectActionProofs -------------------------
(***************************************************************************)
(* What the tierer does to an object is what it decided about that object,   *)
(* however late a request is executed, for every choice of limits, tags,     *)
(* versions, visits and changes by users.                                   *)
(***************************************************************************)
EXTENDS ObjectAction, SetLemmas

RestoreStates == Nat \cup {None, Ongoing}
Deciding == {"listed", "stat"}
Acting == {"plan", "reserve", "reserving", "mutate"}
Actions == {"mark", "restore", "renew"}

Items == [version : Versions \cup {0}, known : BOOLEAN, moved : BOOLEAN,
          restore : RestoreStates]

(* Types of what TypeOK leaves open, and what a handler knows where.         *)
HandlerShape ==
  /\ item \in Items
  /\ usage \in [low : BOOLEAN, high : BOOLEAN]
  /\ chunkDay \in Days
  /\ pc \in Deciding \cup Acting => item.version \in 1..newest
  /\ pc \in Acting => action \in Actions

WireShape ==
  /\ used \in [Kinds -> [Days -> [attempts : Nat, bytes : Nat]]]
  /\ redisWire \subseteq [visit : Nat, kind : Kinds, day : Days, bytes : Nat]
  /\ minioWire \subseteq [visit : Nat, version : Versions, action : Actions, tags : TagSets,
                          chunkDay : Days, expires : RestoreStates]
  /\ \A m \in minioWire : m.version \in 1..newest

(* The last conjunct of TypeOK *)
BudgetsKept ==
  \A k \in Kinds, d \in Days :
    LET l == limit[k]
    IN  /\ used[k][d].attempts \in Nat /\ used[k][d].bytes \in Nat
        /\ l.attempts > 0 => used[k][d].attempts <= l.attempts
        /\ l.bytes > 0 => used[k][d].bytes <= l.bytes

Shape == TypeOK /\ HandlerShape /\ WireShape /\ current \in 0..newest

-----------------------------------------------------------------------------
(* Sets of tags *)

(* Tags are finitely many. *)
LEMMA TagsFinite == \A t \in SUBSET (UserTags \cup {Marker, Conflict}) : IsFiniteSet(t)
<1>1. IsFiniteSet({Marker, Conflict})
  <2>1. {Marker, Conflict} = {Marker} \cup {Conflict}
    OBVIOUS
  <2>2. IsFiniteSet({Marker}) /\ IsFiniteSet({Conflict})
    BY FS_Singleton
  <2> QED
    BY <2>1, <2>2, FS_Union
<1>2. IsFiniteSet(UserTags \cup {Marker, Conflict})
  BY <1>1, FS_Union, ObjectAssumption
<1> QED
  BY <1>2, FS_Subset

(* PlanMarker's set of tags is one that an object can have. *)
LEMMA MergedFits ==
  ASSUME NEW t \in TagSets, Marker \notin t, Conflict \in t \/ Cardinality(t) < TagLimit
  PROVE  Merged(t) \in TagSets
<1>1. IsFiniteSet(t) /\ Cardinality(t) \in Nat
  BY TagsFinite, FS_CardinalityType DEF TagSets
<1>2. IsFiniteSet(t \ {Conflict}) /\ Cardinality(t \ {Conflict})
        = IF Conflict \in t THEN Cardinality(t) - 1 ELSE Cardinality(t)
  BY <1>1, FS_RemoveElement
<1>3. Cardinality(Merged(t)) = Cardinality(t \ {Conflict}) + 1
  BY <1>2, FS_AddElement DEF Merged
<1>4. Cardinality(Merged(t)) <= TagLimit
  BY <1>1, <1>2, <1>3, ObjectAssumption DEF TagSets
<1>5. Merged(t) \subseteq UserTags \cup {Marker, Conflict} /\ Conflict \notin Merged(t)
  BY ObjectAssumption DEF Merged, TagSets
<1> QED
  BY <1>4, <1>5 DEF TagSets

-----------------------------------------------------------------------------
(* Types *)

(* The first visit begins with everything in place. *)
LEMMA InitShape == Init => Shape
<1> SUFFICES ASSUME Init PROVE Shape
  OBVIOUS
<1>1. {} \in TagSets
  BY FS_EmptySet, ObjectAssumption DEF TagSets
<1>2. objects \in [Versions -> [tags : TagSets, moved : BOOLEAN, restore : RestoreStates]]
  BY <1>1, ObjectAssumption DEF Init, NewObject, RestoreStates
<1>3. WireShape
  BY DEF Init, WireShape
<1>4. HandlerShape
  BY ObjectAssumption DEF Items, Init, HandlerShape, NoItem, Listed, NoUsage, RestoreStates, Days,
     Versions, Deciding, Acting
<1>5. BudgetsKept
  <2>1. \A k \in Kinds, d \in Days : used[k][d] = [attempts |-> 0, bytes |-> 0]
    BY DEF Init
  <2>2. \A k \in Kinds : limit[k].attempts \in Nat /\ limit[k].bytes \in Nat
    BY ObjectAssumption DEF Init
  <2> QED
    BY <2>1, <2>2 DEF BudgetsKept
<1>6. /\ day \in Days /\ versioned \in BOOLEAN /\ apply \in BOOLEAN /\ limit \in Limits
      /\ current \in Versions \cup {0} /\ newest \in Versions /\ changes \in 0..MaxChanges
      /\ pc = "idle" /\ visits \in 0..MaxVisits
      /\ action = "none" /\ plan \in TagSets /\ reply = "none"
  BY <1>1, ObjectAssumption DEF Init, Days, Versions
<1>7. TypeOK
  BY <1>2, <1>5, <1>6 DEF TypeOK, BudgetsKept, RestoreStates
<1> QED
  BY <1>3, <1>4, <1>7 DEF Shape, Init

(* After handleObject nothing is left of the visit. *)
LEMMA DoneShape ==
  ASSUME Shape, Done, UNCHANGED <<world, config, visits, wires>>
  PROVE  Shape'
<1>1. {} \in TagSets /\ 0 \in Days
  BY FS_EmptySet, ObjectAssumption DEF TagSets, Days
<1> QED
  BY <1>1 DEF Shape, TypeOK, HandlerShape, WireShape, Done, world, config, wires, Items, NoItem,
     Listed, NoUsage, RestoreStates, Deciding, Acting

(* The states that listings and Stat report *)
LEMMA ListedItem ==
  ASSUME NEW v \in Versions, NEW i,
         \/ i = Listed(v)
         \/ \E r \in RestoreStates, m \in BOOLEAN :
              i = [Listed(v) EXCEPT !.known = TRUE, !.restore = r, !.moved = m]
  PROVE  i \in Items /\ i.version = v
<1>1. CASE i = Listed(v)
  BY <1>1 DEF Listed, Items, RestoreStates
<1>2. ASSUME NEW r \in RestoreStates, NEW m \in BOOLEAN,
             i = [Listed(v) EXCEPT !.known = TRUE, !.restore = r, !.moved = m]
      PROVE  i \in Items /\ i.version = v
  <2>1. i = [version |-> v, known |-> TRUE, moved |-> m, restore |-> r]
    BY <1>2 DEF Listed
  <2> QED
    BY <2>1 DEF Items
<1> QED
  BY <1>1, <1>2

(* The steps of handleObject up to its reservation *)
LEMMA DecidingShape ==
  ASSUME Shape, List \/ Evaluate \/ Stat \/ PlanMarker
  PROVE  Shape'
<1> USE DEF world, config, handler, wires, history
<1>1. /\ newest \in Nat /\ current \in Nat /\ Versions \subseteq Nat \ {0}
      /\ 1..newest \subseteq Versions
  BY ObjectAssumption DEF Shape, TypeOK, Versions
<1>2. CASE List
  <2>1. current \in Versions /\ current \in 1..newest
    BY <1>1, <1>2 DEF List, Shape, TypeOK
  <2>2. objects[current].restore \in RestoreStates /\ objects[current].moved \in BOOLEAN
    BY <2>1 DEF Shape, TypeOK, RestoreStates
  <2>3. /\ item' \in Items
        /\ item'.version = current
    <3>1. None \in RestoreStates
      BY DEF RestoreStates
    <3>2. \/ item' = Listed(current)
          \/ \E r \in RestoreStates, m \in BOOLEAN :
               item' = [Listed(current) EXCEPT !.known = TRUE, !.restore = r, !.moved = m]
      BY <1>2, <2>2, <3>1 DEF List
    <3> QED
      BY <2>1, <3>1, <3>2, ListedItem
  <2>4. visits' \in 0..MaxVisits
    BY <1>2, ObjectAssumption DEF List, Shape, TypeOK
  <2> QED
    BY <1>2, <2>1, <2>3, <2>4 DEF List, Shape, TypeOK, HandlerShape, WireShape, Deciding, Acting
<1>3. CASE Evaluate
  <2>1. PICK result \in [low : BOOLEAN, high : BOOLEAN] :
          \/ /\ chunkDay' = day /\ usage' = result /\ pc' = "stat"
             /\ item' = Listed(item.version) /\ UNCHANGED <<action, plan, reply>>
          \/ Done
    BY <1>3 DEF Evaluate
  <2>2. UNCHANGED <<world, config, visits, wires>> /\ pc = "listed"
    BY <1>3 DEF Evaluate
  <2>3. CASE Done
    BY <2>2, <2>3, DoneShape
  <2>4. CASE ~Done
    <3>1. item.version \in Versions /\ item.version \in 1..newest
      BY <1>1, <2>2 DEF Shape, HandlerShape, Deciding
    <3>2. /\ item' \in Items
          /\ item'.version = item.version
      BY <2>1, <2>4, <3>1, ListedItem
    <3> QED
      BY <2>1, <2>2, <2>4, <3>1, <3>2
      DEF Shape, TypeOK, HandlerShape, WireShape, Deciding, Acting
  <2> QED
    BY <2>3, <2>4
<1>4. CASE Stat
  <2>1. pc = "stat" /\ UNCHANGED <<world, config, visits, wires>>
    BY <1>4 DEF Stat
  <2>2. CASE Done
    BY <2>1, <2>2, DoneShape
  <2>3. CASE ~Done
    <3>1. current = item.version /\ Decided(objects[current])
      BY <1>4, <2>3 DEF Stat
    <3>2. current \in 1..newest /\ current \in Versions
      BY <1>1, <2>1, <3>1 DEF Shape, HandlerShape, Deciding
    <3>3. PICK a \in Actions :
            /\ item' = [version |-> current, known |-> TRUE, moved |-> objects[current].moved,
                        restore |-> objects[current].restore]
            /\ action' = a /\ pc' \in {"plan", "reserve"}
            /\ usage' = NoUsage /\ UNCHANGED <<chunkDay, plan, reply>>
      BY <2>3, <3>1 DEF Decided, DecideAction, Actions
    <3>4. objects[current].restore \in RestoreStates /\ objects[current].moved \in BOOLEAN
      BY <3>2 DEF Shape, TypeOK, RestoreStates
    <3> QED
      BY <2>1, <3>2, <3>3, <3>4
      DEF Items, Shape, TypeOK, HandlerShape, WireShape, NoUsage, Deciding, Acting, Actions
  <2> QED
    BY <2>2, <2>3
<1>5. CASE PlanMarker
  <2>1. pc = "plan" /\ UNCHANGED <<world, config, visits, wires>>
    BY <1>5 DEF PlanMarker
  <2>2. CASE Done
    BY <2>1, <2>2, DoneShape
  <2>3. CASE ~Done
    <3> DEFINE v == Target(item.version)
    <3>1. /\ v # 0 /\ Marker \notin objects[v].tags
          /\ Conflict \in objects[v].tags \/ Cardinality(objects[v].tags) < TagLimit
          /\ plan' = Merged(objects[v].tags) /\ pc' = "reserve"
          /\ UNCHANGED <<item, usage, chunkDay, action, reply>>
      BY <1>5, <2>3 DEF PlanMarker
    <3>2. v \in Versions
      BY <1>1, <2>1, <3>1 DEF Target, Shape, TypeOK, HandlerShape, Acting
    <3>3. plan' \in TagSets
      BY <3>1, <3>2, MergedFits DEF Shape, TypeOK
    <3> QED
      BY <2>1, <3>1, <3>3 DEF Shape, TypeOK, HandlerShape, WireShape, Deciding, Acting
  <2> QED
    BY <2>2, <2>3
<1> QED
  BY <1>2, <1>3, <1>4, <1>5

(* The reservation: the script keeps every key within its limit.             *)
LEMMA ReservingShape ==
  ASSUME Shape, Reserve \/ Reserved \/ (\E m \in redisWire : RedisReserve(m))
  PROVE  Shape'
<1> USE DEF world, config, handler, wires, history
<1>1. CASE Reserve
  <2>1. Kind(action) \in Kinds /\ (IF action = "renew" THEN 0 ELSE Size) \in Nat
    BY ObjectAssumption DEF Kind, Kinds
  <2>2. visits \in Nat /\ day \in Days
    BY DEF Shape, TypeOK
  <2>3. /\ redisWire' \subseteq [visit : Nat, kind : Kinds, day : Days, bytes : Nat]
        /\ pc = "reserve" /\ pc' \in {"reserving", "mutate"}
        /\ UNCHANGED <<world, config, visits, item, usage, chunkDay, action, plan, reply,
                      minioWire, used>>
    BY <1>1, <2>1, <2>2 DEF Reserve, Shape, WireShape
  <2> QED
    BY <2>3 DEF Shape, TypeOK, HandlerShape, WireShape, Deciding, Acting
<1>2. CASE Reserved
  <2>1. CASE Done
    BY <1>2, <2>1, DoneShape DEF Reserved
  <2>2. CASE ~Done
    BY <1>2, <2>2 DEF Reserved, Shape, TypeOK, HandlerShape, WireShape, Deciding, Acting
  <2> QED
    BY <2>1, <2>2
<1>3. ASSUME NEW m \in redisWire, RedisReserve(m)
      PROVE  Shape'
  <2> DEFINE now == used[m.kind][m.day]
             next == [attempts |-> now.attempts + 1, bytes |-> now.bytes + m.bytes]
  <2>1. m.kind \in Kinds /\ m.day \in Days /\ m.bytes \in Nat
    BY DEF Shape, WireShape
  <2>2. now.attempts \in Nat /\ now.bytes \in Nat
    BY <2>1 DEF Shape, WireShape
  <2>3. limit[m.kind].attempts \in Nat /\ limit[m.kind].bytes \in Nat
    BY <2>1, ObjectAssumption DEF Shape, TypeOK
  <2>4. /\ redisWire' \subseteq redisWire /\ reply' \in {reply, "allowed", "refused"}
        /\ UNCHANGED <<world, config, visits, pc, item, usage, chunkDay, action, plan, minioWire>>
        /\ \/ used' = used
           \/ /\ used' = [used EXCEPT ![m.kind][m.day] = next]
              /\ Within(now.attempts, 1, limit[m.kind].attempts)
              /\ Within(now.bytes, m.bytes, limit[m.kind].bytes)
    BY <1>3 DEF RedisReserve
  <2>5. CASE used' = used
    BY <2>4, <2>5 DEF Shape, TypeOK, HandlerShape, WireShape, Deciding, Acting
  <2>6. CASE used' # used
    <3>1. next \in [attempts : Nat, bytes : Nat]
      BY <2>1, <2>2
    <3>2. used' \in [Kinds -> [Days -> [attempts : Nat, bytes : Nat]]]
      <4> DEFINE T == [attempts : Nat, bytes : Nat]
                 row == [used[m.kind] EXCEPT ![m.day] = next]
      <4>1. used' = [used EXCEPT ![m.kind] = row]
        BY <2>4, <2>6
      <4>2. used \in [Kinds -> [Days -> T]] /\ next \in T
        BY <3>1 DEF Shape, WireShape
      <4> HIDE DEF T, next
      <4>3. row \in [Days -> T]
        BY <2>1, <4>2
      <4> HIDE DEF row
      <4>4. used' \in [Kinds -> [Days -> T]]
        BY <2>1, <4>1, <4>2, <4>3
      <4> QED
        BY <4>4 DEF T
    <3>3. \A k \in Kinds, d \in Days :
            used'[k][d] = IF k = m.kind /\ d = m.day THEN next ELSE used[k][d]
      <4> HIDE DEF next
      <4> QED
        BY <2>1, <2>4, <2>6 DEF Shape, WireShape
    <3>4. /\ next.attempts = now.attempts + 1 /\ next.bytes = now.bytes + m.bytes
          /\ limit[m.kind].attempts > 0 => next.attempts <= limit[m.kind].attempts
          /\ limit[m.kind].bytes > 0 => next.bytes <= limit[m.kind].bytes
      BY <2>1, <2>2, <2>3, <2>4, <2>6 DEF Within
    <3> HIDE DEF next, now
    <3>5. BudgetsKept
      BY DEF Shape, TypeOK, BudgetsKept
    <3>6. BudgetsKept'
      <4>1. limit' = limit
        BY <2>4
      <4> QED
        BY <3>1, <3>3, <3>4, <3>5, <4>1 DEF BudgetsKept
    <3>7. TypeOK'
      BY <2>4, <3>6 DEF Shape, TypeOK, BudgetsKept
    <3>8. HandlerShape'
      BY <2>4 DEF Shape, HandlerShape, Deciding, Acting
    <3>9. WireShape' /\ current' \in 0..newest'
      BY <2>4, <3>2 DEF Shape, WireShape
    <3> QED
      BY <3>7, <3>8, <3>9 DEF Shape
  <2> QED
    BY <2>5, <2>6
<1> QED
  BY <1>1, <1>2, <1>3

(* The request that changes the object, and what MinIO makes of it.          *)
LEMMA MutatingShape ==
  ASSUME Shape, Mutate \/ Mutated \/ GiveUp
                \/ (\E m \in minioWire : MinIOTag(m) \/ MinIORestore(m))
  PROVE  Shape'
<1> USE DEF world, config, handler, wires, history
<1>1. CASE Mutate
  <2> DEFINE m == [visit |-> visits, version |-> item.version, action |-> action,
                   tags |-> plan, chunkDay |-> chunkDay, expires |-> item.restore]
  <2>1. item.version \in 1..newest /\ action \in Actions
    BY <1>1 DEF Mutate, Shape, HandlerShape, Acting
  <2>2. item.version \in Versions
    BY <2>1, ObjectAssumption DEF Shape, TypeOK, Versions
  <2>3. visits \in Nat /\ plan \in TagSets /\ chunkDay \in Days /\ item.restore \in RestoreStates
    BY DEF Shape, TypeOK, HandlerShape, Items
  <2>4. /\ m \in [visit : Nat, version : Versions, action : Actions, tags : TagSets,
                  chunkDay : Days, expires : RestoreStates]
        /\ m.version = item.version
    BY <2>1, <2>2, <2>3
  <2>5. /\ minioWire' = minioWire \cup {m} /\ pc' = "mutating"
        /\ item' = NoItem /\ chunkDay' = 0 /\ plan' = {}
        /\ UNCHANGED <<world, config, visits, usage, action, reply, redisWire, used>>
    BY <1>1 DEF Mutate
  <2>6. NoItem \in Items /\ {} \in TagSets /\ 0 \in Days
    BY FS_EmptySet, ObjectAssumption DEF NoItem, Listed, Items, RestoreStates, TagSets, Days
  <2> HIDE DEF m
  <2>7. WireShape'
    BY <2>1, <2>4, <2>5 DEF Shape, WireShape
  <2> QED
    BY <2>5, <2>6, <2>7 DEF Shape, TypeOK, HandlerShape, Deciding, Acting
<1>2. CASE Mutated \/ GiveUp
  BY <1>2, DoneShape DEF Mutated, GiveUp
<1>3. ASSUME NEW m \in minioWire, MinIOTag(m) \/ MinIORestore(m)
      PROVE  Shape'
  <2> DEFINE v == Target(m.version)
  <2>1. /\ minioWire' \subseteq minioWire /\ reply' \in {reply, "done"}
        /\ UNCHANGED <<day, versioned, current, newest, changes, config, visits, pc, item,
                      usage, chunkDay, action, plan, redisWire, used>>
    BY <1>3 DEF MinIOTag, MinIORestore, Answered
  <2>2. v \in Versions \cup {0}
    BY DEF Target, Shape, TypeOK, WireShape
  <2>3. m.tags \in TagSets /\ Ongoing \in RestoreStates /\ day + RestoreDays + 1 \in RestoreStates
    BY ObjectAssumption DEF Shape, TypeOK, WireShape, RestoreStates, Days
  <2>4. \/ objects' = objects
        \/ v # 0 /\ objects' = [objects EXCEPT ![v].tags = m.tags]
        \/ \E r \in RestoreStates : v # 0 /\ objects' = [objects EXCEPT ![v].restore = r]
    BY <1>3, <2>3 DEF MinIOTag, MinIORestore
  <2> HIDE DEF v
  <2>5. objects' \in [Versions -> [tags : TagSets, moved : BOOLEAN, restore : RestoreStates]]
    BY <2>2, <2>3, <2>4 DEF Shape, TypeOK, RestoreStates
  <2> QED
    BY <2>1, <2>5 DEF Shape, TypeOK, HandlerShape, WireShape, Deciding, Acting, RestoreStates
<1> QED
  BY <1>1, <1>2, <1>3

(* Users, the clock and MinIO keep an object an object.                      *)
LEMMA WorldShape ==
  ASSUME Shape, World
  PROVE  Shape'
<1> USE DEF config, handler, wires
<1> DEFINE O == [tags : TagSets, moved : BOOLEAN, restore : RestoreStates]
<1>1. /\ objects \in [Versions -> O] /\ newest \in Versions /\ newest \in Nat /\ day \in Days
      /\ Versions \subseteq Nat \ {0} /\ 1..newest \subseteq Versions
      /\ MaxVersions \in Nat /\ MaxChanges \in Nat /\ changes \in 0..MaxChanges
  BY ObjectAssumption DEF Shape, TypeOK, RestoreStates, Versions
<1>2. ASSUME objects' \in [Versions -> O], newest' \in Versions, newest <= newest',
             day' \in Days, current' \in 0..newest', current' \in Versions \cup {0},
             changes' \in 0..MaxChanges
      PROVE  Shape'
  <2>1. UNCHANGED <<versioned, config, visits, handler, wires>>
    BY DEF World
  <2>2. \A n \in 1..newest : n \in 1..newest'
    BY <1>1, <1>2
  <2>3. WireShape'
    BY <2>1, <2>2 DEF Shape, WireShape
  <2>4. HandlerShape'
    BY <2>1, <2>2 DEF Shape, HandlerShape, Deciding, Acting
  <2>5. TypeOK'
    BY <1>2, <2>1 DEF Shape, TypeOK, RestoreStates
  <2> QED
    BY <1>2, <2>3, <2>4, <2>5 DEF Shape
<1>3. newest <= newest /\ newest \in Versions /\ current \in 0..newest
      /\ current \in Versions \cup {0}
  BY <1>1 DEF Shape
<1>4. CASE Midnight
  <2>1. day' \in Days
    BY <1>1, <1>4, ObjectAssumption DEF Midnight, Days
  <2> QED
    BY <1>1, <1>2, <1>3, <1>4, <2>1 DEF Midnight
<1>5. CASE Upload
  <2>1. PICK t \in SUBSET UserTags :
          Cardinality(t) <= TagLimit /\ objects' = [objects EXCEPT ![newest + 1] = NewObject(t)]
    BY <1>5 DEF Upload
  <2>2. NewObject(t) \in O
    BY <2>1, ObjectAssumption DEF NewObject, TagSets, RestoreStates
  <2>3. objects' \in [Versions -> O]
    BY <1>1, <2>1, <2>2
  <2>4. newest' \in Versions /\ newest <= newest' /\ current' \in 0..newest'
        /\ current' \in Versions \cup {0} /\ changes' \in 0..MaxChanges /\ day' = day
    BY <1>1, <1>5 DEF Upload, Versions
  <2> QED
    BY <1>1, <1>2, <2>3, <2>4
<1>6. CASE Delete
  <2>1. 0 \in 0..newest /\ changes' \in 0..MaxChanges
    BY <1>1, <1>6 DEF Delete
  <2> QED
    BY <1>1, <1>2, <1>3, <1>6, <2>1 DEF Delete
<1>7. CASE Retag
  <2>1. PICK t \in SUBSET UserTags :
          LET tags == t \cup (objects[current].tags \ UserTags)
          IN  Cardinality(tags) <= TagLimit /\ objects' = [objects EXCEPT ![current].tags = tags]
    BY <1>7 DEF Retag
  <2> DEFINE tags == t \cup (objects[current].tags \ UserTags)
  <2>2. current \in Versions
    BY <1>3, <1>7 DEF Retag
  <2>3. tags \in TagSets
    BY <1>1, <2>1, <2>2, ObjectAssumption DEF TagSets
  <2>4. objects' = [objects EXCEPT ![current].tags = tags]
    BY <2>1
  <2> HIDE DEF tags
  <2>5. objects' \in [Versions -> O]
    BY <1>1, <2>2, <2>3, <2>4
  <2>6. changes' \in 0..MaxChanges /\ UNCHANGED <<day, current, newest>>
    BY <1>1, <1>7 DEF Retag
  <2> QED
    BY <1>1, <1>2, <1>3, <2>5, <2>6
<1>8. CASE Transition
  <2>1. objects' \in [Versions -> O]
    BY <1>1, <1>3, <1>8 DEF Transition
  <2> QED
    BY <1>1, <1>2, <1>3, <1>8, <2>1 DEF Transition
<1>9. ASSUME NEW v \in Versions, RestoreCompletes(v) \/ CopyExpires(v)
      PROVE  Shape'
  <2>1. PICK r \in RestoreStates : SetRestore(v, r)
    <3>1. day + RestoreDays + 1 \in RestoreStates /\ None \in RestoreStates
      BY <1>1, ObjectAssumption DEF RestoreStates, Days
    <3> QED
      BY <1>9, <3>1 DEF RestoreCompletes, CopyExpires
  <2>2. objects' \in [Versions -> O]
    BY <1>1, <2>1 DEF SetRestore
  <2> QED
    BY <1>1, <1>2, <1>3, <2>1, <2>2 DEF SetRestore
<1> QED
  BY <1>4, <1>5, <1>6, <1>7, <1>8, <1>9 DEF World

(* So every step keeps the types. *)
LEMMA ShapeStep ==
  ASSUME Shape, [Next]_vars
  PROVE  Shape'
<1>1. CASE UNCHANGED vars
  BY <1>1 DEF vars, world, config, handler, wires, Shape, TypeOK, HandlerShape, WireShape,
     Deciding, Acting
<1> QED
  BY <1>1, DecidingShape, ReservingShape, MutatingShape, WorldShape DEF Next

(* Types are an invariant. *)
LEMMA ShapeInvariance == Spec => []Shape
<1>1. Shape /\ [Next]_vars => Shape'
  BY ShapeStep
<1> QED
  BY <1>1, InitShape, PTL DEF Spec

(* Variables keep their types, no budget key passes its limit, and no        *)
(* request writes more tags than an object can have.                        *)
THEOREM ActionTypeCorrect == Spec => []TypeOK
<1>1. Shape => TypeOK
  BY DEF Shape
<1> QED
  BY <1>1, ShapeInvariance, PTL

-----------------------------------------------------------------------------
(* Only judged versions are changed. *)

(* The version that handleObject works on was judged for what it wants to do *)
(* with it, and so was the version in every request on its way.             *)
JudgedInv ==
  /\ pc = "stat" =>
       /\ usage.low => <<item.version, "transition">> \in judged
       /\ usage.high => <<item.version, "restore">> \in judged
  /\ pc \in Acting => <<item.version, Kind(action)>> \in judged
  /\ \A m \in minioWire : <<m.version, Kind(m.action)>> \in judged
  /\ OnlyJudgedChanged

(* SameIdentity is what carries the judgement from the listing to the        *)
(* request, and the version ID what carries it on to the object.            *)
LEMMA JudgedStep ==
  ASSUME Shape, JudgedInv, [Next]_vars
  PROVE  JudgedInv'
<1> USE DEF world, config, handler, wires, history
<1>1. ASSUME Done, UNCHANGED <<versioned, minioWire, changed>>, judged \subseteq judged'
      PROVE  JudgedInv'
  BY <1>1 DEF JudgedInv, Done, OnlyJudgedChanged, Acting
<1>2. CASE List
  BY <1>2 DEF List, JudgedInv, OnlyJudgedChanged, Acting
<1>3. CASE Evaluate
  <2>1. PICK result \in [low : BOOLEAN, high : BOOLEAN] :
          \/ /\ usage' = result /\ pc' = "stat" /\ item' = Listed(item.version)
             /\ judged' = judged \cup
                  {<<item.version, k>> : k \in {j \in Kinds :
                     IF j = "transition" THEN result.low ELSE result.high}}
          \/ Done /\ UNCHANGED judged
    BY <1>3 DEF Evaluate
  <2>2. UNCHANGED <<versioned, minioWire, changed>>
    BY <1>3 DEF Evaluate
  <2>3. CASE Done /\ UNCHANGED judged
    BY <1>1, <2>2, <2>3
  <2>4. CASE ~(Done /\ UNCHANGED judged)
    <3>1. item'.version = item.version
      BY <2>1, <2>4 DEF Listed
    <3>2. judged \subseteq judged'
          /\ (usage'.low => <<item.version, "transition">> \in judged')
          /\ (usage'.high => <<item.version, "restore">> \in judged')
      BY <2>1, <2>4 DEF Kinds
    <3> QED
      BY <2>1, <2>2, <2>4, <3>1, <3>2 DEF JudgedInv, OnlyJudgedChanged, Acting
  <2> QED
    BY <2>3, <2>4
<1>4. CASE Stat
  <2>1. pc = "stat" /\ UNCHANGED <<versioned, minioWire, changed, judged>>
    BY <1>4 DEF Stat
  <2>2. CASE Done
    BY <1>1, <2>1, <2>2
  <2>3. CASE ~Done
    <3>1. current = item.version /\ Decided(objects[current])
      BY <1>4, <2>3 DEF Stat
    <3>2. PICK a : /\ a = DecideAction(objects[current], usage, chunkDay) /\ a # "none"
                   /\ action' = a /\ item'.version = current /\ pc' \in {"plan", "reserve"}
      BY <2>3, <3>1 DEF Decided
    <3>3. <<current, Kind(a)>> \in judged
      BY <2>1, <3>1, <3>2 DEF DecideAction, Kind, JudgedInv
    <3> QED
      BY <2>1, <3>2, <3>3 DEF JudgedInv, OnlyJudgedChanged
  <2> QED
    BY <2>2, <2>3
<1>5. CASE PlanMarker
  <2>1. pc = "plan" /\ UNCHANGED <<versioned, minioWire, changed, judged>>
        /\ (Done \/ (UNCHANGED <<item, action>> /\ pc' = "reserve"))
    BY <1>5 DEF PlanMarker
  <2> QED
    BY <1>1, <2>1 DEF JudgedInv, OnlyJudgedChanged, Acting
<1>6. CASE Reserve \/ (\E m \in redisWire : RedisReserve(m))
  <2>1. UNCHANGED <<versioned, minioWire, changed, judged, item, action, usage>>
        /\ (pc' = pc \/ (pc \in Acting /\ pc' \in Acting))
    BY <1>6 DEF Reserve, RedisReserve, Acting
  <2> QED
    BY <2>1 DEF JudgedInv, OnlyJudgedChanged, Acting
<1>7. CASE Reserved
  <2>1. pc = "reserving" /\ UNCHANGED <<versioned, minioWire, changed, judged>>
        /\ (Done \/ (UNCHANGED <<item, action>> /\ pc' = "mutate"))
    BY <1>7 DEF Reserved
  <2> QED
    BY <1>1, <2>1 DEF JudgedInv, OnlyJudgedChanged, Acting
<1>8. CASE Mutate
  <2> DEFINE m == [visit |-> visits, version |-> item.version, action |-> action,
                   tags |-> plan, chunkDay |-> chunkDay, expires |-> item.restore]
  <2>1. minioWire' = minioWire \cup {m} /\ m.version = item.version /\ m.action = action
    BY <1>8 DEF Mutate
  <2> HIDE DEF m
  <2>2. pc = "mutate" /\ pc' = "mutating" /\ UNCHANGED <<versioned, changed, judged>>
    BY <1>8 DEF Mutate
  <2> QED
    BY <2>1, <2>2 DEF JudgedInv, OnlyJudgedChanged, Acting
<1>9. CASE Mutated \/ GiveUp
  BY <1>1, <1>9 DEF Mutated, GiveUp
<1>10. ASSUME NEW m \in minioWire, MinIOTag(m) \/ MinIORestore(m)
       PROVE  JudgedInv'
  <2>1. /\ UNCHANGED <<versioned, pc, item, action, usage, judged>>
        /\ minioWire' \subseteq minioWire
        /\ changed' \subseteq changed \cup {<<Target(m.version), Kind(m.action)>>}
    BY <1>10 DEF MinIOTag, MinIORestore, Answered, Kind
  <2>2. versioned => changed' \subseteq judged
    BY <2>1 DEF Target, JudgedInv, OnlyJudgedChanged
  <2> QED
    BY <2>1, <2>2 DEF JudgedInv, OnlyJudgedChanged
<1>11. CASE World \/ UNCHANGED vars
  <2>1. UNCHANGED <<versioned, pc, item, action, usage, judged, minioWire, changed>>
    BY <1>11 DEF World, vars
  <2> QED
    BY <2>1 DEF JudgedInv, OnlyJudgedChanged
<1> QED
  BY <1>2, <1>3, <1>4, <1>5, <1>6, <1>7, <1>8, <1>9, <1>10, <1>11 DEF Next

(* In a bucket that keeps versions a request changes only the version that   *)
(* was judged, however late MinIO executes it.                              *)
THEOREM OnlyJudgedAreChanged == Spec => []OnlyJudgedChanged
<1>1. Init => JudgedInv
  BY DEF Init, JudgedInv, OnlyJudgedChanged, Acting
<1>2. Shape /\ JudgedInv /\ [Next]_vars => JudgedInv'
  BY JudgedStep
<1>3. JudgedInv => OnlyJudgedChanged
  BY DEF JudgedInv
<1> QED
  BY <1>1, <1>2, <1>3, ShapeInvariance, PTL DEF Spec

-----------------------------------------------------------------------------
(* A renewal starts a copy only behind an expiry. *)

(* A copy that was to last until day e is there, or longer, or has expired.  *)
LastsOrExpired(v, e) == e <= day \/ (objects[v].restore \in Nat /\ e <= objects[v].restore)

(* No copy lasts longer than one that is made today; and a renewal is only   *)
(* decided, and only sent, for a copy that outlasted the start of its chunk. *)
RenewalInv ==
  /\ \A v \in Versions :
       objects[v].restore \in Nat => objects[v].restore <= day + RestoreDays + 1
  /\ pc \in Acting /\ action = "renew" =>
       /\ item.restore \in Nat /\ chunkDay < item.restore
       /\ LastsOrExpired(item.version, item.restore)
  /\ \A m \in minioWire : m.action = "renew" =>
       /\ m.expires \in Nat /\ m.chunkDay < m.expires
       /\ LastsOrExpired(m.version, m.expires)
  /\ UnchargedOnlyIfExpired

(* A step that no copy gets lost in before its time *)
StillLasts ==
  /\ \A v \in Versions :
       objects'[v].restore \in Nat => objects'[v].restore <= day' + RestoreDays + 1
  /\ \A v \in 1..newest, e \in Nat : LastsOrExpired(v, e) => LastsOrExpired(v, e)'
  /\ day' \in Nat /\ day <= day'

(* Whoever changes the object, copies last until they expire.                *)
LEMMA LastingStep ==
  ASSUME Shape, RenewalInv, World \/ (\E m \in minioWire : MinIOTag(m) \/ MinIORestore(m))
  PROVE  StillLasts
<1>1. /\ objects \in [Versions -> [tags : TagSets, moved : BOOLEAN, restore : RestoreStates]]
      /\ day \in Nat /\ newest \in Nat /\ 1..newest \subseteq Versions /\ newest + 1 \notin 1..newest
      /\ RestoreDays \in Nat /\ Versions \subseteq Nat
  BY ObjectAssumption DEF Shape, TypeOK, RestoreStates, Versions, Days
<1>2. /\ \A v \in Versions :
            objects[v].restore \in Nat => objects[v].restore <= day + RestoreDays + 1
      /\ None \notin Nat /\ Ongoing \notin Nat /\ None # Ongoing
  BY ObjectAssumption DEF RenewalInv
<1>3. ASSUME day' = day,
             \A v \in Versions : objects'[v].restore = objects[v].restore
                                \/ (v = newest + 1 /\ objects'[v].restore = None)
      PROVE  StillLasts
  BY <1>1, <1>2, <1>3 DEF LastsOrExpired, StillLasts
<1>4. ASSUME NEW u \in Versions, NEW r \in RestoreStates, day' = day,
             objects' = [objects EXCEPT ![u].restore = r],
             r \in Nat => r = day + RestoreDays + 1,
             \/ objects[u].restore \notin Nat
             \/ objects[u].restore <= day
             \/ r = day + RestoreDays + 1
      PROVE  StillLasts
  <2>1. \A v \in Versions :
          objects'[v].restore = IF v = u THEN r ELSE objects[v].restore
    BY <1>1, <1>4
  <2> QED
    BY <1>1, <1>2, <1>4, <2>1 DEF LastsOrExpired, StillLasts
<1>5. CASE Midnight
  <2>1. day' = day + 1 /\ objects' = objects
    BY <1>5 DEF Midnight
  <2> QED
    BY <1>1, <1>2, <2>1 DEF LastsOrExpired, StillLasts
<1>6. CASE Upload
  <2>1. PICK t : objects' = [objects EXCEPT ![newest + 1] = NewObject(t)]
    BY <1>6 DEF Upload
  <2>2. \A v \in Versions : objects'[v].restore = objects[v].restore
                           \/ (v = newest + 1 /\ objects'[v].restore = None)
    BY <1>1, <2>1 DEF NewObject
  <2> QED
    BY <1>3, <1>6, <2>2 DEF Upload
<1>7. CASE Delete
  BY <1>3, <1>7 DEF Delete
<1>8. CASE Retag
  <2>1. PICK tags : objects' = [objects EXCEPT ![current].tags = tags]
    BY <1>8 DEF Retag
  <2>2. \A v \in Versions : objects'[v].restore = objects[v].restore
    BY <1>1, <2>1
  <2> QED
    BY <1>3, <1>8, <2>2 DEF Retag
<1>9. CASE Transition
  <2>1. \A v \in Versions : objects'[v].restore = objects[v].restore
    BY <1>1, <1>9 DEF Transition
  <2> QED
    BY <1>3, <1>9, <2>1 DEF Transition
<1>10. ASSUME NEW u \in Versions, RestoreCompletes(u)
       PROVE  StillLasts
  <2>1. day + RestoreDays + 1 \in RestoreStates
    BY <1>1 DEF RestoreStates
  <2> QED
    BY <1>2, <1>4, <1>10, <2>1 DEF RestoreCompletes, SetRestore
<1>11. ASSUME NEW u \in Versions, CopyExpires(u)
       PROVE  StillLasts
  <2>1. None \in RestoreStates
    BY DEF RestoreStates
  <2> QED
    BY <1>2, <1>4, <1>11, <2>1 DEF CopyExpires, SetRestore
<1>12. ASSUME NEW m \in minioWire, MinIOTag(m)
       PROVE  StillLasts
  <2>1. objects' = objects \/ \E u, tags : objects' = [objects EXCEPT ![u].tags = tags]
    BY <1>12 DEF MinIOTag
  <2>2. \A v \in Versions : objects'[v].restore = objects[v].restore
    BY <1>1, <2>1
  <2> QED
    BY <1>3, <1>12, <2>2 DEF MinIOTag, Answered
<1>13. ASSUME NEW m \in minioWire, MinIORestore(m)
       PROVE  StillLasts
  <2> DEFINE u == Target(m.version)
  <2>1. u \in Versions \cup {0}
    BY DEF Target, Shape, TypeOK, WireShape
  <2>2. day' = day
    BY <1>13 DEF MinIORestore, Answered
  <2>3. \/ objects' = objects
        \/ /\ u # 0 /\ objects[u].restore = None
           /\ objects' = [objects EXCEPT ![u].restore = Ongoing]
        \/ /\ u # 0
           /\ objects' = [objects EXCEPT ![u].restore = day + RestoreDays + 1]
    BY <1>13 DEF MinIORestore
  <2> HIDE DEF u
  <2>4. Ongoing \in RestoreStates /\ day + RestoreDays + 1 \in RestoreStates
    BY <1>1 DEF RestoreStates
  <2> QED
    BY <1>2, <1>3, <1>4, <2>1, <2>2, <2>3, <2>4
<1> QED
  BY <1>5, <1>6, <1>7, <1>8, <1>9, <1>10, <1>11, <1>12, <1>13 DEF World

(* Stat sees a copy that outlasts the chunk's start, DecideAction renews it, *)
(* and MinIO begins another only when it is gone.                           *)
LEMMA RenewalStep ==
  ASSUME Shape, RenewalInv, [Next]_vars
  PROVE  RenewalInv'
<1> USE DEF world, config, handler, wires, history
<1>1. ASSUME UNCHANGED <<objects, day, minioWire, uncharged>>,
             \/ pc' \notin Acting
             \/ action' # "renew"
             \/ pc \in Acting /\ UNCHANGED <<item, chunkDay, action>>
      PROVE  RenewalInv'
  BY <1>1 DEF RenewalInv, LastsOrExpired, UnchargedOnlyIfExpired
<1>2. CASE List \/ Evaluate
  <2>1. UNCHANGED <<objects, day, minioWire, uncharged>> /\ pc' \in {"listed", "stat", "idle"}
    BY <1>2 DEF List, Evaluate, Done
  <2> QED
    BY <1>1, <2>1 DEF Acting
<1>3. CASE Stat
  <2>1. pc = "stat" /\ UNCHANGED <<objects, day, minioWire, uncharged>>
    BY <1>3 DEF Stat
  <2>2. CASE Done
    BY <1>1, <2>1, <2>2 DEF Done, Acting
  <2>3. CASE ~Done
    <3>1. current = item.version /\ Decided(objects[current])
      BY <1>3, <2>3 DEF Stat
    <3>2. PICK a : /\ a = DecideAction(objects[current], usage, chunkDay)
                   /\ action' = a /\ chunkDay' = chunkDay
                   /\ item' = [version |-> current, known |-> TRUE,
                               moved |-> objects[current].moved,
                               restore |-> objects[current].restore]
      BY <2>3, <3>1 DEF Decided
    <3>3. item'.version = current /\ item'.restore = objects[current].restore
      BY <3>2
    <3>4. current \in Versions
      BY <2>1, <3>1, ObjectAssumption
      DEF Shape, TypeOK, HandlerShape, Deciding, Versions
    <3>5. objects[current].restore \in RestoreStates /\ chunkDay \in Nat
      BY <3>4 DEF Shape, TypeOK, HandlerShape, RestoreStates, Days
    <3>6. CASE a = "renew"
      <4>1. objects[current].restore \in Nat /\ chunkDay < objects[current].restore
        BY <3>2, <3>5, <3>6 DEF DecideAction, RestoreStates
      <4>2. LastsOrExpired(item.version, objects[current].restore)
        BY <3>1, <4>1 DEF LastsOrExpired
      <4> QED
        BY <2>1, <3>1, <3>2, <3>3, <4>1, <4>2
        DEF RenewalInv, LastsOrExpired, UnchargedOnlyIfExpired
    <3>7. CASE a # "renew"
      BY <1>1, <2>1, <3>2, <3>7
    <3> QED
      BY <3>6, <3>7
  <2> QED
    BY <2>2, <2>3
<1>4. CASE PlanMarker \/ Reserve \/ Reserved
  <2>1. UNCHANGED <<objects, day, minioWire, uncharged>> /\ pc \in Acting
    BY <1>4 DEF PlanMarker, Reserve, Reserved, Acting
  <2>2. Done \/ UNCHANGED <<item, chunkDay, action>>
    BY <1>4 DEF PlanMarker, Reserve, Reserved
  <2> QED
    BY <1>1, <2>1, <2>2 DEF Done, Acting
<1>5. CASE Mutated \/ GiveUp
  BY <1>1, <1>5 DEF Mutated, GiveUp, Done, Acting
<1>6. CASE \E m \in redisWire : RedisReserve(m)
  <2>1. UNCHANGED <<objects, day, minioWire, uncharged, pc, item, chunkDay, action>>
    BY <1>6 DEF RedisReserve
  <2> QED
    BY <1>1, <2>1
<1>7. CASE Mutate
  <2> DEFINE m == [visit |-> visits, version |-> item.version, action |-> action,
                   tags |-> plan, chunkDay |-> chunkDay, expires |-> item.restore]
  <2>1. /\ minioWire' = minioWire \cup {m} /\ m.version = item.version /\ m.action = action
        /\ m.chunkDay = chunkDay /\ m.expires = item.restore
    BY <1>7 DEF Mutate
  <2> HIDE DEF m
  <2>2. /\ UNCHANGED <<objects, day, uncharged>>
        /\ pc = "mutate" /\ pc' = "mutating"
    BY <1>7 DEF Mutate
  <2> QED
    BY <2>1, <2>2 DEF RenewalInv, LastsOrExpired, UnchargedOnlyIfExpired, Acting
<1>8. ASSUME StillLasts, minioWire' \subseteq minioWire,
             UNCHANGED <<pc, item, chunkDay, action>>, UnchargedOnlyIfExpired'
      PROVE  RenewalInv'
  <2>1. Versions' = Versions /\ \A m \in minioWire : m.version \in 1..newest
    BY DEF Shape, WireShape, Versions
  <2>2. pc \in Acting => item.version \in 1..newest
    BY DEF Shape, HandlerShape
  <2> QED
    BY <1>8, <2>1, <2>2 DEF RenewalInv, StillLasts
<1>9. ASSUME NEW m \in minioWire, MinIOTag(m)
      PROVE  RenewalInv'
  <2>1. /\ minioWire' \subseteq minioWire
        /\ UNCHANGED <<pc, item, chunkDay, action, uncharged>>
    BY <1>9 DEF MinIOTag, Answered
  <2>2. UnchargedOnlyIfExpired'
    BY <2>1 DEF RenewalInv, UnchargedOnlyIfExpired
  <2> QED
    BY <1>8, <1>9, <2>1, <2>2, LastingStep
<1>10. ASSUME NEW m \in minioWire, MinIORestore(m)
       PROVE  RenewalInv'
  <2> DEFINE v == Target(m.version)
             u == [request |-> m, version |-> v, day |-> day]
  <2>1. /\ minioWire' \subseteq minioWire
        /\ UNCHANGED <<pc, item, chunkDay, action>>
    BY <1>10 DEF MinIORestore, Answered
  <2>2. \/ uncharged' = uncharged
        \/ /\ uncharged' = uncharged \cup {u}
           /\ objects[v].restore = None /\ m.action = "renew"
    BY <1>10 DEF MinIORestore
  <2>3. u.request = m /\ u.version = v /\ u.day = day
    OBVIOUS
  <2> HIDE DEF u
  <2>4. UnchargedOnlyIfExpired'
    <3>1. ASSUME objects[v].restore = None, m.action = "renew", v = m.version
          PROVE  m.chunkDay < m.expires /\ m.expires <= day
      BY <3>1, ObjectAssumption DEF RenewalInv, LastsOrExpired
    <3> HIDE DEF v
    <3> QED
      BY <2>2, <2>3, <3>1 DEF RenewalInv, UnchargedOnlyIfExpired
  <2> QED
    BY <1>8, <1>10, <2>1, <2>4, LastingStep
<1>11. CASE World
  <2>1. UNCHANGED <<minioWire, pc, item, chunkDay, action, uncharged>>
    BY <1>11 DEF World
  <2>2. UnchargedOnlyIfExpired'
    BY <2>1 DEF RenewalInv, UnchargedOnlyIfExpired
  <2> QED
    BY <1>8, <1>11, <2>1, <2>2, LastingStep
<1>12. CASE UNCHANGED vars
  BY <1>1, <1>12 DEF vars
<1> QED
  BY <1>2, <1>3, <1>4, <1>5, <1>6, <1>7, <1>9, <1>10, <1>11, <1>12 DEF Next

(* A copy that was charged no bytes is begun only if the one that was to be  *)
(* renewed expired between the start of the chunk and the request.           *)
THEOREM FreeCopyOnlyIfExpired == Spec => []UnchargedOnlyIfExpired
<1>1. ASSUME Init PROVE RenewalInv
  <2>1. /\ pc = "idle" /\ minioWire = {} /\ uncharged = {} /\ day = 0
        /\ \A v \in Versions : objects[v].restore \in Nat => objects[v].restore = 1
    <3>1. PICK t \in TagSets, r \in {None, Ongoing, 1}, m \in BOOLEAN :
            objects = [v \in Versions |->
              IF v = 1 THEN [tags |-> t, moved |-> m, restore |-> r] ELSE NewObject({})]
      BY <1>1 DEF Init
    <3>2. \A v \in Versions : objects[v].restore = IF v = 1 THEN r ELSE None
      BY <3>1 DEF NewObject
    <3> QED
      BY <1>1, <3>2, ObjectAssumption DEF Init
  <2> QED
    BY <2>1, ObjectAssumption DEF RenewalInv, UnchargedOnlyIfExpired, Acting
<1>2. Shape /\ RenewalInv /\ [Next]_vars => RenewalInv'
  BY RenewalStep
<1>3. RenewalInv => UnchargedOnlyIfExpired
  BY DEF RenewalInv
<1> QED
  BY <1>1, <1>2, <1>3, ShapeInvariance, PTL DEF Spec
-----------------------------------------------------------------------------
(* Tags of others are kept. *)

(* What a visit has read of the tags of others is still so, unless they or   *)
(* the object were replaced.                                                *)
Sees(v, visit, tags) ==
  v # 0 /\ visit \notin stale => tags \cap UserTags = objects[v].tags \cap UserTags

Planned == {"reserve", "reserving", "mutate"}

(* One request a visit; and the tags in it, or planned for it, are those of  *)
(* the object with the marker.                                              *)
TagsInv ==
  /\ \A m, n \in minioWire : m.visit = n.visit => m = n
  /\ \A m \in minioWire :
       /\ m.visit <= visits /\ (pc \in Deciding \cup Acting => m.visit < visits)
       /\ m.action = "mark" => Sees(Target(m.version), m.visit, m.tags)
  /\ plan # {} => pc \in Planned /\ Sees(Target(item.version), visits, plan)
  /\ pc \in Planned /\ action = "mark" => plan # {}

(* Nobody but MinIO writes tags without making those who read them before    *)
(* stale.                                                                   *)
LEMMA SeenTagsStay ==
  ASSUME Shape, World, NEW w \in 1..newest, NEW visit \in Readers(Target(w))
  PROVE  /\ stale \subseteq stale'
         /\ \/ visit \in stale'
            \/ Target(w)' = 0
            \/ Target(w)' = Target(w) /\ objects'[Target(w)].tags = objects[Target(w)].tags
<1>1. /\ objects \in [Versions -> [tags : TagSets, moved : BOOLEAN, restore : RestoreStates]]
      /\ newest \in Nat /\ current \in 0..newest /\ versioned' = versioned
      /\ newest + 1 \notin 0..newest /\ Target(w) \in 0..newest
      /\ \A v \in 0..newest : v = 0 \/ v \in Versions
  BY ObjectAssumption DEF Shape, TypeOK, RestoreStates, World, Versions, Target
<1>2. ASSUME current' = current, stale' = stale,
             \A v \in Versions : objects'[v].tags = objects[v].tags
      PROVE  Target(w)' = Target(w)
             /\ (Target(w) = 0 \/ objects'[Target(w)].tags = objects[Target(w)].tags)
  <2>1. Target(w)' = Target(w)
    BY <1>1, <1>2 DEF Target
  <2> QED
    BY <1>1, <1>2, <2>1
<1>3. CASE Midnight
  BY <1>1, <1>3 DEF Midnight, Target
<1>4. CASE Upload
  <2>1. /\ \E o : objects' = [objects EXCEPT ![newest + 1] = o]
        /\ stale' = IF versioned THEN stale ELSE stale \cup Readers(current)
    BY <1>4 DEF Upload
  <2>2. objects'[Target(w)] = objects[Target(w)] \/ ~versioned
    BY <1>1, <2>1 DEF Target
  <2> QED
    BY <1>1, <2>1, <2>2 DEF Target
<1>5. CASE Delete
  BY <1>1, <1>5 DEF Delete, Target
<1>6. CASE Retag
  <2>1. /\ \E tags : objects' = [objects EXCEPT ![current].tags = tags]
        /\ stale' = stale \cup Readers(current) /\ current' = current
    BY <1>6 DEF Retag
  <2>2. Target(w) = current \/ objects'[Target(w)].tags = objects[Target(w)].tags
    BY <1>1, <2>1
  <2> QED
    BY <1>1, <2>1, <2>2 DEF Target
<1>7. CASE Transition
  BY <1>1, <1>2, <1>7 DEF Transition
<1>8. ASSUME NEW v \in Versions, RestoreCompletes(v) \/ CopyExpires(v)
      PROVE  /\ current' = current /\ stale' = stale
             /\ \A u \in Versions : objects'[u].tags = objects[u].tags
  BY <1>1, <1>8 DEF RestoreCompletes, CopyExpires, SetRestore
<1>9. CASE \E v \in Versions : RestoreCompletes(v) \/ CopyExpires(v)
  BY <1>1, <1>2, <1>8, <1>9
<1> QED
  BY <1>3, <1>4, <1>5, <1>6, <1>7, <1>9 DEF World

(* MinIO writes the tags of one request; the others that have read the tags  *)
(* before are stale then, unless nothing changed.                           *)
LEMMA TagKeepsTags ==
  ASSUME Shape, TagsInv, NEW m \in minioWire, MinIOTag(m)
  PROVE  TagsInv'
<1> DEFINE v == Target(m.version)
<1>1. /\ objects \in [Versions -> [tags : TagSets, moved : BOOLEAN, restore : RestoreStates]]
      /\ v \in Versions \cup {0}
  BY DEF Shape, TypeOK, RestoreStates, WireShape, Target
<1>2. /\ minioWire' = minioWire \ {m} /\ m.action = "mark"
      /\ UNCHANGED <<versioned, current, pc, visits, item, action, plan>>
  BY DEF MinIOTag, Answered
<1>3. \A w : Target(w)' = Target(w)
  BY <1>2 DEF Target
<1>4. ASSUME NEW w, NEW visit \in Readers(Target(w)), visit # m.visit, NEW tags,
             Sees(Target(w), visit, tags)
      PROVE  Sees(Target(w), visit, tags)'
  <2>1. CASE v = 0
    BY <1>3, <1>4, <2>1 DEF Sees, MinIOTag
  <2>2. CASE v # 0
    <3>1. /\ objects' = [objects EXCEPT ![v].tags = m.tags]
          /\ stale' = IF m.tags = objects[v].tags THEN stale
                      ELSE stale \cup (Readers(v) \ {m.visit})
      BY <2>2 DEF MinIOTag
    <3> HIDE DEF v
    <3>2. CASE Target(w) = v
      BY <1>1, <1>3, <1>4, <2>2, <3>1, <3>2 DEF Sees
    <3>3. CASE Target(w) # v
      <4>1. objects'[Target(w)] = objects[Target(w)] /\ stale \subseteq stale'
        BY <1>1, <3>1, <3>3
      <4> QED
        BY <1>3, <1>4, <4>1 DEF Sees
    <3> QED
      BY <3>2, <3>3
  <2> QED
    BY <2>1, <2>2
<1>5. ASSUME NEW n \in minioWire', n.action = "mark"
      PROVE  Sees(Target(n.version), n.visit, n.tags)'
  <2>1. n \in minioWire /\ n # m /\ n.visit # m.visit
    BY <1>2 DEF TagsInv
  <2>2. n.visit \in Readers(Target(n.version))
    BY <1>5, <2>1 DEF Readers
  <2>3. Sees(Target(n.version), n.visit, n.tags)
    BY <1>5, <2>1 DEF TagsInv
  <2> QED
    BY <1>4, <2>1, <2>2, <2>3
<1>6. ASSUME plan # {}
      PROVE  pc \in Planned /\ Sees(Target(item.version), visits, plan)'
  <2>1. pc \in Planned /\ Sees(Target(item.version), visits, plan)
    BY <1>6 DEF TagsInv
  <2>2. m.visit < visits /\ visits \in Nat /\ m.visit \in Nat
    BY <2>1 DEF TagsInv, Planned, Acting, Shape, TypeOK, WireShape
  <2>3. visits \in Readers(Target(item.version)) /\ visits # m.visit
    BY <1>6, <2>2 DEF Readers
  <2>4. Sees(Target(item.version), visits, plan)'
    BY <1>2, <1>4, <2>1, <2>3 DEF Sees, Target
  <2> QED
    BY <2>1, <2>4
<1> QED
  BY <1>2, <1>5, <1>6 DEF TagsInv

(* A visit reads the tags and merges the marker into them; what happens to   *)
(* them afterwards makes it stale.                                          *)
LEMMA TagsStep ==
  ASSUME Shape, TagsInv, [Next]_vars
  PROVE  TagsInv'
<1> USE DEF world, config, handler, wires, history
<1>1. ASSUME UNCHANGED <<versioned, current, objects, stale>>, minioWire' \subseteq minioWire,
             visits' = visits, pc' \in Deciding \cup Acting => pc \in Deciding \cup Acting,
             \/ plan' = {} /\ (pc' \in Planned => action' # "mark")
             \/ UNCHANGED <<plan, item, action>> /\ (pc \in Planned <=> pc' \in Planned)
      PROVE  TagsInv'
  <2>1. \A v, visit, tags : Sees(v, visit, tags)' = Sees(v, visit, tags)
    BY <1>1 DEF Sees
  <2> QED
    BY <1>1, <2>1 DEF TagsInv, Target, Sees
<1>2. CASE List
  <2>1. visits' = visits + 1 /\ UNCHANGED <<versioned, current, objects, stale, minioWire, plan>>
        /\ pc = "idle" /\ pc' = "listed" /\ visits \in Nat
    BY <1>2 DEF List, Shape, TypeOK
  <2>2. plan = {} /\ \A m \in minioWire : m.visit \in Nat
    BY <2>1 DEF TagsInv, Planned, Shape, WireShape
  <2> QED
    BY <2>1, <2>2 DEF TagsInv, Sees, Target, Planned
<1>3. CASE Evaluate \/ Stat \/ Mutated \/ GiveUp
  <2>1. UNCHANGED <<versioned, current, objects, stale, minioWire, visits>>
    BY <1>3 DEF Evaluate, Stat, Mutated, GiveUp
  <2>2. CASE Done
    BY <1>1, <2>1, <2>2 DEF Done, Deciding, Acting, Planned
  <2>3. CASE ~Done
    <3>1. pc \in Deciding /\ plan' = plan
          /\ pc' \in {"stat", "plan", "reserve"} /\ (pc' = "reserve" => action' # "mark")
      BY <1>3, <2>3 DEF Evaluate, Stat, Decided, Mutated, GiveUp, Deciding
    <3>2. plan = {}
      BY <3>1 DEF TagsInv, Deciding, Planned
    <3> QED
      BY <1>1, <2>1, <3>1, <3>2 DEF Planned
  <2> QED
    BY <2>2, <2>3
<1>4. CASE PlanMarker
  <2>1. pc = "plan" /\ UNCHANGED <<versioned, current, objects, stale, minioWire, visits>>
    BY <1>4 DEF PlanMarker
  <2>2. CASE Done
    BY <1>1, <2>1, <2>2 DEF Done, Deciding, Acting, Planned
  <2>3. CASE ~Done
    <3> DEFINE v == Target(item.version)
    <3>1. v # 0 /\ plan' = Merged(objects[v].tags) /\ pc' = "reserve" /\ UNCHANGED <<item, action>>
      BY <1>4, <2>3 DEF PlanMarker
    <3>2. plan' # {} /\ plan' \cap UserTags = objects[v].tags \cap UserTags
      BY <3>1, ObjectAssumption DEF Merged
    <3>3. Sees(Target(item.version), visits, plan)'
      BY <2>1, <3>1, <3>2 DEF Sees, Target
    <3> QED
      BY <2>1, <3>1, <3>2, <3>3 DEF TagsInv, Sees, Target, Planned, Deciding, Acting
  <2> QED
    BY <2>2, <2>3
<1>5. CASE Reserve \/ Reserved \/ (\E m \in redisWire : RedisReserve(m))
  <2>1. UNCHANGED <<versioned, current, objects, stale, minioWire, visits>>
    BY <1>5 DEF Reserve, Reserved, RedisReserve
  <2>2. CASE Done
    BY <1>1, <2>1, <2>2 DEF Done, Deciding, Acting, Planned
  <2>3. CASE ~Done
    <3>1. UNCHANGED <<plan, item, action>>
          /\ (pc' = pc \/ (pc \in {"reserve", "reserving"} /\ pc' \in {"reserving", "mutate"}))
      BY <1>5, <2>3 DEF Reserve, Reserved, RedisReserve
    <3> QED
      BY <1>1, <2>1, <3>1 DEF Planned, Acting, Deciding
  <2> QED
    BY <2>2, <2>3
<1>6. CASE Mutate
  <2> DEFINE m == [visit |-> visits, version |-> item.version, action |-> action,
                   tags |-> plan, chunkDay |-> chunkDay, expires |-> item.restore]
  <2>1. /\ minioWire' = minioWire \cup {m} /\ m.version = item.version /\ m.action = action
        /\ m.visit = visits /\ m.tags = plan
    BY <1>6 DEF Mutate
  <2> HIDE DEF m
  <2>2. /\ pc = "mutate" /\ pc' = "mutating" /\ plan' = {}
        /\ UNCHANGED <<versioned, current, objects, stale, visits>>
    BY <1>6 DEF Mutate
  <2>3. visits \in Nat /\ \A n \in minioWire : n.visit \in Nat /\ n.visit < visits
    BY <2>2 DEF TagsInv, Acting, Shape, TypeOK, WireShape
  <2>4. m.action = "mark" => Sees(Target(m.version), m.visit, m.tags)
    BY <2>1, <2>2 DEF TagsInv, Planned
  <2>5. \A v, visit, tags : Sees(v, visit, tags)' = Sees(v, visit, tags)
    BY <2>2 DEF Sees
  <2>6. \A w : Target(w)' = Target(w)
    BY <2>2 DEF Target
  <2>7. \A n \in minioWire' :
          n.action = "mark" => Sees(Target(n.version), n.visit, n.tags)'
    BY <2>1, <2>2, <2>4 DEF TagsInv, Sees, Target
  <2>8. \A n, o \in minioWire' : n.visit = o.visit => n = o
    BY <2>1, <2>3 DEF TagsInv
  <2> QED
    BY <2>1, <2>2, <2>3, <2>7, <2>8 DEF TagsInv, Planned, Deciding, Acting
<1>7. ASSUME NEW m \in minioWire, MinIORestore(m)
      PROVE  TagsInv'
  <2>1. /\ minioWire' \subseteq minioWire
        /\ UNCHANGED <<versioned, current, stale, visits, pc, item, action, plan>>
        /\ \E u, r : objects' = objects \/ objects' = [objects EXCEPT ![u].restore = r]
    BY <1>7 DEF MinIORestore, Answered
  <2>2. \A u \in Versions : objects'[u].tags = objects[u].tags
    BY <2>1 DEF Shape, TypeOK
  <2>3. \A n \in minioWire : Target(n.version) \in Versions \cup {0}
    BY DEF Shape, TypeOK, WireShape, Target
  <2>4. plan # {} => Target(item.version) \in Versions \cup {0}
    BY DEF Shape, TypeOK, HandlerShape, Items, Target
  <2> QED
    BY <2>1, <2>2, <2>3, <2>4 DEF TagsInv, Sees, Target
<1>8. CASE World
  <2>1. UNCHANGED <<minioWire, visits, pc, item, action, plan>>
    BY <1>8 DEF World
  <2>2. ASSUME NEW w \in 1..newest, NEW visit \in Readers(Target(w)), NEW tags,
               Sees(Target(w), visit, tags)
        PROVE  Sees(Target(w), visit, tags)'
    BY <1>8, <2>2, SeenTagsStay DEF Sees
  <2>3. ASSUME NEW m \in minioWire, m.action = "mark"
        PROVE  Sees(Target(m.version), m.visit, m.tags)'
    <3>1. m.version \in 1..newest /\ m.visit \in Readers(Target(m.version))
      BY <2>3 DEF Shape, WireShape, Readers
    <3> QED
      BY <2>2, <2>3, <3>1 DEF TagsInv
  <2>4. ASSUME plan # {}
        PROVE  pc \in Planned /\ Sees(Target(item.version), visits, plan)'
    <3>1. pc \in Planned /\ Sees(Target(item.version), visits, plan)
      BY <2>4 DEF TagsInv
    <3>2. ASSUME NEW w, w = item.version
          PROVE  Sees(Target(w), visits, plan)'
      <4>1. w \in 1..newest
        BY <3>1, <3>2 DEF Shape, HandlerShape, Planned, Acting
      <4>2. visits \in Readers(Target(w))
        BY <2>4, <3>2 DEF Readers
      <4>3. Sees(Target(w), visits, plan)
        BY <3>1, <3>2
      <4>4. visits' = visits /\ plan' = plan
        BY <2>1
      <4>5. \A visit, tags : visit = visits /\ tags = plan => Sees(Target(w), visit, tags)'
        BY <2>2, <4>1, <4>2, <4>3
      <4> QED
        BY <4>4, <4>5 DEF Sees
    <3> QED
      BY <2>1, <3>1, <3>2 DEF Sees, Target
  <2> QED
    BY <2>1, <2>3, <2>4 DEF TagsInv, Sees, Target
<1>9. CASE UNCHANGED vars
  BY <1>1, <1>9 DEF vars
<1> QED
  BY <1>2, <1>3, <1>4, <1>5, <1>6, <1>7, <1>8, <1>9, TagKeepsTags DEF Next

(* Whichever request MinIO executes, however late, the tags of others are as *)
(* they were, unless they or the object were replaced since they were read.  *)
THEOREM TagsOfOthersKept == Spec => UnrelatedTagsKept
<1> DEFINE Kept ==
      \A m \in minioWire \ minioWire' :
        LET v == Target(m.version)
        IN  m.action = "mark" /\ v # 0 /\ m.visit \notin stale =>
              objects'[v].tags \cap UserTags = objects[v].tags \cap UserTags
<1>1. Init => TagsInv
  BY DEF Init, TagsInv, Planned
<1>2. Shape /\ TagsInv /\ [Next]_vars => TagsInv'
  BY TagsStep
<1>3. ASSUME Shape, TagsInv, Next
      PROVE  Kept
  <2> USE DEF world, config, handler, wires, history
  <2> SUFFICES ASSUME NEW m \in minioWire, m \notin minioWire', m.action = "mark",
                      Target(m.version) # 0, m.visit \notin stale
               PROVE  objects'[Target(m.version)].tags \cap UserTags
                        = objects[Target(m.version)].tags \cap UserTags
    OBVIOUS
  <2>1. PICK n \in minioWire : MinIOTag(n) \/ MinIORestore(n)
    BY <1>3 DEF Next, List, Evaluate, Stat, PlanMarker, Reserve, Reserved, Mutate, Mutated,
       GiveUp, RedisReserve, World
  <2>2. n = m
    BY <2>1 DEF MinIOTag, MinIORestore, Answered
  <2>3. objects' = [objects EXCEPT ![Target(m.version)].tags = m.tags]
    BY <2>1, <2>2 DEF MinIOTag, MinIORestore
  <2>4. Target(m.version) \in Versions
    BY <1>3 DEF Shape, TypeOK, WireShape, Target
  <2>5. objects'[Target(m.version)].tags = m.tags
    BY <1>3, <2>3, <2>4 DEF Shape, TypeOK
  <2> QED
    BY <1>3, <2>5 DEF TagsInv, Sees
<1>4. Shape /\ TagsInv /\ [Next]_vars => [Kept]_vars
  BY <1>3
<1> QED
  BY <1>1, <1>2, <1>4, ShapeInvariance, PTL DEF Spec, UnrelatedTagsKept

-----------------------------------------------------------------------------
(* No day sees more requests than its budget and the one of midnight. *)

Limited(k) == limit[k].attempts + limit[k].bytes > 0

(* The handler may send a request that it has reserved.                      *)
Granted == pc = "mutate" \/ (pc = "reserving" /\ reply = "allowed")

(* At most one request has been sent without a reservation of its day, and   *)
(* none while a reservation is held; one that is still on its way from the   *)
(* day before finds a day without requests.                                 *)
BudgetInv ==
  /\ sent \in [Kinds -> [Days -> Nat]]
  /\ \A k \in Kinds, d \in Days :
       /\ d > day => sent[k][d] = 0
       /\ Limited(k) => sent[k][d] <= used[k][d].attempts + 1
  /\ Granted /\ Limited(Kind(action)) =>
       sent[Kind(action)][day] <= used[Kind(action)][day].attempts
  /\ \A m \in redisWire :
       /\ m.visit <= visits
       /\ pc \in {"listed", "stat", "plan", "reserve"} => m.visit < visits
       /\ m.visit = visits /\ pc = "reserving" =>
            /\ m.kind = Kind(action) /\ m.day <= day
            /\ m.day < day => sent[m.kind][day] = 0
  /\ pc \notin {"reserving", "mutating"} => reply = "none"
  /\ ~apply =>
       /\ pc \notin Planned /\ redisWire = {}
       /\ \A k \in Kinds, d \in Days : sent[k][d] = 0 /\ used[k][d].attempts = 0

(* A reservation that the script allows is counted, and no other key changes. *)
LEMMA ReserveCounts ==
  ASSUME Shape, NEW m \in redisWire, RedisReserve(m)
  PROVE  /\ \A k \in Kinds, d \in Days :
              /\ used[k][d].attempts \in Nat /\ used'[k][d].attempts \in Nat
              /\ used[k][d].attempts <= used'[k][d].attempts
         /\ reply' \in {"none", "refused", "done"} \/ reply' = reply
            \/ /\ pc = "reserving" /\ m.visit = visits
               /\ used'[m.kind][m.day].attempts = used[m.kind][m.day].attempts + 1
<1> DEFINE now == used[m.kind][m.day]
           next == [attempts |-> now.attempts + 1, bytes |-> now.bytes + m.bytes]
<1>1. m.kind \in Kinds /\ m.day \in Days
  BY DEF Shape, WireShape
<1>2. /\ \/ used' = used
         \/ used' = [used EXCEPT ![m.kind][m.day] = next]
      /\ \/ reply' \in {"refused", reply}
         \/ /\ pc = "reserving" /\ m.visit = visits
            /\ used' = [used EXCEPT ![m.kind][m.day] = next]
  BY DEF RedisReserve
<1>3. next.attempts = now.attempts + 1 /\ now.attempts \in Nat
  BY <1>1 DEF Shape, WireShape
<1> HIDE DEF next
<1>4. used' = [used EXCEPT ![m.kind][m.day] = next] =>
        \A k \in Kinds, d \in Days :
          used'[k][d] = IF k = m.kind /\ d = m.day THEN next ELSE used[k][d]
  BY <1>1 DEF Shape, WireShape
<1>5. \A k \in Kinds, d \in Days : used[k][d].attempts \in Nat
  BY DEF Shape, TypeOK
<1> HIDE DEF now
<1>6. now = used[m.kind][m.day]
  BY DEF now
<1> QED
  BY <1>1, <1>2, <1>3, <1>4, <1>5, <1>6

(* Every step keeps the account.                                            *)
LEMMA BudgetStep ==
  ASSUME Shape, BudgetInv, [Next]_vars
  PROVE  BudgetInv'
<1> USE DEF world, config, handler, wires, history
<1>1. /\ day \in Days /\ day \in Nat /\ Kind(action) \in Kinds
      /\ \A k \in Kinds, d \in Days : used[k][d].attempts \in Nat
      /\ \A d \in Days : d \in Nat
  BY ObjectAssumption DEF Shape, TypeOK, Days, Kind, Kinds
<1>2. ASSUME UNCHANGED <<day, limit, apply, sent, used, visits>>, redisWire' = redisWire,
             pc' \notin {"reserving", "mutating"} => reply' = "none",
             pc' # "reserving", Granted' => Granted /\ action' = action,
             pc' \in {"listed", "stat", "plan", "reserve"} =>
               pc \in {"listed", "stat", "plan", "reserve"},
             ~apply => pc' \notin Planned
      PROVE  BudgetInv'
  BY <1>2 DEF BudgetInv, Limited
<1>3. CASE List
  <2>1. /\ visits' = visits + 1 /\ pc = "idle" /\ pc' = "listed" /\ visits \in Nat
        /\ UNCHANGED <<day, limit, apply, sent, used, redisWire, reply, action>>
    BY <1>3 DEF List, Shape, TypeOK
  <2>2. \A m \in redisWire : m.visit \in Nat
    BY DEF Shape, WireShape
  <2> QED
    BY <2>1, <2>2 DEF BudgetInv, Granted, Limited, Planned
<1>4. CASE Evaluate \/ Stat \/ PlanMarker \/ Mutated \/ GiveUp
  <2>1. UNCHANGED <<day, limit, apply, sent, used, visits, redisWire>>
    BY <1>4 DEF Evaluate, Stat, PlanMarker, Mutated, GiveUp
  <2>2. CASE Done
    BY <1>2, <2>1, <2>2 DEF Done, Granted, Planned
  <2>3. CASE ~Done
    <3>1. /\ pc \in {"listed", "stat", "plan"} /\ pc' \in {"stat", "plan", "reserve"}
          /\ reply' = reply /\ (pc' = "reserve" => apply)
      BY <1>4, <2>3 DEF Evaluate, Stat, Decided, PlanMarker, Mutated, GiveUp, DecideAction
    <3> QED
      BY <1>2, <2>1, <3>1 DEF BudgetInv, Granted, Planned
  <2> QED
    BY <2>2, <2>3
<1>5. CASE Reserve
  <2> DEFINE k == Kind(action)
             m == [visit |-> visits, kind |-> k, day |-> day,
                   bytes |-> IF action = "renew" THEN 0 ELSE Size]
  <2>1. /\ pc = "reserve" /\ UNCHANGED <<day, limit, apply, sent, used, visits, reply, action>>
        /\ \/ limit[k] = [attempts |-> 0, bytes |-> 0] /\ pc' = "mutate" /\ redisWire' = redisWire
           \/ pc' = "reserving" /\ redisWire' = redisWire \cup {m}
    BY <1>5 DEF Reserve
  <2>2. m.visit = visits /\ m.kind = k /\ m.day = day
    OBVIOUS
  <2> HIDE DEF m
  <2>3. limit[k] = [attempts |-> 0, bytes |-> 0] => ~Limited(k)
    BY DEF Limited
  <2>4. reply = "none" /\ apply /\ \A n \in redisWire : n.visit < visits
    BY <2>1 DEF BudgetInv, Planned
  <2>5. visits \in Nat /\ \A n \in redisWire : n.visit \in Nat
    BY DEF Shape, TypeOK, WireShape
  <2>6. CASE pc' = "mutate"
    BY <2>1, <2>3, <2>4, <2>6 DEF BudgetInv, Granted, Limited, Planned
  <2>7. CASE pc' = "reserving"
    BY <1>1, <2>1, <2>2, <2>4, <2>5, <2>7 DEF BudgetInv, Granted, Limited, Planned
  <2> QED
    BY <2>1, <2>6, <2>7
<1>6. CASE Reserved
  <2>1. UNCHANGED <<day, limit, apply, sent, used, visits, redisWire>> /\ pc = "reserving"
    BY <1>6 DEF Reserved
  <2>2. CASE Done
    BY <1>2, <2>1, <2>2 DEF Done, Granted, Planned
  <2>3. CASE ~Done
    <3>1. reply = "allowed" /\ pc' = "mutate" /\ reply' = "none" /\ action' = action
      BY <1>6, <2>3 DEF Reserved
    <3>2. apply
      BY <2>1 DEF BudgetInv, Planned
    <3> QED
      BY <1>2, <2>1, <3>1, <3>2 DEF Granted
  <2> QED
    BY <2>2, <2>3
<1>7. ASSUME NEW m \in redisWire, RedisReserve(m)
      PROVE  BudgetInv'
  <2>1. /\ redisWire' = redisWire \ {m}
        /\ UNCHANGED <<day, limit, apply, sent, visits, pc, action>>
        /\ apply
    BY <1>7 DEF RedisReserve, BudgetInv
  <2>2. /\ \A k \in Kinds, d \in Days :
             /\ used[k][d].attempts \in Nat /\ used'[k][d].attempts \in Nat
             /\ used[k][d].attempts <= used'[k][d].attempts
        /\ reply' \in {"none", "refused", "done"} \/ reply' = reply
           \/ /\ pc = "reserving" /\ m.visit = visits
              /\ used'[m.kind][m.day].attempts = used[m.kind][m.day].attempts + 1
    BY <1>7, ReserveCounts
  <2>3. pc \notin {"reserving", "mutating"} => reply' = reply
    BY <1>7 DEF RedisReserve
  <2>4. m.kind \in Kinds /\ m.day \in Days
    BY DEF Shape, WireShape
  <2>5. Limited(Kind(action)) /\ Granted' =>
          sent[Kind(action)][day] <= used'[Kind(action)][day].attempts
    <3>1. CASE Granted
      BY <1>1, <2>2, <3>1 DEF BudgetInv
    <3>2. CASE ~Granted
      <4> SUFFICES ASSUME Limited(Kind(action)), Granted'
                   PROVE  sent[Kind(action)][day] <= used'[Kind(action)][day].attempts
        OBVIOUS
      <4>1. /\ pc = "reserving" /\ m.visit = visits
            /\ used'[m.kind][m.day].attempts = used[m.kind][m.day].attempts + 1
        BY <2>1, <2>2, <3>2 DEF Granted
      <4>2. m.kind = Kind(action) /\ m.day <= day /\ (m.day < day => sent[m.kind][day] = 0)
        BY <4>1 DEF BudgetInv
      <4>3. sent[m.kind][day] <= used[m.kind][day].attempts + 1
        BY <1>1, <2>4, <4>2 DEF BudgetInv
      <4>4. sent[m.kind][day] \in Nat
        BY <1>1, <2>4 DEF BudgetInv
      <4>5. CASE m.day = day
        BY <1>1, <2>2, <2>4, <4>1, <4>2, <4>3, <4>4, <4>5
      <4>6. CASE m.day < day
        BY <1>1, <2>2, <2>4, <4>2, <4>4, <4>6
      <4>7. m.day = day \/ m.day < day
        <5>1. m.day \in Nat /\ m.day <= day /\ day \in Nat
          BY <1>1, <2>4, <4>2
        <5> QED
          BY <5>1
      <4> QED
        BY <4>5, <4>6, <4>7
    <3> QED
      BY <3>1, <3>2
  <2>6. \A k \in Kinds, d \in Days :
          Limited(k) => sent[k][d] <= used'[k][d].attempts + 1
    BY <2>2 DEF BudgetInv
  <2> QED
    BY <2>1, <2>3, <2>5, <2>6 DEF BudgetInv, Limited, Granted
<1>8. CASE Mutate
  <2> DEFINE k == Kind(action)
  <2>1. /\ pc = "mutate" /\ pc' = "mutating" /\ sent' = [sent EXCEPT ![k][day] = @ + 1]
        /\ UNCHANGED <<day, limit, apply, used, visits, redisWire, reply, action>>
    BY <1>8 DEF Mutate
  <2>2. apply /\ sent \in [Kinds -> [Days -> Nat]]
        /\ (Limited(k) => sent[k][day] <= used[k][day].attempts)
    BY <2>1 DEF BudgetInv, Granted, Planned
  <2> HIDE DEF k
  <2>3. k \in Kinds
    BY <1>1 DEF k
  <2>4. /\ sent' \in [Kinds -> [Days -> Nat]]
        /\ \A j \in Kinds, d \in Days :
             sent'[j][d] = IF j = k /\ d = day THEN sent[k][day] + 1 ELSE sent[j][d]
    BY <1>1, <2>1, <2>2, <2>3
  <2>5. \A j \in Kinds, d \in Days :
          /\ d > day => sent'[j][d] = 0
          /\ Limited(j) => sent'[j][d] <= used[j][d].attempts + 1
    BY <1>1, <2>2, <2>3, <2>4 DEF BudgetInv
  <2> QED
    BY <2>1, <2>2, <2>4, <2>5 DEF BudgetInv, Granted, Limited
<1>9. ASSUME NEW m \in minioWire, MinIOTag(m) \/ MinIORestore(m)
      PROVE  BudgetInv'
  <2>1. /\ UNCHANGED <<day, limit, apply, sent, used, visits, redisWire, pc, action>>
        /\ reply' = IF pc = "mutating" /\ m.visit = visits THEN "done" ELSE reply
    BY <1>9 DEF MinIOTag, MinIORestore, Answered
  <2> QED
    BY <2>1 DEF BudgetInv, Granted, Limited
<1>10. CASE World
  <2>1. UNCHANGED <<limit, apply, sent, used, visits, redisWire, pc, action, reply>>
    BY <1>10 DEF World
  <2>2. CASE day' = day
    BY <2>1, <2>2 DEF BudgetInv, Granted, Limited
  <2>3. CASE day' # day
    <3>1. day' = day + 1 /\ day + 1 \in Days
      BY <1>1, <1>10, <2>3, ObjectAssumption
      DEF World, Midnight, Upload, Delete, Retag, Transition, RestoreCompletes, CopyExpires,
          SetRestore, Days
    <3>2. \A k \in Kinds : sent[k][day'] = 0
      BY <1>1, <3>1 DEF BudgetInv
    <3>3. \A k \in Kinds, d \in Days : d > day' => sent[k][d] = 0
      BY <1>1, <3>1 DEF BudgetInv
    <3>4. \A k \in Kinds : sent[k][day'] <= used[k][day'].attempts
      BY <1>1, <3>1, <3>2
    <3>5. \A m \in redisWire : m.kind \in Kinds /\ m.day \in Nat
      BY <1>1 DEF Shape, WireShape
    <3> QED
      BY <1>1, <2>1, <3>1, <3>2, <3>3, <3>4, <3>5 DEF BudgetInv, Granted, Limited
  <2> QED
    BY <2>2, <2>3
<1>11. CASE UNCHANGED vars
  BY <1>11 DEF vars, BudgetInv, Granted, Limited
<1> QED
  BY <1>3, <1>4, <1>5, <1>6, <1>7, <1>8, <1>9, <1>10, <1>11 DEF Next

(* No day sees more changing requests than its budget allows, and one more   *)
(* that was reserved before midnight; audit mode sends and reserves nothing. *)
THEOREM BudgetHolds == Spec => []MutationsWithinBudget
<1>1. ASSUME Init PROVE BudgetInv
  <2>1. /\ pc = "idle" /\ redisWire = {} /\ reply = "none"
        /\ \A k \in Kinds, d \in Days : sent[k][d] = 0 /\ used[k][d].attempts = 0
        /\ sent \in [Kinds -> [Days -> Nat]]
    BY <1>1 DEF Init
  <2> QED
    BY <2>1 DEF BudgetInv, Granted, Planned
<1>2. Shape /\ BudgetInv /\ [Next]_vars => BudgetInv'
  BY BudgetStep
<1>3. Shape /\ BudgetInv => MutationsWithinBudget
  <2> SUFFICES ASSUME Shape, BudgetInv, NEW k \in Kinds, NEW d \in Days
               PROVE  /\ limit[k].attempts + limit[k].bytes > 0 =>
                           sent[k][d] <= used[k][d].attempts + 1
                      /\ limit[k].attempts > 0 => sent[k][d] <= limit[k].attempts + 1
                      /\ ~apply => sent[k][d] = 0 /\ used[k][d].attempts = 0
    BY DEF MutationsWithinBudget
  <2>1. limit[k].attempts \in Nat /\ limit[k].bytes \in Nat
    BY ObjectAssumption DEF Shape, TypeOK
  <2>2. used[k][d].attempts \in Nat
        /\ (limit[k].attempts > 0 => used[k][d].attempts <= limit[k].attempts)
    BY DEF Shape, TypeOK
  <2>3. sent[k][d] \in Nat
    BY DEF BudgetInv
  <2> QED
    BY <2>1, <2>2, <2>3 DEF BudgetInv, Limited
<1> QED
  BY <1>1, <1>2, <1>3, ShapeInvariance, PTL DEF Spec

-----------------------------------------------------------------------------
(* Every request was reserved, on its day or before. *)

Attempts(k) == [d \in Days |-> used[k][d].attempts]
SentUpTo(k, d) == SumFunctionOnSet(sent[k], 0..d)
ReservedUpTo(k, d) == SumFunctionOnSet(Attempts(k), 0..d)

(* The request that the handler may send is among those reserved.            *)
Pending(k, d) == IF Granted /\ Kind(action) = k /\ day <= d THEN 1 ELSE 0

LedgerInv ==
  \A k \in Kinds, d \in Days :
    Limited(k) => SentUpTo(k, d) + Pending(k, d) <= ReservedUpTo(k, d)

(* What is summed. *)
LEMMA LedgerTypes ==
  ASSUME Shape, BudgetInv, NEW k \in Kinds, NEW d \in Days
  PROVE  /\ IsFiniteSet(0..d) /\ 0..d \subseteq Days /\ d \in Nat
         /\ \A e \in 0..d : sent[k][e] \in Nat /\ Attempts(k)[e] \in Nat
         /\ SentUpTo(k, d) \in Nat /\ ReservedUpTo(k, d) \in Nat
<1>1. d \in Nat /\ LastDay \in Nat /\ d <= LastDay
  BY ObjectAssumption DEF Days
<1>2. IsFiniteSet(0..d)
  BY <1>1, FS_Interval
<1>3. 0..d \subseteq Days
  BY <1>1 DEF Days
<1>4. \A e \in 0..d : sent[k][e] \in Nat /\ Attempts(k)[e] \in Nat
  BY <1>3 DEF BudgetInv, Shape, TypeOK, Attempts
<1> QED
  BY <1>1, <1>2, <1>3, <1>4, SumType DEF SentUpTo, ReservedUpTo

(* More reservations and no more requests keep the account. *)
LEMMA LedgerGrows ==
  ASSUME Shape, Shape', BudgetInv, BudgetInv', LedgerInv, sent' = sent, limit' = limit,
         \A k \in Kinds, d \in Days : used[k][d].attempts <= used'[k][d].attempts,
         \A k \in Kinds, d \in Days :
           Pending(k, d)' <= Pending(k, d)
           \/ \E e \in 0..d : used[k][e].attempts + 1 <= used'[k][e].attempts
  PROVE  LedgerInv'
<1> SUFFICES ASSUME NEW k \in Kinds, NEW d \in Days, Limited(k)
             PROVE  SentUpTo(k, d)' + Pending(k, d)' <= ReservedUpTo(k, d)'
  BY DEF LedgerInv, Limited
<1>1. /\ IsFiniteSet(0..d) /\ 0..d \subseteq Days
      /\ SentUpTo(k, d) \in Nat /\ ReservedUpTo(k, d) \in Nat
  BY LedgerTypes
<1>2. SentUpTo(k, d) + Pending(k, d) <= ReservedUpTo(k, d)
  BY DEF LedgerInv
<1>3. SentUpTo(k, d)' = SentUpTo(k, d)
  BY DEF SentUpTo
<1>4. Pending(k, d) \in {0, 1} /\ Pending(k, d)' \in {0, 1}
  BY DEF Pending
<1> DEFINE f == Attempts(k)
           g == Attempts(k)'
<1>5. \A e \in 0..d : f[e] \in Nat /\ g[e] \in Nat /\ f[e] <= g[e]
  BY <1>1 DEF Attempts, Shape, TypeOK
<1>6. \A e \in 0..d : f[e] = used[k][e].attempts /\ g[e] = used'[k][e].attempts
  BY <1>1 DEF Attempts
<1>7. /\ ReservedUpTo(k, d) = SumFunctionOnSet(f, 0..d)
      /\ ReservedUpTo(k, d)' = SumFunctionOnSet(g, 0..d)
  BY DEF ReservedUpTo
<1> HIDE DEF f, g
<1>8. /\ SumFunctionOnSet(f, 0..d) <= SumFunctionOnSet(g, 0..d)
      /\ SumFunctionOnSet(f, 0..d) \in Nat /\ SumFunctionOnSet(g, 0..d) \in Nat
  BY <1>1, <1>5, SumMonotone, SumType
<1>9. CASE Pending(k, d)' <= Pending(k, d)
  BY <1>2, <1>1, <1>3, <1>4, <1>7, <1>8, <1>9
<1>10. CASE \E e \in 0..d : used[k][e].attempts + 1 <= used'[k][e].attempts
  <2>1. PICK e \in 0..d : f[e] + 1 <= g[e]
    BY <1>6, <1>10
  <2>2. SumFunctionOnSet(f, 0..d) + 1 <= SumFunctionOnSet(g, 0..d)
    BY <1>1, <1>5, <2>1, SumExceeds
  <2> QED
    BY <1>2, <1>1, <1>3, <1>4, <1>7, <1>8, <2>2
<1> QED
  BY <1>9, <1>10

(* A grant that the script makes is counted; every other step but Mutate     *)
(* leaves the account as it is or gives a grant up.                          *)
LEMMA LedgerStep ==
  ASSUME Shape, Shape', BudgetInv, BudgetInv', LedgerInv, [Next]_vars
  PROVE  LedgerInv'
<1> USE DEF world, config, handler, wires, history
<1>1. /\ \A k \in Kinds, d \in Days : used[k][d].attempts \in Nat
      /\ day \in Nat /\ day' \in Nat /\ \A d \in Days : d \in Nat
      /\ \A k \in Kinds, d \in Days : Pending(k, d) \in {0, 1}
  BY ObjectAssumption DEF Shape, TypeOK, Days, Pending
<1>2. ASSUME UNCHANGED <<sent, limit, used>>, day <= day', Granted' => Granted /\ action' = action
      PROVE  LedgerInv'
  <2>1. \A k \in Kinds, d \in Days : Pending(k, d)' <= Pending(k, d)
    BY <1>1, <1>2 DEF Pending
  <2>2. \A k \in Kinds, d \in Days : used[k][d].attempts <= used'[k][d].attempts
    BY <1>1, <1>2
  <2> QED
    BY <1>2, <2>1, <2>2, LedgerGrows
<1>3. CASE List \/ Evaluate \/ Stat \/ PlanMarker \/ Mutated \/ GiveUp
  <2>1. UNCHANGED <<sent, limit, used, day>> /\ ~Granted'
    BY <1>3 DEF List, Evaluate, Stat, PlanMarker, Mutated, GiveUp, Decided, Done, Granted,
       DecideAction
  <2> QED
    BY <1>1, <1>2, <2>1
<1>4. CASE Reserve
  <2>1. /\ UNCHANGED <<sent, limit, used, day, action, reply>> /\ pc = "reserve"
        /\ \/ pc' = "mutate" /\ limit[Kind(action)] = [attempts |-> 0, bytes |-> 0]
           \/ pc' = "reserving"
    BY <1>4 DEF Reserve
  <2>2. reply = "none"
    BY <2>1 DEF BudgetInv
  <2>3. CASE pc' = "reserving"
    BY <1>1, <1>2, <2>1, <2>2, <2>3 DEF Granted
  <2>4. CASE ~Limited(Kind(action))
    <3>1. \A k \in Kinds, d \in Days : Limited(k) => Pending(k, d)' = Pending(k, d)
      BY <2>1, <2>4 DEF Pending, Granted
    <3>2. \A k \in Kinds, d \in Days :
            /\ SentUpTo(k, d)' = SentUpTo(k, d) /\ ReservedUpTo(k, d)' = ReservedUpTo(k, d)
            /\ Limited(k)' = Limited(k)
      BY <2>1 DEF SentUpTo, ReservedUpTo, Attempts, Limited
    <3> QED
      BY <3>1, <3>2 DEF LedgerInv
  <2> QED
    BY <2>1, <2>3, <2>4 DEF Limited
<1>5. CASE Reserved
  <2>1. UNCHANGED <<sent, limit, used, day>> /\ (Granted' => Granted /\ action' = action)
    BY <1>5 DEF Reserved, Done, Granted
  <2> QED
    BY <1>1, <1>2, <2>1
<1>6. ASSUME NEW m \in redisWire, RedisReserve(m)
      PROVE  LedgerInv'
  <2>1. UNCHANGED <<sent, limit, day, pc, action>>
    BY <1>6 DEF RedisReserve
  <2>2. \A k \in Kinds, d \in Days : used[k][d].attempts <= used'[k][d].attempts
    BY <1>6, ReserveCounts
  <2>3. \/ reply' \in {"none", "refused", "done"} \/ reply' = reply
        \/ /\ pc = "reserving" /\ m.visit = visits
           /\ used'[m.kind][m.day].attempts = used[m.kind][m.day].attempts + 1
    BY <1>6, ReserveCounts
  <2>4. m.kind \in Kinds /\ m.day \in Days /\ m.day \in Nat
    BY <1>1 DEF Shape, WireShape
  <2>5. ASSUME NEW k \in Kinds, NEW d \in Days, ~(Pending(k, d)' <= Pending(k, d))
        PROVE  \E e \in 0..d : used[k][e].attempts + 1 <= used'[k][e].attempts
    <3>1. Granted' /\ Kind(action) = k /\ day <= d /\ ~Granted
      BY <2>1, <2>5 DEF Pending
    <3>2. /\ pc = "reserving" /\ m.visit = visits
          /\ used'[m.kind][m.day].attempts = used[m.kind][m.day].attempts + 1
      BY <2>1, <2>3, <3>1 DEF Granted
    <3>3. m.kind = k /\ m.day <= day
      BY <3>1, <3>2 DEF BudgetInv
    <3>4. m.day \in 0..d
      BY <1>1, <2>4, <3>1, <3>3
    <3>5. used[k][m.day].attempts + 1 <= used'[k][m.day].attempts
      BY <1>1, <2>4, <3>2, <3>3
    <3> QED
      BY <3>4, <3>5
  <2> QED
    BY <2>1, <2>2, <2>5, LedgerGrows
<1>7. CASE Mutate
  <2> DEFINE k == Kind(action)
  <2>1. /\ pc = "mutate" /\ pc' = "mutating" /\ sent' = [sent EXCEPT ![k][day] = @ + 1]
        /\ UNCHANGED <<limit, used, day, action>>
    BY <1>7 DEF Mutate
  <2>2. Granted /\ ~Granted' /\ k \in Kinds /\ day \in Days
    BY <2>1 DEF Granted, Shape, TypeOK, Kind, Kinds
  <2>3. \A j \in Kinds, d \in Days :
          sent'[j][d] = IF j = k /\ d = day THEN sent[j][d] + 1 ELSE sent[j][d]
    BY <2>1, <2>2 DEF BudgetInv
  <2> HIDE DEF k
  <2> SUFFICES ASSUME NEW j \in Kinds, NEW d \in Days, Limited(j)
               PROVE  SentUpTo(j, d)' + Pending(j, d)' <= ReservedUpTo(j, d)'
    BY <2>1 DEF LedgerInv, Limited
  <2>4. Pending(j, d)' = 0 /\ ReservedUpTo(j, d)' = ReservedUpTo(j, d)
    BY <2>1, <2>2 DEF Pending, ReservedUpTo, Attempts
  <2>5. SentUpTo(j, d) + Pending(j, d) <= ReservedUpTo(j, d)
    BY DEF LedgerInv
  <2>6. /\ IsFiniteSet(0..d) /\ 0..d \subseteq Days /\ d \in Nat
        /\ \A e \in 0..d : sent[j][e] \in Nat
        /\ SentUpTo(j, d) \in Nat /\ ReservedUpTo(j, d) \in Nat
    BY LedgerTypes
  <2> DEFINE f == sent[j]
             g == sent'[j]
  <2>7. /\ SentUpTo(j, d) = SumFunctionOnSet(f, 0..d)
        /\ SentUpTo(j, d)' = SumFunctionOnSet(g, 0..d)
    BY DEF SentUpTo
  <2>8. \A e \in 0..d :
          f[e] \in Nat /\ g[e] = IF j = k /\ e = day THEN f[e] + 1 ELSE f[e]
    BY <2>3, <2>6
  <2>9. j = k /\ day <= d => Pending(j, d) = 1
    BY <2>2 DEF Pending, k
  <2> HIDE DEF f, g
  <2>10. CASE j = k /\ day <= d
    <3>1. day \in 0..d
      BY <1>1, <2>6, <2>10
    <3>2. \A e \in 0..d : f[e] \in Nat /\ g[e] \in Nat
      BY <2>8
    <3>3. \A e \in (0..d) \ {day} : f[e] = g[e]
      BY <2>8
    <3>4. SumFunctionOnSet(g, 0..d) + f[day] = SumFunctionOnSet(f, 0..d) + g[day]
      <4> DEFINE S == 0..d
      <4>1. /\ IsFiniteSet(S) /\ day \in S
            /\ \A e \in S : f[e] \in Nat /\ g[e] \in Nat
            /\ \A e \in S \ {day} : f[e] = g[e]
        BY <2>6, <3>1, <3>2, <3>3
      <4> HIDE DEF S
      <4>2. SumFunctionOnSet(g, S) + f[day] = SumFunctionOnSet(f, S) + g[day]
        BY <4>1, SumChange
      <4> QED
        BY <4>2 DEF S
    <3>5. g[day] = f[day] + 1 /\ f[day] \in Nat
      BY <2>8, <2>10, <3>1
    <3>6. SumFunctionOnSet(f, 0..d) \in Nat /\ SumFunctionOnSet(g, 0..d) \in Nat
      BY <2>6, <2>8, <3>2, SumType
    <3> QED
      BY <2>4, <2>5, <2>6, <2>7, <2>9, <2>10, <3>4, <3>5, <3>6
  <2>11. CASE ~(j = k /\ day <= d)
    <3>1. \A e \in 0..d : f[e] = g[e]
      BY <1>1, <2>6, <2>8, <2>11
    <3>2. SumFunctionOnSet(f, 0..d) = SumFunctionOnSet(g, 0..d)
      BY <2>6, <3>1, SumCongruent
    <3>3. Pending(j, d) \in {0, 1}
      BY <1>1
    <3> QED
      BY <2>4, <2>5, <2>6, <2>7, <3>2, <3>3
  <2> QED
    BY <2>10, <2>11
<1>8. ASSUME NEW m \in minioWire, MinIOTag(m) \/ MinIORestore(m)
      PROVE  LedgerInv'
  <2>1. /\ UNCHANGED <<day, limit, sent, used, pc, action>>
        /\ reply' = IF pc = "mutating" /\ m.visit = visits THEN "done" ELSE reply
    BY <1>8 DEF MinIOTag, MinIORestore, Answered
  <2> QED
    BY <1>1, <1>2, <2>1 DEF Granted
<1>9. CASE World
  <2>1. UNCHANGED <<limit, sent, used, pc, action, reply>>
    BY <1>9 DEF World
  <2>2. day <= day'
    BY <1>1, <1>9 DEF World, Midnight, Upload, Delete, Retag, Transition, RestoreCompletes,
       CopyExpires, SetRestore
  <2> QED
    BY <1>2, <2>1, <2>2 DEF Granted
<1>10. CASE UNCHANGED vars
  BY <1>1, <1>2, <1>10 DEF vars, Granted
<1> QED
  BY <1>3, <1>4, <1>5, <1>6, <1>7, <1>8, <1>9, <1>10 DEF Next

(* Every changing request was reserved on its day or before, and no           *)
(* reservation serves two of them.                                          *)
THEOREM EveryRequestReserved == Spec => []MutationsReserved
<1>1. ASSUME Init PROVE BudgetInv /\ LedgerInv
  <2>1. /\ pc = "idle" /\ redisWire = {} /\ reply = "none"
        /\ \A k \in Kinds, d \in Days : sent[k][d] = 0 /\ used[k][d].attempts = 0
        /\ sent \in [Kinds -> [Days -> Nat]]
    BY <1>1 DEF Init
  <2>2. BudgetInv
    BY <2>1 DEF BudgetInv, Granted, Planned
  <2>3. ASSUME NEW k \in Kinds, NEW d \in Days
        PROVE  SentUpTo(k, d) = ReservedUpTo(k, d) /\ SentUpTo(k, d) \in Nat
    <3>1. Shape
      BY <1>1, InitShape
    <3>2. IsFiniteSet(0..d) /\ 0..d \subseteq Days /\ SentUpTo(k, d) \in Nat
      BY <2>2, <3>1, LedgerTypes
    <3>3. \A e \in 0..d : sent[k][e] = Attempts(k)[e]
      BY <2>1, <3>2 DEF Attempts
    <3> QED
      BY <3>2, <3>3, SumCongruent DEF SentUpTo, ReservedUpTo
  <2>4. \A k \in Kinds, d \in Days : Pending(k, d) = 0
    BY <2>1 DEF Pending, Granted
  <2> QED
    BY <2>2, <2>3, <2>4 DEF LedgerInv
<1>2. /\ Shape /\ BudgetInv /\ [Next]_vars => BudgetInv'
      /\ Shape /\ Shape' /\ BudgetInv /\ BudgetInv' /\ LedgerInv /\ [Next]_vars => LedgerInv'
  BY BudgetStep, LedgerStep
<1>3. ASSUME Shape, BudgetInv, LedgerInv PROVE MutationsReserved
  <2> SUFFICES ASSUME NEW k \in Kinds, NEW d \in Days, Limited(k)
               PROVE  UpTo(sent[k], d) <= UpTo([e \in Days |-> used[k][e].attempts], d)
    BY DEF MutationsReserved, Limited
  <2>1. /\ IsFiniteSet(0..d) /\ 0..d \subseteq Days
        /\ SentUpTo(k, d) \in Nat /\ ReservedUpTo(k, d) \in Nat
    BY <1>3, LedgerTypes
  <2>2. ASSUME NEW f PROVE UpTo(f, d) = SumFunctionOnSet(f, 0..d)
    <3> DEFINE g == [e \in 0..d |-> f[e]]
    <3>1. \A e \in 0..d : g[e] = f[e]
      OBVIOUS
    <3>2. UpTo(f, d) = SumFunctionOnSet(g, 0..d)
      BY DEF UpTo, SumFunction
    <3> HIDE DEF g
    <3> QED
      BY <2>1, <3>1, <3>2, SumCongruent
  <2>3. /\ UpTo(sent[k], d) = SentUpTo(k, d)
        /\ UpTo([e \in Days |-> used[k][e].attempts], d) = ReservedUpTo(k, d)
    BY <2>2 DEF SentUpTo, ReservedUpTo, Attempts
  <2>4. SentUpTo(k, d) + Pending(k, d) <= ReservedUpTo(k, d) /\ Pending(k, d) \in {0, 1}
    BY <1>3 DEF LedgerInv, Pending
  <2> QED
    BY <2>1, <2>3, <2>4
<1> QED
  BY <1>1, <1>2, <1>3, ShapeInvariance, PTL DEF Spec
=============================================================================
