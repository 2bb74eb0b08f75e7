---------------------------- MODULE ScannerProofs ----------------------------
(***************************************************************************)
(* The scanner and the service that runs it, for every set of scopes,        *)
(* buckets and objects, all sizes of chunks and pages, and any number of     *)
(* failures, cancellations, restarts, late commands and changes by users:    *)
(* - no object is skipped: the cursor of a scope never runs ahead of the     *)
(*   work, and a traversal that deletes it is complete;                      *)
(* - types are correct, and only objects in scope are handled;               *)
(* - an interruption costs at most a chunk;                                  *)
(* - a shutdown of the tierer keeps its order, and its scanner skips nothing *)
(*   between the start and the end of any process.                           *)
(***************************************************************************)
EXTENDS TiererService, SetLemmas

-----------------------------------------------------------------------------
(* Facts about sets of names, and about the order of objects. *)

(* Max and Min of a finite set are its largest and its smallest member.      *)
LEMMA MaxMin ==
  ASSUME NEW S, IsFiniteSet(S), S \subseteq Nat, S # {}
  PROVE  /\ Max(S) \in S /\ \A y \in S : y <= Max(S)
         /\ Min(S) \in S /\ \A y \in S : Min(S) <= y
  BY Extremes DEF Max, Min

(* The names of objects are finitely many. *)
LEMMA NamesFinite == IsFiniteSet(Names) /\ Names \subseteq Nat \ {0}
<1> DEFINE f == [o \in Objects |-> o[2]]
<1>1. f \in Surjection(Objects, Names)
  BY DEF Surjection, Names
<1>2. IsFiniteSet(Names)
  BY <1>1, FS_Surjection, ScannerAssumption
<1>3. Names \subseteq Nat \ {0}
  BY ScannerAssumption DEF Names
<1> QED
  BY <1>2, <1>3

(* The last name of an answer or a chunk, and the first of a page.           *)
LEMMA SomeNames ==
  ASSUME NEW S, S \subseteq Names, S # {}
  PROVE  /\ Max(S) \in S /\ \A y \in S : y <= Max(S)
         /\ Min(S) \in S /\ \A y \in S : Min(S) <= y
         /\ Max(S) \in Nat /\ Min(S) \in Nat
<1>1. IsFiniteSet(S)
  BY NamesFinite, FS_Subset
<1>2. S \subseteq Nat
  BY NamesFinite
<1> QED
  BY <1>1, <1>2, MaxMin

(* The bucket that ScanOnce is at is the first of those to come.            *)
LEMMA SomeBuckets ==
  ASSUME NEW S, S \subseteq Buckets, S # {}
  PROVE  Min(S) \in S /\ \A y \in S : Min(S) <= y
<1>1. IsFiniteSet(S)
  BY ScannerAssumption, FS_Subset
<1>2. S \subseteq Nat
  BY ScannerAssumption
<1> QED
  BY <1>1, <1>2, MaxMin

(* An object is given by its bucket and its name.                            *)
LEMMA ObjectIsPair ==
  ASSUME NEW o \in Objects
  PROVE  o[1] \in Buckets /\ o[1] \in Nat /\ o[2] \in Nat /\ o[2] > 0 /\ o = <<o[1], o[2]>>
<1>1. o \in Buckets \X (Nat \ {0})
  BY ScannerAssumption
<1>2. PICK b \in Buckets, n \in Nat \ {0} : o = <<b, n>>
  BY <1>1
<1>3. b \in Nat
  BY ScannerAssumption
<1> QED
  BY <1>2, <1>3

(* The cursors are ordered as the objects are: totally. *)
LEMMA UpToTransitive ==
  ASSUME NEW o \in Objects, NEW p \in Objects, NEW q \in Objects \cup {None},
         UpTo(o, p), UpTo(p, q)
  PROVE  UpTo(o, q)
  BY ObjectIsPair DEF UpTo, Before

(* Of two cursors one is up to the other.                                   *)
LEMMA UpToTotal ==
  ASSUME NEW p \in Objects, NEW q \in Objects \cup {None}, ~UpTo(p, q)
  PROVE  q = None \/ UpTo(q, p)
<1>1. CASE q # None
  <2>1. p[1] \in Nat /\ p[2] \in Nat /\ q[1] \in Nat /\ q[2] \in Nat
    BY <1>1, ObjectIsPair
  <2>2. p = <<p[1], p[2]>> /\ q = <<q[1], q[2]>>
    BY <1>1, ObjectIsPair
  <2>3. p # None
    BY ScannerAssumption
  <2> QED
    BY <1>1, <2>1, <2>2, <2>3 DEF UpTo, Before
<1> QED
  BY <1>1

-----------------------------------------------------------------------------
(* The inductive invariant. *)

Pcs == {"idle", "listing", "handling", "saving", "resetting", "stopped"}

(* Types, and that what has been listed of the current bucket are objects.   *)
Shape ==
  /\ buckets \subseteq Buckets
  /\ objects \subseteq {o \in Objects : o[1] \in buckets}
  /\ cursor \in [Scopes -> Objects \cup {None}]
  /\ stray \in [Scopes -> Objects \cup {None}]
  /\ late \subseteq [scope : Scopes, cursor : Objects \cup {None}, old : BOOLEAN]
  /\ scope \in Scopes /\ cancelled \in BOOLEAN /\ pc \in Pcs
  /\ todo \subseteq Buckets
  /\ fetched \in Nat /\ page \subseteq Names /\ chunk \subseteq Names
  /\ rest \subseteq chunk
  /\ due \in [Scopes -> SUBSET Objects]
  /\ \A s \in Scopes : due[s] \subseteq objects \cap InScope(s)
  /\ \A n \in page \cup chunk : <<Current, n>> \in Objects
  /\ pc \in {"listing", "handling", "saving"} => todo # {}
  /\ pc = "resetting" => todo = {}
  /\ pc \in {"handling", "saving"} => chunk # {}
  /\ pc = "handling" => rest # {}
  /\ pc = "saving" => rest = {}

(* Names are received and handled in the order of the listing. *)
ListOrder ==
  /\ \A n \in page \cup chunk : n <= fetched
  /\ \A n \in page, m \in chunk : m < n

Unhandled == IF pc = "listing" THEN chunk ELSE rest

(* Every object that is due, and not covered by a stray cursor, is still     *)
(* ahead of the scanner: in a bucket to come, or in the current one and not  *)
(* yet listed, received or handled.                                         *)
Ahead ==
  ~cancelled =>
    /\ pc \in {"listing", "handling", "saving", "resetting"} =>
         \A o \in due[scope] : UpTo(o, stray[scope]) \/ o[1] \in todo
    /\ pc \in {"listing", "handling", "saving"} =>
         \A o \in due[scope] :
           o[1] = Current =>
             \/ UpTo(o, stray[scope])
             \/ o[2] \in page \cup Unhandled
             \/ more /\ o[2] > fetched

(* A cursor on its way to Redis is covered as the one in Redis is, unless it *)
(* belongs to an earlier traversal.                                         *)
LateCovers ==
  \A c \in late :
    ~c.old => \A o \in due[c.scope] : UpTo(o, c.cursor) => UpTo(o, stray[c.scope])

-----------------------------------------------------------------------------
(* The inductive invariant holds when the first process starts.             *)
LEMMA InitInv == Init => Shape /\ ListOrder /\ Ahead /\ LateCovers /\ CursorCovers
<1> SUFFICES ASSUME Init PROVE Shape /\ ListOrder /\ Ahead /\ LateCovers /\ CursorCovers
  OBVIOUS
<1>1. Shape
  BY ObjectIsPair DEF Init, Shape, Pcs
<1>2. ListOrder /\ Ahead /\ LateCovers
  BY DEF Init, ListOrder, Ahead, LateCovers
<1>3. CursorCovers
  BY DEF Init, CursorCovers, Key, UpTo
<1> QED
  BY <1>1, <1>2, <1>3

(* The bucket that ScanOnce begins with starts behind the cursor. *)
LEMMA NewBucketShape ==
  ASSUME NEW set, set \subseteq Buckets, NEW point \in Objects \cup {None},
         NewBucket(set, point)
  PROVE  /\ todo' \subseteq Buckets /\ fetched' \in Nat
         /\ page' = {} /\ chunk' = {} /\ rest' = {} /\ pc' \in {"listing", "resetting"}
         /\ pc' = "listing" <=> todo' # {}
         /\ pc' = "listing" => more'
<1>1. StartAfter(Min(set), point) \in Nat
  BY ObjectIsPair DEF StartAfter
<1> QED
  BY <1>1 DEF NewBucket

(* Every step of the scanner, of Redis and of the users keeps the types.     *)
LEMMA ShapeStep ==
  ASSUME Shape, ListOrder, [Next]_vars
  PROVE  Shape'
<1> USE DEF store, redis, process, scan, history
<1>1. ASSUME UNCHANGED <<buckets, objects, cursor, stray, late, scope, cancelled, due>>,
             todo' \subseteq Buckets, fetched' \in Nat,
             page' = {}, chunk' = {}, rest' = {}, pc' \in {"listing", "resetting"},
             pc' = "listing" <=> todo' # {}
      PROVE  Shape'
  BY <1>1 DEF Shape, Pcs
<1>2. ASSUME Idle, UNCHANGED <<buckets, objects>>,
             cursor' \in [Scopes -> Objects \cup {None}],
             stray' \in [Scopes -> Objects \cup {None}],
             late' \subseteq [scope : Scopes, cursor : Objects \cup {None}, old : BOOLEAN],
             UNCHANGED <<scope, cancelled>>,
             due' \in [Scopes -> SUBSET Objects],
             \A s \in Scopes : due'[s] \subseteq objects \cap InScope(s)
      PROVE  Shape'
  BY <1>2 DEF Shape, Pcs, Idle, InScope
<1>3. CASE Load
  <2>1. {b \in buckets \ Excluded[scope] : Cursor # None => b >= Cursor[1]} \subseteq Buckets
    BY DEF Shape
  <2>2. Cursor \in Objects \cup {None}
    BY DEF Shape, Cursor, Key
  <2> QED
    BY <1>1, <1>3, <2>1, <2>2, NewBucketShape DEF Load
<1>4. CASE FetchPage
  <2> DEFINE behind == {n \in Names : n > fetched /\ <<Current, n>> \in objects}
  <2>1. PICK answer \in SUBSET behind :
             /\ page' = page \cup answer
             /\ fetched' = IF answer = {} THEN fetched ELSE Max(answer)
    BY <1>4 DEF FetchPage
  <2>2. fetched' \in Nat
    BY <2>1, SomeNames, NamesFinite DEF Shape
  <2>3. \A n \in page' : n \in Names /\ <<Current, n>> \in Objects
    BY <2>1 DEF Shape
  <2>4. Current' = Current
    BY <1>4 DEF FetchPage, Current
  <2> QED
    BY <1>4, <2>2, <2>3, <2>4 DEF FetchPage, Shape, InScope
<1>5. CASE BucketGone
  BY <1>2, <1>5 DEF BucketGone, Shape
<1>6. CASE ReceiveItem
  <2> DEFINE n == Min(page)
  <2>1. n \in page /\ n \in Names
    BY <1>6, SomeNames DEF ReceiveItem, Shape
  <2>2. PICK collected \in {chunk, chunk \cup {n}} :
             \/ Cardinality(collected) = ChunkSize /\ StartChunk(collected)
             \/ chunk' = collected /\ UNCHANGED <<rest, pc>>
    BY <1>6 DEF ReceiveItem
  <2>3. Current' = Current /\ page' \subseteq page
    BY <1>6 DEF ReceiveItem, Current
  <2>4. Cardinality(collected) = ChunkSize => collected # {}
    BY FS_EmptySet, ScannerAssumption
  <2>5. pc = "listing" /\ UNCHANGED <<buckets, objects, cursor, stray, late, scope,
                                     cancelled, due, todo, fetched>>
    BY <1>6 DEF ReceiveItem
  <2>6. CASE Cardinality(collected) = ChunkSize /\ StartChunk(collected)
    BY <2>1, <2>2, <2>3, <2>4, <2>5, <2>6 DEF StartChunk, Shape, Pcs, InScope
  <2>7. CASE chunk' = collected /\ UNCHANGED <<rest, pc>>
    BY <2>1, <2>2, <2>3, <2>5, <2>7 DEF Shape, InScope
  <2> QED
    BY <2>2, <2>6, <2>7
<1>7. CASE StreamClosed
  <2>1. CASE chunk # {} /\ StartChunk(chunk) /\ UNCHANGED <<todo, fetched, page, more>>
    BY <1>7, <2>1 DEF StreamClosed, StartChunk, Shape, Pcs, Current, InScope
  <2>2. CASE NewBucket(todo \ {Current}, None)
    <3>1. todo \ {Current} \subseteq Buckets
      BY DEF Shape
    <3> QED
      BY <1>1, <1>7, <2>2, <3>1, NewBucketShape DEF StreamClosed
  <2> QED
    BY <1>7, <2>1, <2>2 DEF StreamClosed
<1>8. CASE Handle
  <2>1. Min(rest) \in rest
    BY <1>8, SomeNames DEF Handle, Shape
  <2>2. due' \in [Scopes -> SUBSET Objects]
        /\ \A s \in Scopes : due'[s] \subseteq due[s]
    BY <1>8 DEF Handle, Shape
  <2> QED
    BY <1>8, <2>1, <2>2 DEF Handle, Shape, Pcs, Current, InScope
<1>9. pc = "saving" => Last \in Objects
  BY SomeNames DEF Shape, Last
<1>10. ASSUME NEW point \in Objects \cup {None}
       PROVE  Command(point) \in [scope : Scopes, cursor : Objects \cup {None}, old : BOOLEAN]
  BY DEF Command, Shape
<1>11. CASE SaveCursor
  <2>1. cursor' \in [Scopes -> Objects \cup {None}]
    BY <1>9, <1>11 DEF SaveCursor, SaveCursorAs, Shape
  <2> QED
    BY <1>11, <2>1 DEF SaveCursor, SaveCursorAs, Shape, Pcs, Current, InScope
<1>12. CASE SaveCursorUnanswered
  <2>1. cursor' \in [Scopes -> Objects \cup {None}]
    BY <1>9, <1>12 DEF SaveCursorUnanswered, Shape
  <2>2. late' \subseteq [scope : Scopes, cursor : Objects \cup {None}, old : BOOLEAN]
    BY <1>9, <1>10, <1>12 DEF SaveCursorUnanswered, Shape
  <2> QED
    BY <1>2, <1>12, <2>1, <2>2 DEF SaveCursorUnanswered, Shape
<1>13. ASSUME BeginTraversal, Idle, UNCHANGED <<buckets, objects, scope, cancelled>>
       PROVE  Shape'
  <2>1. cursor' \in [Scopes -> Objects \cup {None}] /\ stray' \in [Scopes -> Objects \cup {None}]
    BY <1>13 DEF BeginTraversal, Shape
  <2>2. late' \subseteq [scope : Scopes, cursor : Objects \cup {None}, old : BOOLEAN]
    BY <1>13 DEF BeginTraversal, Shape
  <2>3. /\ due' \in [Scopes -> SUBSET Objects]
        /\ \A s \in Scopes : due'[s] \subseteq objects \cap InScope(s)
    BY <1>13 DEF BeginTraversal, Shape
  <2> QED
    BY <1>2, <1>13, <2>1, <2>2, <2>3
<1>14. CASE ResetCursor
  BY <1>13, <1>14 DEF ResetCursor
<1>15. CASE ResetCursorUnanswered
  <2>1. CASE BeginTraversal
    BY <1>13, <1>15, <2>1 DEF ResetCursorUnanswered
  <2>2. CASE late' = late \cup {Command(None)} /\ UNCHANGED <<cursor, due, handled, stray>>
    <3>1. late' \subseteq [scope : Scopes, cursor : Objects \cup {None}, old : BOOLEAN]
      BY <1>10, <2>2 DEF Shape
    <3> QED
      BY <1>2, <1>15, <2>2, <3>1 DEF ResetCursorUnanswered, Shape
  <2> QED
    BY <1>15, <2>1, <2>2 DEF ResetCursorUnanswered
<1>16. CASE LateCommand
  <2>1. PICK c \in late :
          /\ late' = late \ {c}
          /\ cursor' = [cursor EXCEPT ![Key(c.scope)] = c.cursor]
          /\ stray' = IF c.old /\ c.cursor # None /\ ~UpTo(c.cursor, stray[c.scope])
                       THEN [stray EXCEPT ![c.scope] = c.cursor] ELSE stray
    BY <1>16 DEF LateCommand
  <2>2. c.scope \in Scopes /\ c.cursor \in Objects \cup {None}
    BY DEF Shape
  <2>3. cursor' \in [Scopes -> Objects \cup {None}] /\ stray' \in [Scopes -> Objects \cup {None}]
    BY <2>1, <2>2 DEF Shape, Key
  <2> QED
    BY <1>16, <2>1, <2>3 DEF LateCommand, Shape, Current, InScope
<1>17. CASE Fail
  BY <1>2, <1>17 DEF Fail, Shape
<1>18. CASE Cancel
  BY <1>18 DEF Cancel, Shape, Current, InScope
<1>19. CASE CancelledReturns
  BY <1>2, <1>19 DEF CancelledReturns, Shape
<1>20. CASE PassOver
  <2>1. Min(rest) \in rest
    BY <1>20, SomeNames DEF PassOver, Shape
  <2> QED
    BY <1>20, <2>1 DEF PassOver, Shape, Pcs, Current, InScope
<1>21. CASE StreamCutShort
  <2>1. todo \ {Current} \subseteq Buckets
    BY DEF Shape
  <2> QED
    BY <1>1, <1>21, <2>1, NewBucketShape DEF StreamCutShort
<1>22. CASE RunReturns \/ Restart
  BY <1>22 DEF RunReturns, Restart, Shape, Pcs, Current, InScope
<1>23. CASE Change
  <2>1. /\ buckets' \subseteq Buckets
        /\ objects' \subseteq {o \in Objects : o[1] \in buckets'}
    BY <1>23, ObjectIsPair DEF Change, Insert, Delete, DeleteBucket, Shape
  <2>2. /\ due' \in [Scopes -> SUBSET Objects]
        /\ \A s \in Scopes : due'[s] \subseteq objects' \cap InScope(s)
    BY <1>23 DEF Change, Shape
  <2> QED
    BY <1>23, <2>1, <2>2 DEF Change, Shape, Current, InScope
<1>24. CASE UNCHANGED vars
  BY <1>24 DEF vars, Shape, Current, InScope
<1> QED
  BY <1>3, <1>4, <1>5, <1>6, <1>7, <1>8, <1>11, <1>12, <1>14, <1>15, <1>16, <1>17,
     <1>18, <1>19, <1>20, <1>21, <1>22, <1>23, <1>24 DEF Next, ScanStep, CancelledStep

(* Listing, receiving and saving keep the order of names: an answer begins   *)
(* behind the one before, and the first name of a page is received.          *)
LEMMA ListOrderStep ==
  ASSUME Shape, ListOrder, [Next]_vars
  PROVE  ListOrder'
<1> USE DEF store, redis, process, scan, history
<1>1. ASSUME page' = {}, chunk' = {}
      PROVE  ListOrder'
  BY <1>1 DEF ListOrder
<1>2. ASSUME UNCHANGED <<page, chunk, fetched>>
      PROVE  ListOrder'
  BY <1>2 DEF ListOrder
<1>3. /\ fetched \in Nat /\ page \subseteq Nat /\ chunk \subseteq Nat
      /\ page \subseteq Names /\ chunk \subseteq Names
  BY NamesFinite DEF Shape
<1>4. CASE FetchPage
  <2> DEFINE behind == {n \in Names : n > fetched /\ <<Current, n>> \in objects}
  <2>1. PICK answer \in SUBSET behind :
             /\ page' = page \cup answer
             /\ fetched' = IF answer = {} THEN fetched ELSE Max(answer)
    BY <1>4 DEF FetchPage
  <2>2. chunk' = chunk
    BY <1>4 DEF FetchPage
  <2>3. \A n \in answer : n \in Nat /\ n > fetched
    BY NamesFinite
  <2>4. CASE answer = {}
    BY <2>1, <2>2, <2>4 DEF ListOrder
  <2>5. CASE answer # {}
    <3>1. fetched' \in answer /\ \A n \in answer : n <= fetched'
      BY <2>1, <2>5, SomeNames
    <3>2. \A n \in page' \cup chunk' : n <= fetched'
      BY <1>3, <2>1, <2>2, <2>3, <3>1 DEF ListOrder
    <3>3. \A n \in page', m \in chunk' : m < n
      BY <1>3, <2>1, <2>2, <2>3 DEF ListOrder
    <3> QED
      BY <3>2, <3>3 DEF ListOrder
  <2> QED
    BY <2>4, <2>5
<1>5. CASE ReceiveItem
  <2> DEFINE n == Min(page)
  <2>1. n \in page /\ \A m \in page : n <= m
    BY <1>3, <1>5, SomeNames DEF ReceiveItem
  <2>2. /\ page' = page \ {n} /\ fetched' = fetched
        /\ chunk' \subseteq chunk \cup {n}
    BY <1>5 DEF ReceiveItem, StartChunk
  <2> HIDE DEF n
  <2>3. \A m \in page' : n < m
    BY <1>3, <2>1, <2>2
  <2> QED
    BY <1>3, <2>1, <2>2, <2>3 DEF ListOrder
<1>6. CASE StreamClosed
  BY <1>1, <1>2, <1>6 DEF StreamClosed, StartChunk, NewBucket
<1>7. CASE SaveCursor
  BY <1>7 DEF SaveCursor, SaveCursorAs, ListOrder
<1>8. CASE Load \/ StreamCutShort
  BY <1>1, <1>8 DEF Load, StreamCutShort, NewBucket
<1>9. CASE \/ BucketGone \/ ResetCursor \/ SaveCursorUnanswered \/ ResetCursorUnanswered
           \/ Fail \/ CancelledReturns
  BY <1>1, <1>9 DEF BucketGone, ResetCursor, SaveCursorUnanswered, ResetCursorUnanswered,
     Fail, CancelledReturns, Idle
<1>10. CASE \/ Handle \/ LateCommand \/ Cancel \/ PassOver \/ RunReturns \/ Restart
            \/ Change \/ UNCHANGED vars
  BY <1>2, <1>10 DEF Handle, LateCommand, Cancel, PassOver, RunReturns, Restart, Change, vars
<1> QED
  BY <1>4, <1>5, <1>6, <1>7, <1>8, <1>9, <1>10 DEF Next, ScanStep, CancelledStep

-----------------------------------------------------------------------------
(* How due and stray change. *)

(* But for a new traversal, what a stray cursor covers stays covered: only   *)
(* a late command that is further on replaces it.                           *)
LEMMA StrayGrows ==
  ASSUME Shape, LateCommand, NEW s \in Scopes, NEW o \in Objects, UpTo(o, stray[s])
  PROVE  UpTo(o, stray'[s])
<1>1. PICK c \in late :
        stray' = IF c.old /\ c.cursor # None /\ ~UpTo(c.cursor, stray[c.scope])
                 THEN [stray EXCEPT ![c.scope] = c.cursor] ELSE stray
  BY DEF LateCommand
<1>2. c.scope \in Scopes /\ c.cursor \in Objects \cup {None}
  BY DEF Shape
<1>3. CASE s = c.scope /\ c.old /\ c.cursor # None /\ ~UpTo(c.cursor, stray[c.scope])
  <2>1. stray'[s] = c.cursor
    BY <1>1, <1>2, <1>3 DEF Shape
  <2>2. stray[s] \in Objects
    BY DEF Shape, UpTo
  <2>3. UpTo(stray[s], c.cursor)
    BY <1>2, <1>3, <2>2, UpToTotal DEF UpTo
  <2> QED
    BY <1>2, <1>3, <2>1, <2>2, <2>3, UpToTransitive
<1>4. CASE s # c.scope \/ ~(c.old /\ c.cursor # None /\ ~UpTo(c.cursor, stray[c.scope]))
  BY <1>1, <1>2, <1>4 DEF Shape
<1> QED
  BY <1>3, <1>4

(* Objects become due only when a traversal begins. *)
LEMMA DueShrinks ==
  ASSUME Shape, Handle \/ Change, NEW s \in Scopes
  PROVE  due'[s] \subseteq due[s]
  BY DEF Shape, Handle, Change

(* The cursor that a chunk ends with covers nothing that is still due: the   *)
(* buckets before are finished, and so are the names up to the last one.     *)
LEMMA LastCovers ==
  ASSUME Shape, ListOrder, Ahead, pc = "saving", ~cancelled,
         NEW o \in due[scope], UpTo(o, Last)
  PROVE  UpTo(o, stray[scope])
<1>1. Current \in todo /\ \A b \in todo : Current <= b
  BY SomeBuckets DEF Shape, Current
<1>2. Max(chunk) \in chunk
  BY SomeNames DEF Shape
<1>3. o \in Objects
  BY DEF Shape
<1>4. /\ Current \in Nat /\ Max(chunk) \in Nat /\ o[1] \in Nat /\ o[2] \in Nat
      /\ todo \subseteq Nat /\ page \subseteq Nat /\ fetched \in Nat
  BY <1>1, <1>2, <1>3, ObjectIsPair, NamesFinite, ScannerAssumption DEF Shape
<1>5. o[1] < Current \/ (o[1] = Current /\ o[2] <= Max(chunk))
  BY <1>4 DEF UpTo, Before, Last
<1>6. CASE o[1] < Current
  <2>1. o[1] \notin todo
    BY <1>1, <1>4, <1>6
  <2> QED
    BY <2>1 DEF Ahead
<1>7. CASE o[1] = Current /\ o[2] <= Max(chunk)
  <2>1. o[2] \notin page
    BY <1>2, <1>4, <1>7 DEF ListOrder
  <2>2. ~(o[2] > fetched)
    BY <1>2, <1>4, <1>7 DEF ListOrder
  <2>3. Unhandled = {}
    BY DEF Unhandled, Shape
  <2> QED
    BY <1>7, <2>1, <2>2, <2>3 DEF Ahead
<1> QED
  BY <1>5, <1>6, <1>7

-----------------------------------------------------------------------------
(* What is due stays ahead of the scanner. *)

(* A bucket begins with everything behind the point it starts at still to    *)
(* be listed.                                                               *)
LEMMA NewBucketAhead ==
  ASSUME Shape, NEW set, set \subseteq Buckets, NEW point \in Objects \cup {None},
         NewBucket(set, point), UNCHANGED <<scope, due, stray>>,
         \A o \in due[scope] :
           UpTo(o, stray[scope]) \/ (o[1] \in set /\ ~UpTo(o, point))
  PROVE  Ahead'
<1>1. \A o \in due'[scope'] : UpTo(o, stray'[scope']) \/ o[1] \in todo'
  BY DEF NewBucket
<1>2. ASSUME pc' \in {"listing", "handling", "saving"}
      PROVE  set # {} /\ todo' = set /\ Current' = Min(set) /\ more'
             /\ fetched' = StartAfter(Min(set), point)
  BY <1>2 DEF NewBucket, Current
<1>3. ASSUME pc' \in {"listing", "handling", "saving"},
             NEW o \in due'[scope'], o[1] = Current', ~UpTo(o, stray'[scope'])
      PROVE  more' /\ o[2] > fetched'
  <2>1. o \in due[scope] /\ o \in Objects /\ ~UpTo(o, point)
    BY <1>3 DEF Shape
  <2>2. o[1] \in Nat /\ o[2] \in Nat /\ o[2] > 0 /\ o[1] = Min(set)
    BY <1>2, <1>3, <2>1, ObjectIsPair
  <2>3. CASE point # None /\ point[1] = Min(set)
    <3>1. point[2] \in Nat /\ point = <<point[1], point[2]>> /\ o = <<o[1], o[2]>>
      BY <2>1, <2>3, ObjectIsPair
    <3>2. ~(o[2] < point[2]) /\ o[2] # point[2]
      BY <2>1, <2>2, <2>3, <3>1 DEF UpTo, Before
    <3>3. fetched' = point[2]
      BY <1>2, <1>3, <2>3 DEF StartAfter
    <3> QED
      BY <1>2, <1>3, <2>2, <3>1, <3>2, <3>3
  <2>4. CASE ~(point # None /\ point[1] = Min(set))
    BY <1>2, <1>3, <2>2, <2>4 DEF StartAfter
  <2> QED
    BY <2>3, <2>4
<1> QED
  BY <1>1, <1>3 DEF Ahead

(* ScanOnce resumes behind the cursor, which covers nothing that is due, and *)
(* passes only over names that it has handled.                              *)
LEMMA AheadStep ==
  ASSUME Shape, ListOrder, Ahead, CursorCovers, [Next]_vars
  PROVE  Ahead'
<1> USE DEF store, redis, process, scan, history
<1>1. ASSUME pc' \notin {"listing", "handling", "saving", "resetting"} \/ cancelled'
      PROVE  Ahead'
  BY <1>1 DEF Ahead
<1>2. ASSUME UNCHANGED <<scope, cancelled, pc, todo, fetched, page, more, chunk, rest>>,
             due'[scope] \subseteq due[scope],
             \A o \in due[scope] : UpTo(o, stray[scope]) => UpTo(o, stray'[scope])
      PROVE  Ahead'
  BY <1>2 DEF Ahead, Unhandled, Current
<1>3. scope \in Scopes /\ due[scope] \subseteq Objects /\ Cursor \in Objects \cup {None}
  BY DEF Shape, Cursor, Key
<1>4. CASE Load
  <2> DEFINE set == {b \in buckets \ Excluded[scope] : Cursor # None => b >= Cursor[1]}
  <2>1. ASSUME NEW o \in due[scope], ~UpTo(o, stray[scope])
        PROVE  o[1] \in set /\ ~UpTo(o, Cursor)
    <3>1. ~UpTo(o, Cursor)
      BY <1>3, <2>1 DEF CursorCovers, Cursor
    <3>2. o[1] \in buckets \ Excluded[scope]
      BY <1>3 DEF Shape, InScope
    <3>3. Cursor # None => o[1] >= Cursor[1]
      BY <1>3, <3>1, ObjectIsPair DEF UpTo, Before
    <3> QED
      BY <3>1, <3>2, <3>3
  <2>2. set \subseteq Buckets
    BY DEF Shape
  <2>3. NewBucket(set, Cursor) /\ UNCHANGED <<scope, due, stray>>
    BY <1>4 DEF Load
  <2> HIDE DEF set
  <2> QED
    BY <1>3, <2>1, <2>2, <2>3, NewBucketAhead
<1>5. CASE FetchPage
  <2> DEFINE behind == {n \in Names : n > fetched /\ <<Current, n>> \in objects}
  <2>1. PICK answer \in SUBSET behind :
             /\ \A n \in answer, m \in behind \ answer : n < m
             /\ answer = {} => behind = {}
             /\ page' = page \cup answer
             /\ fetched' = IF answer = {} THEN fetched ELSE Max(answer)
             /\ more' = (answer # behind)
    BY <1>5 DEF FetchPage
  <2>2. /\ UNCHANGED <<scope, cancelled, pc, todo, chunk, rest, due, stray>>
        /\ ~cancelled /\ pc \in {"listing", "handling", "saving"}
        /\ Current' = Current /\ Unhandled' = Unhandled
    BY <1>5 DEF FetchPage, Current, Unhandled
  <2>3. ASSUME NEW o \in due[scope], o[1] = Current, more, o[2] > fetched
        PROVE  o[2] \in page' \/ (more' /\ o[2] > fetched')
    <3>1. o[2] \in behind
      BY <1>3, <2>3, ObjectIsPair DEF Names, Shape
    <3>2. CASE o[2] \in answer
      BY <2>1, <3>2
    <3>3. CASE o[2] \notin answer
      <4>1. answer # {} /\ answer \subseteq Names
        BY <2>1, <3>1
      <4>2. Max(answer) \in answer
        BY <4>1, SomeNames
      <4>3. Max(answer) < o[2] /\ Max(answer) \in Nat /\ o[2] \in Nat
        BY <2>1, <3>1, <3>3, <4>1, <4>2, NamesFinite
      <4> HIDE DEF behind
      <4> QED
        BY <2>1, <3>1, <3>3, <4>1, <4>3
    <3> QED
      BY <3>2, <3>3
  <2>4. page \subseteq page'
    BY <2>1
  <2> QED
    BY <2>2, <2>3, <2>4 DEF Ahead
<1>6. CASE ReceiveItem
  <2> DEFINE n == Min(page)
  <2>1. /\ UNCHANGED <<scope, cancelled, todo, fetched, more, due, stray>>
        /\ pc = "listing" /\ Current' = Current
        /\ page' = page \ {n}
    BY <1>6 DEF ReceiveItem, Current
  <2>2. pc' \in {"listing", "handling"}
    BY <1>6 DEF ReceiveItem, StartChunk
  <2>3. Unhandled' = IF <<Current, n>> \in Directories THEN chunk ELSE chunk \cup {n}
    BY <1>6 DEF ReceiveItem, StartChunk, Unhandled
  <2>4. Unhandled = chunk
    BY <2>1 DEF Unhandled
  <2>5. \A o \in due[scope] :
          o[1] = Current /\ o[2] \in page \cup Unhandled => o[2] \in page' \cup Unhandled'
    <3>1. \A o \in due[scope] : o = <<o[1], o[2]>> /\ o \notin Directories
      BY <1>3, ObjectIsPair DEF Shape, InScope
    <3> HIDE DEF n
    <3> QED
      BY <2>1, <2>3, <2>4, <3>1
  <2> HIDE DEF n
  <2> QED
    BY <2>1, <2>2, <2>5 DEF Ahead
<1>7. CASE StreamClosed
  <2>1. CASE chunk # {} /\ StartChunk(chunk) /\ UNCHANGED <<todo, fetched, page, more>>
    BY <1>7, <2>1 DEF StreamClosed, StartChunk, Ahead, Unhandled, Current
  <2>2. CASE chunk = {} /\ NewBucket(todo \ {Current}, None)
    <3>1. CASE cancelled
      BY <1>1, <1>7, <3>1 DEF StreamClosed
    <3>2. CASE ~cancelled
      <4>1. /\ pc = "listing" /\ page = {} /\ ~more
            /\ UNCHANGED <<scope, due, stray>>
        BY <1>7 DEF StreamClosed
      <4>2. \A o \in due[scope] : UpTo(o, stray[scope]) \/ o[1] \in todo \ {Current}
        BY <2>2, <3>2, <4>1 DEF Ahead, Unhandled
      <4>3. \A o \in due[scope] : ~UpTo(o, None)
        BY DEF UpTo
      <4>4. todo \ {Current} \subseteq Buckets
        BY DEF Shape
      <4> QED
        BY <2>2, <4>1, <4>2, <4>3, <4>4, NewBucketAhead
    <3> QED
      BY <3>1, <3>2
  <2> QED
    BY <1>7, <2>1, <2>2 DEF StreamClosed
<1>8. CASE Handle
  <2> DEFINE n == Min(rest)
  <2>1. /\ UNCHANGED <<scope, cancelled, todo, fetched, page, more, chunk, stray>>
        /\ pc = "handling" /\ pc' \in {"handling", "saving"} /\ Current' = Current
        /\ rest' = rest \ {n}
    BY <1>8 DEF Handle, Current
  <2>2. due'[scope] = due[scope] \ {<<Current, n>>}
    BY <1>3, <1>8 DEF Handle, Shape
  <2>3. Unhandled = rest /\ Unhandled' = rest'
    BY <2>1 DEF Unhandled
  <2> HIDE DEF n
  <2>4. ASSUME NEW o \in due'[scope], o[1] = Current, o[2] \in Unhandled
        PROVE  o[2] \in Unhandled'
    <3>1. o = <<o[1], o[2]>> /\ o # <<Current, n>>
      BY <1>3, <2>2, <2>4, ObjectIsPair
    <3> QED
      BY <2>1, <2>3, <2>4, <3>1
  <2> QED
    BY <2>1, <2>2, <2>4 DEF Ahead
<1>9. CASE SaveCursor
  BY <1>9 DEF SaveCursor, SaveCursorAs, Ahead, Unhandled, Current, Shape
<1>10. CASE LateCommand
  <2>1. \A o \in due[scope] : UpTo(o, stray[scope]) => UpTo(o, stray'[scope])
    BY <1>3, <1>10, StrayGrows
  <2>2. UNCHANGED <<scope, cancelled, pc, todo, fetched, page, more, chunk, rest, due>>
    BY <1>10 DEF LateCommand
  <2> QED
    BY <1>2, <2>1, <2>2
<1>11. CASE Change
  <2>1. UNCHANGED <<scope, cancelled, pc, todo, fetched, page, more, chunk, rest, stray>>
    BY <1>11 DEF Change
  <2> QED
    BY <1>2, <1>3, <1>11, <2>1, DueShrinks
<1>12. CASE UNCHANGED vars
  BY <1>2, <1>12 DEF vars
<1>13. CASE \/ BucketGone \/ ResetCursor \/ SaveCursorUnanswered \/ ResetCursorUnanswered
            \/ Fail \/ CancelledReturns \/ RunReturns \/ Restart
  BY <1>1, <1>13 DEF BucketGone, ResetCursor, SaveCursorUnanswered, ResetCursorUnanswered,
     Fail, CancelledReturns, RunReturns, Restart, Idle
<1>14. CASE Cancel \/ PassOver \/ StreamCutShort
  BY <1>1, <1>14 DEF Cancel, PassOver, StreamCutShort
<1> QED
  BY <1>4, <1>5, <1>6, <1>7, <1>8, <1>9, <1>10, <1>11, <1>12, <1>13, <1>14
  DEF Next, ScanStep, CancelledStep

-----------------------------------------------------------------------------
(* The cursors in Redis and on their way to it. *)

(* A new traversal begins without a cursor, and the commands of those before *)
(* are old from then on.                                                    *)
LEMMA BeginTraversalCovers ==
  ASSUME Shape, LateCovers, CursorCovers, BeginTraversal
  PROVE  LateCovers' /\ CursorCovers'
<1>1. ASSUME NEW s \in Scopes, s # scope
      PROVE  due'[s] = due[s] /\ stray'[s] = stray[s] /\ cursor'[s] = cursor[s]
  BY <1>1 DEF BeginTraversal, Shape, Key
<1>2. CursorCovers'
  <2>1. cursor'[scope] = None
    BY DEF BeginTraversal, Shape, Key
  <2> QED
    BY <1>1, <2>1 DEF CursorCovers, Key, UpTo
<1>3. LateCovers'
  <2>1. ASSUME NEW c \in late', ~c.old
        PROVE  c \in late /\ c.scope # scope /\ c.scope \in Scopes
    <3>1. PICK d \in late : c = IF d.scope = scope THEN [d EXCEPT !.old = TRUE] ELSE d
      BY <2>1 DEF BeginTraversal
    <3>2. d \in [scope : Scopes, cursor : Objects \cup {None}, old : BOOLEAN]
      BY DEF Shape
    <3> QED
      BY <2>1, <3>1, <3>2
  <2> QED
    BY <1>1, <2>1 DEF LateCovers
<1> QED
  BY <1>2, <1>3

(* What holds of the cursors keeps holding when a cursor that covers nothing *)
(* due is written, or is left to Redis.                                     *)
LEMMA CoversStep ==
  ASSUME Shape, ListOrder, Ahead, LateCovers, CursorCovers, [Next]_vars
  PROVE  LateCovers' /\ CursorCovers'
<1> USE DEF store, redis, process, scan, history
<1>1. ASSUME UNCHANGED <<cursor, late, stray>>,
             \A s \in Scopes : due'[s] \subseteq due[s]
      PROVE  LateCovers' /\ CursorCovers'
  <2>1. \A c \in late : c.scope \in Scopes
    BY DEF Shape
  <2> QED
    BY <1>1, <2>1 DEF LateCovers, CursorCovers, Key
<1>2. ASSUME NEW point, UNCHANGED <<due, stray>>,
             \A o \in due[scope] : UpTo(o, point) => UpTo(o, stray[scope])
      PROVE  /\ cursor' = [cursor EXCEPT ![Key(scope)] = point] => CursorCovers'
             /\ late' = late \cup {Command(point)} => LateCovers'
             /\ cursor' = cursor => CursorCovers'
             /\ late' = late => LateCovers'
  BY <1>2 DEF CursorCovers, LateCovers, Command, Key, Shape
<1>3. pc = "saving" /\ ~cancelled
        => \A o \in due[scope] : UpTo(o, Last) => UpTo(o, stray[scope])
  BY LastCovers
<1>4. CASE SaveCursor
  BY <1>2, <1>3, <1>4 DEF SaveCursor, SaveCursorAs
<1>5. CASE SaveCursorUnanswered
  BY <1>2, <1>3, <1>5 DEF SaveCursorUnanswered
<1>6. CASE ResetCursor
  BY <1>6, BeginTraversalCovers DEF ResetCursor
<1>7. CASE ResetCursorUnanswered
  <2>1. \A o \in due[scope] : ~UpTo(o, None)
    BY DEF UpTo
  <2> QED
    BY <1>2, <1>7, <2>1, BeginTraversalCovers DEF ResetCursorUnanswered
<1>8. CASE LateCommand
  <2>1. PICK c \in late :
          /\ late' = late \ {c}
          /\ cursor' = [cursor EXCEPT ![Key(c.scope)] = c.cursor]
          /\ stray' = IF c.old /\ c.cursor # None /\ ~UpTo(c.cursor, stray[c.scope])
                       THEN [stray EXCEPT ![c.scope] = c.cursor] ELSE stray
          /\ due' = due
    BY <1>8 DEF LateCommand
  <2>2. c.scope \in Scopes /\ c.cursor \in Objects \cup {None}
    BY DEF Shape
  <2>3. ASSUME NEW s \in Scopes, NEW o \in due[s], UpTo(o, stray[s])
        PROVE  UpTo(o, stray'[s])
    BY <1>8, <2>3, StrayGrows DEF Shape
  <2>4. LateCovers'
    <3>1. \A d \in late : d.scope \in Scopes
      BY DEF Shape
    <3> QED
      BY <2>1, <2>3, <3>1 DEF LateCovers
  <2>5. ASSUME NEW o \in due[c.scope], UpTo(o, c.cursor)
        PROVE  UpTo(o, stray'[c.scope])
    <3>1. o \in Objects /\ c.cursor \in Objects
      BY <2>2, <2>5 DEF Shape, UpTo
    <3>2. CASE ~c.old
      BY <2>2, <2>3, <2>5, <3>2 DEF LateCovers
    <3>3. CASE c.old /\ UpTo(c.cursor, stray[c.scope])
      <4>1. UpTo(o, stray[c.scope])
        BY <2>2, <2>5, <3>1, <3>3, UpToTransitive DEF Shape
      <4> QED
        BY <2>2, <2>3, <4>1
    <3>4. CASE c.old /\ ~UpTo(c.cursor, stray[c.scope])
      <4>1. stray'[c.scope] = c.cursor
        BY <2>1, <2>2, <2>5, <3>4 DEF Shape, UpTo
      <4> QED
        BY <2>5, <4>1
    <3> QED
      BY <3>2, <3>3, <3>4
  <2>6. CursorCovers'
    <3>1. ASSUME NEW s \in Scopes, NEW o \in due[s], UpTo(o, cursor'[s])
          PROVE  UpTo(o, stray'[s])
      <4>1. CASE s = c.scope
        <5>1. cursor'[s] = c.cursor
          BY <2>1, <2>2, <4>1 DEF Shape, Key
        <5> QED
          BY <2>5, <3>1, <4>1, <5>1
      <4>2. CASE s # c.scope
        <5>1. cursor'[s] = cursor[s]
          BY <2>1, <4>2 DEF Shape, Key
        <5> QED
          BY <2>3, <3>1, <5>1 DEF CursorCovers, Key
      <4> QED
        BY <4>1, <4>2
    <3> QED
      BY <2>1, <3>1 DEF CursorCovers, Key
  <2> QED
    BY <2>4, <2>6
<1>9. CASE Handle \/ Change
  <2>1. UNCHANGED <<cursor, late, stray>>
    BY <1>9 DEF Handle, Change
  <2> QED
    BY <1>1, <1>9, <2>1, DueShrinks
<1>10. CASE \/ Load \/ FetchPage \/ BucketGone \/ ReceiveItem \/ StreamClosed \/ Fail
            \/ Cancel \/ CancelledStep \/ Restart \/ UNCHANGED vars
  BY <1>1, <1>10 DEF Load, FetchPage, BucketGone, ReceiveItem, StreamClosed, Fail, Cancel,
     CancelledStep, CancelledReturns, PassOver, StreamCutShort, RunReturns, Restart, vars
<1> QED
  BY <1>4, <1>5, <1>6, <1>7, <1>8, <1>9, <1>10 DEF Next, ScanStep

-----------------------------------------------------------------------------
Inv == Shape /\ ListOrder /\ Ahead /\ LateCovers /\ CursorCovers

(* Whoever moves, the invariant is kept. *)
LEMMA InvStep ==
  ASSUME Inv, [Next]_vars
  PROVE  Inv'
  BY ShapeStep, ListOrderStep, AheadStep, CoversStep DEF Inv

(* So it holds at every moment. *)
LEMMA Invariance == Spec => []Inv
<1>1. Init => Inv
  BY InitInv DEF Inv
<1>2. Inv /\ [Next]_vars => Inv'
  BY InvStep
<1> QED
  BY <1>1, <1>2, PTL DEF Spec

(* The cursor saved in Redis never runs ahead of the work, so the next       *)
(* ScanOnce resumes behind it without passing over an object: through every  *)
(* error, crash, cancellation, change of configuration and late command of   *)
(* SaveCursor and ResetCursor (scanner.go, redis.go).                        *)
THEOREM CursorNeverAhead == Spec => []CursorCovers
<1>1. Inv => CursorCovers
  BY DEF Inv
<1> QED
  BY <1>1, Invariance, PTL

(* Only ScanOnce deletes a cursor at its end; nothing that is due is ahead   *)
(* of it then.  A cancelled one only returns.                               *)
LEMMA ResetStep ==
  ASSUME Inv, Next,
         pc = "resetting", pc' = "idle", Cursor' = None, cancelled => Cursor # None
  PROVE  \A o \in due[scope] : UpTo(o, stray[scope])
<1>1. CASE ~cancelled
  BY <1>1 DEF Inv, Shape, Ahead
<1>2. CASE cancelled
  <2>1. CancelledReturns
    BY <1>2 DEF Next, ScanStep, CancelledStep, Load, FetchPage, BucketGone,
       ReceiveItem, StreamClosed, Handle, SaveCursor, ResetCursor, SaveCursorUnanswered,
       ResetCursorUnanswered, LateCommand, Fail, Cancel, PassOver, StreamCutShort,
       RunReturns, Restart, Change
  <2>2. Cursor' = Cursor
    BY <2>1 DEF CancelledReturns, Cursor, redis, process
  <2> QED
    BY <1>2, <2>2
<1> QED
  BY <1>1, <1>2

(* When ScanOnce deletes its cursor, every object in scope that was there    *)
(* since the traversal began has been handled, but for those up to a stray   *)
(* cursor.                                                                  *)
THEOREM TraversalsCover == Spec => TraversalCovers
<1>1. Inv /\ [Next]_vars =>
        [pc = "resetting" /\ pc' = "idle" /\ Cursor' = None /\ (cancelled => Cursor # None)
           => \A o \in due[scope] : UpTo(o, stray[scope])]_vars
  BY ResetStep
<1> QED
  BY <1>1, Invariance, PTL DEF Spec, TraversalCovers

-----------------------------------------------------------------------------
(* Type correctness: what is handled is in scope, and the counters stay in    *)
(* their bounds.                                                            *)

(* ScanOnce skips excluded buckets and directory markers, and starts a chunk  *)
(* as soon as it is full.                                                   *)
Tidy ==
  /\ pc \in {"idle", "stopped", "resetting"} => todo = {} /\ page = {} /\ chunk = {}
  /\ todo \cap Excluded[scope] = {}
  /\ \A n \in chunk : <<Current, n>> \notin Directories
  /\ fetched \in Names \cup {0} /\ more \in BOOLEAN
  /\ Cardinality(chunk) <= ChunkSize
  /\ pc = "listing" => Cardinality(chunk) < ChunkSize
  /\ handled \in [Scopes -> SUBSET Objects]
  /\ \A s \in Scopes : handled[s] \subseteq InScope(s)

(* Every command that may move a cursor back was left by a failure.          *)
Accounts ==
  /\ repeats \in Nat /\ setbacks \in Nat
  /\ changes \in 0..MaxChanges /\ failures \in 0..MaxFailures
  /\ IsFiniteSet(late) /\ Cardinality(late) + setbacks <= failures

(* An empty chunk is no full one. *)
LEMMA EmptyChunk ==
  ASSUME NEW c, c = {}
  PROVE  Cardinality(c) < ChunkSize /\ Cardinality(c) <= ChunkSize
  BY FS_EmptySet, ScannerAssumption

(* What ScanOnce does not touch stays tidy. *)
LEMMA TidyStep ==
  ASSUME Shape, Tidy, [Next]_vars
  PROVE  Tidy'
<1> USE DEF store, redis, process, scan, history
<1>1. ASSUME Idle, scope' = scope,
             handled' \in [Scopes -> SUBSET Objects],
             \A s \in Scopes : handled'[s] \subseteq InScope(s)
      PROVE  Tidy'
  <2>1. Cardinality(chunk') < ChunkSize /\ Cardinality(chunk') <= ChunkSize
    BY <1>1, EmptyChunk DEF Idle
  <2> QED
    BY <1>1, <2>1 DEF Tidy, Idle, InScope
<1>2. ASSUME NEW set, set \subseteq Buckets, set \cap Excluded[scope] = {},
             NEW point \in Objects \cup {None}, NewBucket(set, point),
             UNCHANGED <<scope, handled>>
      PROVE  Tidy'
  <2>1. fetched' \in Names \cup {0}
    BY <1>2 DEF NewBucket, StartAfter, Names
  <2>2. /\ todo' = set /\ page' = {} /\ chunk' = {} /\ more' \in BOOLEAN
        /\ pc' = IF set = {} THEN "resetting" ELSE "listing"
    BY <1>2 DEF NewBucket
  <2>3. Cardinality(chunk') < ChunkSize /\ Cardinality(chunk') <= ChunkSize
    BY <2>2, EmptyChunk
  <2> QED
    BY <1>2, <2>1, <2>2, <2>3 DEF Tidy, InScope
<1>3. ASSUME UNCHANGED <<scope, handled, todo, fetched, more, chunk>>,
             pc' \notin {"idle", "stopped", "resetting"} \/ (pc' = pc /\ page' = page),
             pc' = "listing" => pc = "listing"
      PROVE  Tidy'
  BY <1>3 DEF Tidy, Current, InScope
<1>4. CASE Load
  <2>1. {b \in buckets \ Excluded[scope] : Cursor # None => b >= Cursor[1]} \subseteq Buckets
    BY DEF Shape
  <2>2. Cursor \in Objects \cup {None}
    BY DEF Shape, Cursor, Key
  <2> QED
    BY <1>2, <1>4, <2>1, <2>2 DEF Load
<1>5. CASE FetchPage
  <2> DEFINE behind == {n \in Names : n > fetched /\ <<Current, n>> \in objects}
  <2>1. PICK answer \in SUBSET behind :
             /\ fetched' = IF answer = {} THEN fetched ELSE Max(answer)
             /\ more' = (answer # behind)
    BY <1>5 DEF FetchPage
  <2>2. fetched' \in Names \cup {0}
    BY <2>1, SomeNames DEF Tidy
  <2>3. more' \in BOOLEAN
    BY <2>1
  <2>4. UNCHANGED <<scope, handled, todo, chunk, pc>> /\ pc \in {"listing", "handling", "saving"}
    BY <1>5 DEF FetchPage
  <2> QED
    BY <2>2, <2>3, <2>4 DEF Tidy, Current, InScope
<1>6. CASE ReceiveItem
  <2> DEFINE n == Min(page)
  <2>1. UNCHANGED <<scope, handled, todo, fetched, more>> /\ pc = "listing"
    BY <1>6 DEF ReceiveItem
  <2>2. PICK collected :
             /\ collected = IF <<Current, n>> \in Directories THEN chunk ELSE chunk \cup {n}
             /\ \/ Cardinality(collected) = ChunkSize /\ StartChunk(collected)
                \/ /\ Cardinality(collected) < ChunkSize
                   /\ chunk' = collected /\ UNCHANGED <<rest, pc>>
    BY <1>6 DEF ReceiveItem
  <2> HIDE DEF n
  <2>3. chunk' = collected /\ \A m \in collected : <<Current, m>> \notin Directories
    BY <2>2 DEF Tidy, StartChunk
  <2>4. pc' \in {"listing", "handling"} /\ Cardinality(chunk') <= ChunkSize
        /\ (pc' = "listing" => Cardinality(chunk') < ChunkSize)
    <3>1. CASE Cardinality(collected) = ChunkSize /\ StartChunk(collected)
      BY <2>3, <3>1, ScannerAssumption DEF StartChunk
    <3>2. CASE Cardinality(collected) < ChunkSize /\ UNCHANGED pc
      <4>1. collected \subseteq Names
        BY <1>6, <2>2, SomeNames DEF ReceiveItem, Shape, n
      <4>2. Cardinality(collected) \in Nat
        BY <4>1, NamesFinite, FS_Subset, FS_CardinalityType
      <4> QED
        BY <2>1, <2>3, <3>2, <4>2, ScannerAssumption
    <3> QED
      BY <2>2, <3>1, <3>2
  <2> QED
    BY <2>1, <2>3, <2>4 DEF Tidy, Current, InScope
<1>7. CASE StreamClosed \/ StreamCutShort
  <2>1. CASE chunk # {} /\ StartChunk(chunk) /\ UNCHANGED <<todo, fetched, page, more>>
    BY <1>3, <1>7, <2>1 DEF StreamClosed, StreamCutShort, StartChunk
  <2>2. CASE NewBucket(todo \ {Current}, None)
    <3>1. todo \ {Current} \subseteq Buckets /\ (todo \ {Current}) \cap Excluded[scope] = {}
      BY DEF Shape, Tidy
    <3> QED
      BY <1>2, <1>7, <2>2, <3>1 DEF StreamClosed, StreamCutShort
  <2> QED
    BY <1>7, <2>1, <2>2 DEF StreamClosed, StreamCutShort
<1>8. CASE Handle
  <2> DEFINE o == <<Current, Min(rest)>>
  <2>1. Min(rest) \in rest /\ Min(rest) \in chunk
    BY <1>8, SomeNames DEF Handle, Shape
  <2>2. o \in Objects /\ o \notin Directories /\ o[1] = Current
    BY <2>1 DEF Shape, Tidy
  <2>3. Current \in todo
    BY <1>8, SomeBuckets DEF Handle, Shape, Current
  <2>4. o \in InScope(scope)
    BY <2>2, <2>3 DEF InScope, Tidy
  <2>5. /\ handled' = [handled EXCEPT ![scope] = @ \cup {o}]
        /\ UNCHANGED <<scope, todo, fetched, page, more, chunk>>
        /\ pc' \in {"handling", "saving"}
    BY <1>8 DEF Handle
  <2> HIDE DEF o
  <2>6. /\ handled' \in [Scopes -> SUBSET Objects]
        /\ \A s \in Scopes : handled'[s] \subseteq InScope(s)
    BY <2>2, <2>4, <2>5 DEF Tidy, Shape
  <2> QED
    BY <2>5, <2>6 DEF Tidy, Current, InScope
<1>9. CASE SaveCursor
  <2>1. Cardinality(chunk') < ChunkSize /\ Cardinality(chunk') <= ChunkSize
    BY <1>9, EmptyChunk DEF SaveCursor, SaveCursorAs
  <2> QED
    BY <1>9, <2>1 DEF SaveCursor, SaveCursorAs, Tidy, InScope
<1>10. CASE ResetCursor \/ ResetCursorUnanswered
  <2>1. handled' = [handled EXCEPT ![scope] = {}] \/ handled' = handled
    BY <1>10 DEF ResetCursor, ResetCursorUnanswered, BeginTraversal
  <2>2. /\ handled' \in [Scopes -> SUBSET Objects]
        /\ \A s \in Scopes : handled'[s] \subseteq InScope(s)
    BY <2>1 DEF Tidy, Shape
  <2> QED
    BY <1>1, <1>10, <2>2 DEF ResetCursor, ResetCursorUnanswered
<1>11. CASE BucketGone \/ SaveCursorUnanswered \/ Fail \/ CancelledReturns
  <2>1. /\ handled \in [Scopes -> SUBSET Objects]
        /\ \A s \in Scopes : handled[s] \subseteq InScope(s)
    BY DEF Tidy
  <2>2. Idle /\ UNCHANGED <<scope, handled>>
    BY <1>11 DEF BucketGone, SaveCursorUnanswered, Fail, CancelledReturns
  <2> QED
    BY <1>1, <2>1, <2>2
<1>12. CASE LateCommand \/ Cancel \/ Change \/ UNCHANGED vars
  BY <1>3, <1>12 DEF LateCommand, Cancel, Change, vars
<1>13. CASE PassOver
  BY <1>3, <1>13 DEF PassOver
<1>14. CASE RunReturns
  BY <1>14 DEF RunReturns, Tidy, Current, InScope
<1>15. CASE Restart
  BY <1>15 DEF Restart, Tidy, InScope
<1> QED
  BY <1>4, <1>5, <1>6, <1>7, <1>8, <1>9, <1>10, <1>11, <1>12, <1>13, <1>14, <1>15
  DEF Next, ScanStep, CancelledStep

(* Deleting the cursor marks the commands of its traversal, and adds none.   *)
LEMMA CommandsMarked ==
  ASSUME Accounts, BeginTraversal
  PROVE  IsFiniteSet(late') /\ Cardinality(late') <= Cardinality(late)
<1> DEFINE Marked(c) == IF c.scope = scope THEN [c EXCEPT !.old = TRUE] ELSE c
           new == {Marked(c) : c \in late}
           f == [c \in late |-> Marked(c)]
<1>1. late' = new
  BY DEF BeginTraversal
<1>2. f \in Surjection(late, new)
  BY DEF Surjection
<1>3. IsFiniteSet(late)
  BY DEF Accounts
<1> QED
  BY <1>1, <1>2, <1>3, FS_Surjection

(* Each failure leaves Redis at most one command to execute late.            *)
LEMMA AccountsStep ==
  ASSUME Shape, Accounts, [Next]_vars
  PROVE  Accounts'
<1> USE DEF store, redis, process, scan, history
<1>1. /\ repeats \in Nat /\ setbacks \in Nat
      /\ changes \in 0..MaxChanges /\ failures \in 0..MaxFailures
      /\ IsFiniteSet(late) /\ Cardinality(late) \in Nat
      /\ Cardinality(late) + setbacks <= failures
      /\ MaxChanges \in Nat /\ MaxFailures \in Nat
  BY FS_CardinalityType, ScannerAssumption DEF Accounts
<1>2. ASSUME IsFiniteSet(late'), Cardinality(late') \in Nat,
             Cardinality(late') <= Cardinality(late),
             UNCHANGED <<setbacks, changes>>, repeats' \in Nat,
             UNCHANGED failures \/ Failure
      PROVE  Accounts'
  BY <1>1, <1>2 DEF Accounts, Failure
<1>3. ASSUME UNCHANGED <<late, setbacks, changes, repeats>>,
             UNCHANGED failures \/ Failure
      PROVE  Accounts'
  BY <1>1, <1>2, <1>3
<1>4. ASSUME NEW c, late' = late \cup {c}, Failure,
             UNCHANGED <<setbacks, changes, repeats>>
      PROVE  Accounts'
  <2>1. IsFiniteSet(late') /\ Cardinality(late') \in Nat
        /\ Cardinality(late') <= Cardinality(late) + 1
    <3>1. /\ IsFiniteSet(late \cup {c})
          /\ Cardinality(late \cup {c}) = IF c \in late THEN Cardinality(late)
                                          ELSE Cardinality(late) + 1
      BY <1>1, FS_AddElement
    <3> QED
      BY <1>1, <1>4, <3>1
  <2> QED
    BY <1>1, <1>4, <2>1 DEF Accounts, Failure
<1>5. CASE SaveCursorUnanswered
  BY <1>3, <1>4, <1>5 DEF SaveCursorUnanswered
<1>6. CASE ResetCursor \/ ResetCursorUnanswered
  <2>1. CASE BeginTraversal
    <3>1. IsFiniteSet(late') /\ Cardinality(late') \in Nat
          /\ Cardinality(late') <= Cardinality(late)
      BY <2>1, CommandsMarked, FS_CardinalityType
    <3>2. UNCHANGED <<setbacks, changes, repeats>>
          /\ (UNCHANGED failures \/ Failure)
      BY <1>6 DEF ResetCursor, ResetCursorUnanswered
    <3> QED
      BY <1>1, <1>2, <3>1, <3>2
  <2>2. CASE ~BeginTraversal
    BY <1>4, <1>6, <2>2 DEF ResetCursor, ResetCursorUnanswered
  <2> QED
    BY <2>1, <2>2
<1>7. CASE LateCommand
  <2>1. PICK c \in late : late' = late \ {c}
    BY <1>7 DEF LateCommand
  <2>2. /\ setbacks' \in {setbacks, setbacks + 1}
        /\ UNCHANGED <<changes, repeats, failures>>
    BY <1>7 DEF LateCommand
  <2>3. IsFiniteSet(late') /\ Cardinality(late') = Cardinality(late) - 1
    BY <1>1, <2>1, FS_RemoveElement
  <2> QED
    BY <1>1, <2>2, <2>3 DEF Accounts
<1>8. CASE Handle
  <2>1. repeats' \in Nat /\ UNCHANGED <<late, setbacks, changes, failures>>
    BY <1>1, <1>8 DEF Handle
  <2> QED
    BY <1>1, <1>2, <2>1
<1>9. CASE Change
  <2>1. changes' \in 0..MaxChanges
        /\ UNCHANGED <<late, setbacks, repeats, failures>>
    BY <1>1, <1>9 DEF Change
  <2> QED
    BY <1>1, <2>1 DEF Accounts
<1>10. CASE \/ Load \/ FetchPage \/ BucketGone \/ ReceiveItem \/ StreamClosed \/ SaveCursor
            \/ Fail \/ Cancel \/ CancelledStep \/ Restart \/ UNCHANGED vars
  BY <1>3, <1>10 DEF Load, FetchPage, BucketGone, ReceiveItem, StreamClosed, SaveCursor,
     SaveCursorAs, Fail, Cancel, CancelledStep, CancelledReturns, PassOver,
     StreamCutShort, RunReturns, Restart, vars
<1> QED
  BY <1>5, <1>6, <1>7, <1>8, <1>9, <1>10 DEF Next, ScanStep

(* What holds of the first process, before anything was handled.             *)
LEMMA InitTidy == Init => Tidy /\ Accounts
<1> SUFFICES ASSUME Init PROVE Tidy /\ Accounts
  OBVIOUS
<1>1. Cardinality(chunk) < ChunkSize /\ Cardinality(chunk) <= ChunkSize
  BY EmptyChunk DEF Init
<1>2. Tidy
  BY <1>1 DEF Init, Tidy, InScope
<1>3. IsFiniteSet(late) /\ Cardinality(late) = 0
  BY FS_EmptySet DEF Init
<1>4. Accounts
  BY <1>3, ScannerAssumption DEF Init, Accounts
<1> QED
  BY <1>2, <1>4

Sound == Inv /\ Tidy /\ Accounts

(* Whoever moves, all of it is kept. *)
LEMMA SoundStep ==
  ASSUME Sound, [Next]_vars
  PROVE  Sound'
  BY InvStep, TidyStep, AccountsStep DEF Sound, Inv

(* So it holds at every moment. *)
LEMMA Soundness == Spec => []Sound
<1>1. Init => Sound
  BY InitInv, InitTidy DEF Sound, Inv
<1>2. Sound /\ [Next]_vars => Sound'
  BY SoundStep
<1> QED
  BY <1>1, <1>2, PTL DEF Spec

(* What is sound has the types. *)
LEMMA SoundTypes == Sound => TypeOK
<1> SUFFICES ASSUME Sound PROVE TypeOK
  OBVIOUS
<1>1. setbacks \in 0..MaxFailures
  BY FS_CardinalityType, ScannerAssumption DEF Sound, Accounts
<1>2. \A s \in Scopes : due[s] \subseteq objects /\ handled[s] \subseteq InScope(s)
  BY DEF Sound, Inv, Shape, Tidy
<1> QED
  BY <1>1, <1>2 DEF Sound, Inv, Shape, Tidy, Accounts, TypeOK, Pcs

(* scanBucket never evaluates more than ChunkSize objects from one read of    *)
(* the counters, handles no object of an excluded bucket and no directory     *)
(* marker, for any configuration; and late commands set a cursor back no      *)
(* more often than replies were lost.                                        *)
THEOREM TypeCorrect == Spec => []TypeOK
  BY SoundTypes, Soundness, PTL

-----------------------------------------------------------------------------
(* What an interruption costs.                                              *)

Running == pc \notin {"idle", "stopped"}

(* The names of the chunk that are behind the scanner, and the first name    *)
(* that is ahead of it in the current bucket.                               *)
Finished == IF pc \in {"handling", "saving"} THEN chunk \ rest ELSE {}

From ==
  IF pc = "handling" THEN Min(rest)
  ELSE IF pc = "saving" THEN Max(chunk) + 1
  ELSE IF chunk # {} THEN Min(chunk)
  ELSE IF page # {} THEN Min(page) ELSE fetched + 1

AheadOf(o) == todo # {} /\ (o[1] > Current \/ (o[1] = Current /\ o[2] >= From))

(* A handled object may be handled again in a traversal of its scope: once   *)
(* this one, or the next that resumes behind the cursor, comes to it.  The    *)
(* chunk being handled is not counted: its cursor is about to be saved.      *)
MayRepeat(s, o) ==
  /\ o \in handled[s]
  /\ ~UpTo(o, cursor[s]) \/ (s = scope /\ AheadOf(o))
  /\ ~(s = scope /\ o \in {<<Current, n>> : n \in Finished})

Redo == {x \in Scopes \X Objects : MayRepeat(x[1], x[2])}

(* A cancelled ScanOnce may still abandon a chunk: its failure was paid when *)
(* it was cancelled.                                                        *)
Reserve == IF cancelled /\ Running THEN ChunkSize ELSE 0

(* What was repeated and what may be, against what the failures pay for; the  *)
(* credit is what they have paid for besides.                               *)
ReworkInv(credit) ==
  Cardinality(Redo) + repeats + Reserve + credit
    <= failures * ChunkSize + setbacks * Cardinality(Objects)

(* The handled objects of all scopes are finitely many. *)
LEMMA PairsFinite ==
  ASSUME NEW R, R \subseteq Scopes \X Objects
  PROVE  IsFiniteSet(R) /\ Cardinality(R) \in Nat
<1>1. IsFiniteSet(Scopes \X Objects)
  BY FS_Product, ScannerAssumption
<1> QED
  BY <1>1, FS_Subset, FS_CardinalityType

(* Adding a set to another adds no more than its cardinality. *)
LEMMA CountUnion ==
  ASSUME NEW R, R \subseteq Scopes \X Objects, NEW Q, NEW X, IsFiniteSet(X),
         Q \subseteq R \cup X
  PROVE  Cardinality(Q) <= Cardinality(R) + Cardinality(X)
<1>1. IsFiniteSet(R) /\ Cardinality(R) \in Nat /\ Cardinality(X) \in Nat
  BY PairsFinite, FS_CardinalityType
<1>2. /\ IsFiniteSet(R \cup X)
      /\ Cardinality(R \cup X) = Cardinality(R) + Cardinality(X) - Cardinality(R \cap X)
  BY <1>1, FS_Union
<1>3. Cardinality(R \cap X) \in Nat
  BY <1>1, FS_Intersection, FS_CardinalityType
<1>4. Cardinality(Q) <= Cardinality(R \cup X) /\ Cardinality(R \cup X) \in Nat
      /\ Cardinality(Q) \in Nat
  BY <1>2, FS_Subset, FS_CardinalityType
<1> QED
  BY <1>1, <1>2, <1>3, <1>4

(* The numbers that the bound is made of are natural numbers. *)
LEMMA ReworkTypes ==
  ASSUME Accounts
  PROVE  /\ repeats \in Nat /\ setbacks \in Nat /\ failures \in Nat
         /\ ChunkSize \in Nat /\ Cardinality(Objects) \in Nat
         /\ Cardinality(Redo) \in Nat /\ Redo \subseteq Scopes \X Objects
         /\ Reserve \in {0, ChunkSize} /\ Reserve \in Nat
         /\ Redo' \subseteq Scopes \X Objects /\ Cardinality(Redo') \in Nat
         /\ Reserve' \in {0, ChunkSize} /\ Reserve' \in Nat
<1>1. Redo \subseteq Scopes \X Objects /\ Redo' \subseteq Scopes \X Objects
  BY DEF Redo
<1>2. Cardinality(Redo) \in Nat /\ Cardinality(Redo') \in Nat
  BY <1>1, PairsFinite
<1>3. ChunkSize \in Nat /\ Cardinality(Objects) \in Nat
  BY ScannerAssumption, FS_CardinalityType
<1>4. Reserve \in {0, ChunkSize} /\ Reserve' \in {0, ChunkSize}
  BY DEF Reserve
<1> QED
  BY <1>1, <1>2, <1>3, <1>4, ScannerAssumption DEF Accounts

(* One more failure pays for a chunk, and one more setback for a traversal.  *)
LEMMA OneMore ==
  ASSUME NEW a \in Nat, NEW b \in Nat
  PROVE  (a + 1) * b = a * b + b /\ a * b \in Nat
  OBVIOUS

(* Sums within their bound: nothing was added, a chunk for one more failure, *)
(* or a traversal for one more setback.                                     *)
LEMMA Paid ==
  ASSUME Accounts, NEW credit \in Nat, ReworkInv(credit),
         NEW d \in Nat, repeats' \in Nat,
         Cardinality(Redo') + repeats' + Reserve' <= Cardinality(Redo) + repeats + Reserve + d,
         \/ d = 0 /\ UNCHANGED <<failures, setbacks>>
         \/ d = ChunkSize /\ Failure /\ UNCHANGED setbacks
         \/ d = Cardinality(Objects) /\ UNCHANGED failures /\ setbacks' = setbacks + 1
  PROVE  ReworkInv(credit)'
<1> DEFINE f == failures * ChunkSize
           s == setbacks * Cardinality(Objects)
           total == Cardinality(Redo) + repeats + Reserve + credit
           newTotal == Cardinality(Redo') + repeats' + Reserve' + credit
<1>1. f \in Nat /\ s \in Nat
      /\ (failures + 1) * ChunkSize = f + ChunkSize
      /\ (setbacks + 1) * Cardinality(Objects) = s + Cardinality(Objects)
  BY ReworkTypes, OneMore
<1>2. total \in Nat /\ newTotal \in Nat /\ total <= f + s /\ newTotal <= total + d
  BY ReworkTypes DEF ReworkInv
<1>3. SUFFICES newTotal <= failures' * ChunkSize + setbacks' * Cardinality(Objects)
  BY DEF ReworkInv
<1> HIDE DEF total, newTotal, f, s
<1>4. ChunkSize \in Nat /\ Cardinality(Objects) \in Nat
  BY ReworkTypes
<1>5. CASE d = 0 /\ UNCHANGED <<failures, setbacks>>
  BY <1>1, <1>2, <1>5 DEF f, s
<1>6. CASE d = ChunkSize /\ Failure /\ UNCHANGED setbacks
  <2>1. failures' * ChunkSize = f + ChunkSize /\ setbacks' * Cardinality(Objects) = s
    BY <1>1, <1>6 DEF Failure, s
  <2> QED
    BY <1>1, <1>2, <1>4, <1>6, <2>1
<1>7. CASE d = Cardinality(Objects) /\ UNCHANGED failures /\ setbacks' = setbacks + 1
  <2>1. failures' * ChunkSize = f /\ setbacks' * Cardinality(Objects) = s + Cardinality(Objects)
    BY <1>1, <1>7 DEF f
  <2> QED
    BY <1>1, <1>2, <1>4, <1>7, <2>1
<1> QED
  BY <1>5, <1>6, <1>7

(* No object more may be repeated; a failure pays for a cancelled chunk.     *)
LEMMA Fewer ==
  ASSUME Accounts, NEW credit \in Nat, ReworkInv(credit),
         Redo' \subseteq Redo, UNCHANGED <<repeats, setbacks>>,
         \/ Reserve' <= Reserve /\ UNCHANGED failures
         \/ Failure
  PROVE  ReworkInv(credit)'
<1>1. Cardinality(Redo') <= Cardinality(Redo)
  BY ReworkTypes, PairsFinite, FS_Subset
<1>2. CASE Reserve' <= Reserve /\ UNCHANGED failures
  <2>1. Cardinality(Redo') + repeats' + Reserve' <= Cardinality(Redo) + repeats + Reserve + 0
    BY <1>1, <1>2, ReworkTypes
  <2> QED
    BY <1>2, <2>1, ReworkTypes, Paid
<1>3. CASE Failure
  <2>1. Cardinality(Redo') + repeats' + Reserve'
          <= Cardinality(Redo) + repeats + Reserve + ChunkSize
    BY <1>1, ReworkTypes
  <2> QED
    BY <1>3, <2>1, ReworkTypes, Paid
<1> QED
  BY <1>2, <1>3

(* As the scanner moves on in a bucket, objects are left behind.             *)
LEMMA Moves ==
  ASSUME UNCHANGED <<todo, scope, handled, cursor>>,
         todo # {} => From \in Int /\ From' \in Int /\ From <= From',
         Finished \subseteq Finished'
  PROVE  Redo' \subseteq Redo
<1>1. ASSUME NEW s \in Scopes, NEW o \in Objects, MayRepeat(s, o)'
      PROVE  MayRepeat(s, o)
  <2>1. Current' = Current
    BY DEF Current
  <2>2. AheadOf(o)' => AheadOf(o)
    BY <2>1, ObjectIsPair DEF AheadOf
  <2>3. o \in {<<Current, n>> : n \in Finished} => (o \in {<<Current, n>> : n \in Finished})'
    BY <2>1
  <2> QED
    BY <1>1, <2>2, <2>3 DEF MayRepeat
<1> QED
  BY <1>1 DEF Redo

(* So they are when it goes on to the next bucket. *)
LEMMA NextBucket ==
  ASSUME Shape, pc = "listing", chunk = {}, NewBucket(todo \ {Current}, None),
         UNCHANGED <<scope, handled, cursor>>
  PROVE  Redo' \subseteq Redo
<1>1. ASSUME NEW s \in Scopes, NEW o \in Objects, MayRepeat(s, o)'
      PROVE  MayRepeat(s, o)
  <2>1. todo # {} /\ todo' = todo \ {Current}
    BY DEF Shape, NewBucket
  <2>2. ASSUME AheadOf(o)' PROVE AheadOf(o)
    <3>1. todo' # {} /\ todo' \subseteq Buckets /\ Current' \in todo'
      BY <2>1, <2>2, SomeBuckets DEF AheadOf, Shape, Current
    <3>2. Current \in Nat /\ Current' \in Nat /\ Current <= Current' /\ Current' # Current
      BY <2>1, <3>1, SomeBuckets, ScannerAssumption DEF Shape, Current
    <3>3. o[1] >= Current'
      BY <2>2, <3>2, ObjectIsPair DEF AheadOf
    <3>4. o[1] > Current
      BY <3>2, <3>3, ObjectIsPair
    <3> QED
      BY <2>1, <3>4 DEF AheadOf
  <2>3. Finished = {}
    BY DEF Finished
  <2> QED
    BY <1>1, <2>2, <2>3 DEF MayRepeat
<1> QED
  BY <1>1 DEF Redo

(* An interrupted ScanOnce leaves the objects of its chunk to the next one.  *)
LEMMA Interrupted ==
  ASSUME Shape, Tidy, Accounts, NEW credit \in Nat, ReworkInv(credit),
         ~Running', todo' = {},
         UNCHANGED <<scope, handled, cursor, repeats, setbacks>>,
         \/ Failure
         \/ cancelled /\ Running /\ UNCHANGED failures
         \/ Finished = {} /\ UNCHANGED failures
  PROVE  ReworkInv(credit)'
<1> DEFINE X == {scope} \X {<<Current, n>> : n \in Finished}
<1>1. Redo' \subseteq Redo \cup X
  <2>1. ASSUME NEW s \in Scopes, NEW o \in Objects, MayRepeat(s, o)'
        PROVE  MayRepeat(s, o) \/ <<s, o>> \in X
    <3>1. ~AheadOf(o)'
      BY DEF AheadOf
    <3> QED
      BY <2>1, <3>1 DEF MayRepeat
  <2> QED
    BY <2>1 DEF Redo
<1>2. Reserve' = 0
  BY DEF Reserve
<1>3. CASE Finished = {}
  <2>1. Redo' \subseteq Redo
    BY <1>1, <1>3
  <2> QED
    BY <1>2, <2>1, ReworkTypes, Fewer
<1>4. CASE Finished # {}
  <2>1. IsFiniteSet(X) /\ Cardinality(X) \in Nat /\ Cardinality(X) <= ChunkSize
    <3> DEFINE f == [n \in chunk |-> <<scope, <<Current, n>>>>]
               Y == {<<scope, <<Current, n>>>> : n \in chunk}
    <3>1. IsFiniteSet(chunk)
      BY NamesFinite, FS_Subset DEF Shape
    <3>2. f \in Surjection(chunk, Y)
      BY DEF Surjection
    <3>3. IsFiniteSet(Y) /\ Cardinality(Y) <= Cardinality(chunk)
      BY <3>1, <3>2, FS_Surjection
    <3>4. X \subseteq Y
      BY DEF Finished
    <3>5. IsFiniteSet(X) /\ Cardinality(X) <= Cardinality(Y)
      BY <3>3, <3>4, FS_Subset
    <3>6. Cardinality(X) \in Nat /\ Cardinality(Y) \in Nat /\ Cardinality(chunk) \in Nat
          /\ Cardinality(chunk) <= ChunkSize
      BY <3>1, <3>3, <3>5, FS_CardinalityType DEF Tidy
    <3> QED
      BY <3>3, <3>5, <3>6, ReworkTypes
  <2>2. Cardinality(Redo') <= Cardinality(Redo) + Cardinality(X)
    BY <1>1, <2>1, CountUnion, ReworkTypes
  <2> HIDE DEF X
  <2>3. CASE Failure
    <3>1. Cardinality(Redo') + repeats' + Reserve'
            <= Cardinality(Redo) + repeats + Reserve + ChunkSize
      BY <1>2, <2>1, <2>2, ReworkTypes
    <3> QED
      BY <2>3, <3>1, ReworkTypes, Paid
  <2>4. CASE cancelled /\ Running /\ UNCHANGED failures
    <3>1. Reserve = ChunkSize
      BY <2>4 DEF Reserve
    <3>2. Cardinality(Redo') + repeats' + Reserve'
            <= Cardinality(Redo) + repeats + Reserve + 0
      BY <1>2, <2>1, <2>2, <3>1, ReworkTypes
    <3> QED
      BY <2>4, <3>2, ReworkTypes, Paid
  <2> QED
    BY <1>4, <2>3, <2>4
<1> QED
  BY <1>3, <1>4

(* A traversal begins, or goes on, behind the cursor of its scope.           *)
LEMMA LoadRedo ==
  ASSUME Shape, Tidy, Load
  PROVE  Redo' \subseteq Redo
<1> USE DEF store, redis, process, scan, history
<1> DEFINE set == {b \in buckets \ Excluded[scope] : Cursor # None => b >= Cursor[1]}
<1>1. /\ UNCHANGED <<scope, handled, cursor>> /\ pc = "idle"
      /\ todo' = set
      /\ set # {} => /\ fetched' = StartAfter(Min(set), Cursor)
                     /\ page' = {} /\ chunk' = {} /\ pc' = "listing"
      /\ pc' \in {"listing", "resetting"}
  BY DEF Load, NewBucket
<1>2. Cursor = cursor[scope] /\ Cursor \in Objects \cup {None} /\ set \subseteq Buckets
  BY DEF Cursor, Key, Shape
<1>3. ASSUME NEW s \in Scopes, NEW o \in Objects, MayRepeat(s, o)'
      PROVE  MayRepeat(s, o)
  <2>1. Finished = {}
    BY <1>1 DEF Finished
  <2>2. ASSUME AheadOf(o)' PROVE ~UpTo(o, Cursor)
    <3>1. set # {}
      BY <1>1, <2>2 DEF AheadOf
    <3>2. Current' = Min(set) /\ Current' \in set /\ Current' \in Nat
      BY <1>1, <1>2, <3>1, SomeBuckets, ScannerAssumption DEF Current
    <3>3. From' = StartAfter(Current', Cursor) + 1
      BY <1>1, <3>1, <3>2 DEF From
    <3>4. o[1] > Current' \/ (o[1] = Current' /\ o[2] >= From')
      BY <2>2 DEF AheadOf
    <3>5. CASE Cursor # None
      <4>1. Cursor[1] \in Nat /\ Cursor[2] \in Nat /\ o[1] \in Nat /\ o[2] \in Nat
        BY <1>2, <3>5, ObjectIsPair
      <4>2. Current' >= Cursor[1]
        BY <3>2, <3>5
      <4>3. ~Before(o, Cursor) /\ o # Cursor
        BY <3>2, <3>3, <3>4, <3>5, <4>1, <4>2 DEF StartAfter, Before
      <4> QED
        BY <4>3 DEF UpTo
    <3> QED
      BY <3>5 DEF UpTo
  <2> QED
    BY <1>1, <1>2, <1>3, <2>1, <2>2 DEF MayRepeat
<1> QED
  BY <1>3 DEF Redo

(* The names of an answer come behind all that was listed before.           *)
LEMMA FetchRedo ==
  ASSUME Shape, ListOrder, FetchPage
  PROVE  Redo' \subseteq Redo
<1> USE DEF store, redis, process, scan, history
<1> DEFINE behind == {n \in Names : n > fetched /\ <<Current, n>> \in objects}
<1>1. PICK answer \in SUBSET behind :
           /\ page' = page \cup answer
           /\ fetched' = IF answer = {} THEN fetched ELSE Max(answer)
  BY DEF FetchPage
<1>2. /\ UNCHANGED <<todo, scope, handled, cursor, pc, chunk, rest>>
      /\ pc \in {"listing", "handling", "saving"}
  BY DEF FetchPage
<1>3. /\ answer \subseteq Names /\ Names \subseteq Nat /\ \A n \in answer : n > fetched
      /\ page \subseteq Names /\ chunk \subseteq Names /\ rest \subseteq chunk /\ fetched \in Nat
      /\ page' \subseteq Names
  BY <1>1, NamesFinite DEF Shape
<1>4. Finished' = Finished
  BY <1>2 DEF Finished
<1>5. From \in Int /\ From' \in Int /\ From <= From'
  <2>1. CASE pc \in {"handling", "saving"} \/ chunk # {}
    <3>1. From' = From
      BY <1>2, <2>1 DEF From
    <3>2. pc = "handling" => rest # {} /\ rest \subseteq Names
      BY <1>3 DEF Shape
    <3>3. pc = "saving" => chunk # {}
      BY DEF Shape
    <3>4. From \in Int
      <4>1. /\ (rest # {} /\ rest \subseteq Names) => Min(rest) \in Nat
            /\ chunk # {} => Max(chunk) \in Nat /\ Min(chunk) \in Nat
        BY <1>3, SomeNames
      <4>2. CASE pc = "handling"
        BY <3>2, <4>1, <4>2 DEF From
      <4>3. CASE pc = "saving"
        BY <3>3, <4>1, <4>3 DEF From
      <4>4. CASE pc = "listing"
        BY <2>1, <4>1, <4>4 DEF From
      <4> QED
        BY <1>2, <4>2, <4>3, <4>4
    <3> QED
      BY <3>1, <3>4
  <2>2. CASE pc = "listing" /\ chunk = {} /\ page # {}
    <3>1. From = Min(page) /\ From' = Min(page')
      BY <1>1, <1>2, <2>2 DEF From
    <3>2. /\ Min(page) \in page /\ \A n \in page : Min(page) <= n
          /\ Min(page') \in page'
      BY <1>1, <1>3, <2>2, SomeNames
    <3>3. Min(page) <= fetched
      BY <3>2 DEF ListOrder
    <3>4. Min(page) \in Nat /\ Min(page') \in Nat
      BY <1>1, <1>3, <2>2, SomeNames
    <3>5. Min(page) <= Min(page')
      <4>1. CASE Min(page') \in page
        BY <3>2, <4>1
      <4>2. CASE Min(page') \in answer
        BY <1>3, <3>3, <3>4, <4>2
      <4> QED
        BY <1>1, <3>2, <4>1, <4>2
    <3> QED
      BY <3>1, <3>4, <3>5
  <2>3. CASE pc = "listing" /\ chunk = {} /\ page = {}
    <3>1. From = fetched + 1
      BY <2>3 DEF From
    <3>2. From' = IF answer # {} THEN Min(answer) ELSE fetched + 1
      BY <1>1, <1>2, <2>3 DEF From
    <3>3. answer # {} => Min(answer) \in Nat /\ Min(answer) > fetched
      BY <1>3, SomeNames
    <3> QED
      BY <1>3, <3>1, <3>2, <3>3
  <2> QED
    BY <1>2, <2>1, <2>2, <2>3
<1> QED
  BY <1>2, <1>4, <1>5, Moves

(* The chunk grows in the order of the listing. *)
LEMMA ReceiveRedo ==
  ASSUME Shape, ListOrder, ReceiveItem
  PROVE  Redo' \subseteq Redo
<1> USE DEF store, redis, process, scan, history
<1> DEFINE n == Min(page)
<1>1. PICK collected \in {chunk, chunk \cup {n}} :
           /\ chunk' = collected
           /\ \/ pc' = "handling" /\ rest' = collected /\ Cardinality(collected) = ChunkSize
              \/ pc' = pc
  BY DEF ReceiveItem, StartChunk
<1>2. /\ UNCHANGED <<todo, scope, handled, cursor, fetched>> /\ pc = "listing"
      /\ page' = page \ {n} /\ page # {}
  BY DEF ReceiveItem
<1>3. /\ Names \subseteq Nat /\ page \subseteq Names /\ chunk \subseteq Names /\ fetched \in Nat
      /\ n \in page /\ n \in Nat /\ \A m \in page : n <= m
      /\ \A m \in chunk : m < n
      /\ n <= fetched
  BY <1>2, SomeNames, NamesFinite DEF Shape, ListOrder
<1> HIDE DEF n
<1>4. pc' = "handling" => collected # {}
  BY <1>1, <1>2, FS_EmptySet, ScannerAssumption
<1>5. Finished \subseteq Finished'
  BY <1>2 DEF Finished
<1>6. From \in Int /\ (chunk = {} => From = n) /\ (chunk # {} => From = Min(chunk))
  <2>1. /\ chunk = {} => From = n
        /\ chunk # {} => From = Min(chunk)
    BY <1>2 DEF From, n
  <2>2. chunk # {} => Min(chunk) \in Nat
    BY <1>3, SomeNames
  <2> QED
    BY <1>3, <2>1, <2>2
<1>7. CASE collected # {}
  <2>1. From' = Min(collected)
    BY <1>1, <1>2, <1>7 DEF From
  <2>2. collected \subseteq Names
    BY <1>3
  <2>3. Min(collected) \in collected /\ Min(collected) \in Nat
    BY <1>3, <1>7, <2>2, SomeNames
  <2>4. \A m \in collected : From <= m
    <3>1. CASE chunk = {}
      BY <1>3, <1>6, <3>1
    <3>2. CASE chunk # {}
      <4>1. /\ Min(chunk) \in chunk /\ \A m \in chunk : Min(chunk) <= m
            /\ Min(chunk) \in Nat
        BY <1>3, <3>2, SomeNames
      <4>2. Min(chunk) <= n
        BY <1>3, <4>1
      <4> QED
        BY <1>6, <3>2, <4>1, <4>2
    <3> QED
      BY <3>1, <3>2
  <2> QED
    BY <1>2, <1>5, <1>6, <2>1, <2>3, <2>4, Moves
<1>8. CASE collected = {}
  <2>1. From' = IF page' # {} THEN Min(page') ELSE fetched + 1
    BY <1>1, <1>2, <1>4, <1>8 DEF From
  <2>2. page' # {} => Min(page') \in page' /\ Min(page') \in Nat
    BY <1>2, <1>3, SomeNames
  <2>3. From = n
    BY <1>6, <1>8
  <2>4. From' \in Nat /\ n <= From'
    <3>1. CASE page' # {}
      BY <1>2, <1>3, <2>1, <2>2, <3>1
    <3>2. CASE page' = {}
      BY <1>3, <2>1, <3>2
    <3> QED
      BY <3>1, <3>2
  <2> QED
    BY <1>2, <1>3, <1>5, <2>3, <2>4, Moves
<1> QED
  BY <1>7, <1>8

(* The next object of a chunk, and all that is behind it.                    *)
LEMMA NextObject ==
  ASSUME Shape, pc = "handling", UNCHANGED <<todo, chunk>>,
         rest' = rest \ {Min(rest)},
         pc' = IF rest' = {} THEN "saving" ELSE "handling"
  PROVE  /\ Min(rest) \in rest /\ From = Min(rest) /\ From \in Nat
         /\ From' \in Nat /\ From < From'
         /\ Finished \subseteq Finished'
         /\ Min(rest) \notin Finished /\ Min(rest) \in Finished'
<1>1. /\ rest # {} /\ rest \subseteq Names /\ rest' \subseteq Names /\ chunk \subseteq Names
      /\ rest \subseteq chunk /\ chunk # {} /\ Names \subseteq Nat
  BY NamesFinite DEF Shape
<1>2. Min(rest) \in rest /\ (\A m \in rest : Min(rest) <= m) /\ Min(rest) \in Nat
  BY <1>1, SomeNames
<1>3. From = Min(rest)
  BY DEF From
<1>4. Finished = chunk \ rest /\ Finished' = chunk \ rest'
  BY DEF Finished
<1>5. From' \in Nat /\ From < From'
  <2>1. CASE rest' = {}
    <3>1. From' = Max(chunk) + 1
      BY <2>1 DEF From
    <3>2. Max(chunk) \in Nat /\ \A m \in chunk : m <= Max(chunk)
      BY <1>1, SomeNames
    <3> QED
      BY <1>1, <1>2, <1>3, <3>1, <3>2
  <2>2. CASE rest' # {}
    <3>1. From' = Min(rest')
      BY <2>2 DEF From
    <3>2. Min(rest') \in rest' /\ Min(rest') \in Nat
      BY <1>1, <2>2, SomeNames
    <3>3. Min(rest) <= Min(rest') /\ Min(rest) # Min(rest')
      BY <1>2, <3>2
    <3> QED
      BY <1>2, <1>3, <3>1, <3>2, <3>3
  <2> QED
    BY <2>1, <2>2
<1> QED
  BY <1>1, <1>2, <1>3, <1>4, <1>5

(* An object that is handled again was one of those that may be, and is no    *)
(* more.                                                                    *)
LEMMA HandleRework ==
  ASSUME Shape, Tidy, Accounts, NEW credit \in Nat, ReworkInv(credit), Handle
  PROVE  ReworkInv(credit)'
<1> USE DEF store, redis, process, scan, history
<1> DEFINE o == <<Current, Min(rest)>>
<1>1. /\ pc = "handling" /\ UNCHANGED <<scope, cancelled, cursor, todo, chunk, failures, setbacks>>
      /\ handled' = [handled EXCEPT ![scope] = @ \cup {o}]
      /\ repeats' = IF o \in handled[scope] THEN repeats + 1 ELSE repeats
      /\ rest' = rest \ {Min(rest)}
      /\ pc' = IF rest' = {} THEN "saving" ELSE "handling"
  BY DEF Handle
<1>2. /\ Min(rest) \in rest /\ From = Min(rest) /\ From \in Nat
      /\ From' \in Nat /\ From < From'
      /\ Finished \subseteq Finished'
      /\ Min(rest) \notin Finished /\ Min(rest) \in Finished'
  BY <1>1, NextObject
<1>3. o \in Objects /\ o[1] = Current /\ o[2] = Min(rest) /\ scope \in Scopes
      /\ todo # {} /\ handled \in [Scopes -> SUBSET Objects]
  BY <1>1, <1>2 DEF Shape, Tidy
<1>4. Current' = Current
  BY <1>1 DEF Current
<1>5. Redo' \subseteq Redo \ {<<scope, o>>}
  <2>1. ASSUME NEW s \in Scopes, NEW p \in Objects, MayRepeat(s, p)'
        PROVE  MayRepeat(s, p) /\ <<s, p>> # <<scope, o>>
    <3>1. <<s, p>> # <<scope, o>>
      <4>1. ASSUME s = scope, p = o PROVE FALSE
        <5>1. (p \in {<<Current, n>> : n \in Finished})'
          BY <1>2, <1>4, <4>1
        <5> QED
          BY <1>1, <2>1, <4>1, <5>1 DEF MayRepeat
      <4> QED
        BY <4>1
    <3>2. p \in handled[s]
      BY <1>1, <1>3, <2>1, <3>1 DEF MayRepeat
    <3>3. AheadOf(p)' => AheadOf(p)
      BY <1>1, <1>2, <1>4, ObjectIsPair DEF AheadOf
    <3>4. p \in {<<Current, n>> : n \in Finished} => (p \in {<<Current, n>> : n \in Finished})'
      BY <1>2, <1>4
    <3> QED
      BY <1>1, <2>1, <3>1, <3>2, <3>3, <3>4 DEF MayRepeat
  <2> QED
    BY <2>1 DEF Redo
<1>6. Reserve' = Reserve
  BY <1>1 DEF Reserve, Running
<1> HIDE DEF o
<1>7. CASE o \notin handled[scope]
  BY <1>1, <1>5, <1>6, <1>7, ReworkTypes, Fewer
<1>8. CASE o \in handled[scope]
  <2>1. AheadOf(o)
    BY <1>2, <1>3 DEF AheadOf
  <2>2. o \notin {<<Current, n>> : n \in Finished}
    BY <1>2, <1>3
  <2>3. <<scope, o>> \in Redo
    BY <1>3, <1>8, <2>1, <2>2 DEF Redo, MayRepeat
  <2>4. IsFiniteSet(Redo) /\ Cardinality(Redo) \in Nat
    BY ReworkTypes, PairsFinite
  <2>5. /\ IsFiniteSet(Redo \ {<<scope, o>>})
        /\ Cardinality(Redo \ {<<scope, o>>}) = Cardinality(Redo) - 1
    BY <2>3, <2>4, FS_RemoveElement
  <2>6. Cardinality(Redo') <= Cardinality(Redo) - 1
    BY <1>5, <2>5, FS_Subset
  <2>7. repeats' = repeats + 1
    BY <1>1, <1>8
  <2>8. Cardinality(Redo') + repeats' + Reserve' <= Cardinality(Redo) + repeats + Reserve + 0
    BY <1>6, <2>6, <2>7, ReworkTypes
  <2>9. repeats' \in Nat
    BY <2>7, ReworkTypes
  <2> QED
    BY <1>1, <2>8, <2>9, Paid
<1> QED
  BY <1>7, <1>8

(* Behind a saved cursor there is nothing left to repeat but what is ahead of *)
(* the scanner.                                                             *)
LEMMA SavedRedo ==
  ASSUME Shape, ListOrder, pc = "saving", UNCHANGED <<scope, handled>>,
         cursor' = [cursor EXCEPT ![Key(scope)] = Last],
         \/ todo' = {} /\ pc' = "idle"
         \/ UNCHANGED <<todo, fetched, page>> /\ chunk' = {} /\ pc' = "listing"
  PROVE  Redo' \subseteq Redo
<1>1. /\ chunk # {} /\ rest = {} /\ todo # {} /\ chunk \subseteq Names /\ page \subseteq Names
      /\ Names \subseteq Nat /\ fetched \in Nat
  BY NamesFinite DEF Shape
<1>2. /\ Max(chunk) \in chunk /\ (\A m \in chunk : m <= Max(chunk)) /\ Max(chunk) \in Nat
  BY <1>1, SomeNames
<1>3. From = Max(chunk) + 1 /\ Finished = chunk
  BY <1>1 DEF From, Finished
<1>4. Current \in Nat
  BY <1>1, SomeBuckets, ScannerAssumption DEF Shape, Current
<1>5. ASSUME NEW o \in Objects, AheadOf(o)'
      PROVE  AheadOf(o)
  <2>1. UNCHANGED <<todo, fetched, page>> /\ chunk' = {} /\ pc' = "listing" /\ Current' = Current
    BY <1>5 DEF AheadOf, Current
  <2>2. From' = IF page # {} THEN Min(page) ELSE fetched + 1
    BY <2>1 DEF From
  <2>3. page # {} => Min(page) \in page /\ Min(page) \in Nat
    BY <1>1, SomeNames
  <2>4. From' \in Nat /\ From <= From'
    BY <1>1, <1>2, <1>3, <2>2, <2>3 DEF ListOrder
  <2> QED
    BY <1>2, <1>3, <1>5, <2>1, <2>4, ObjectIsPair DEF AheadOf
<1>6. ASSUME NEW o \in Objects, ~UpTo(o, Last)
      PROVE  AheadOf(o)
  <2>1. Last \in Objects /\ Last[1] = Current /\ Last[2] = Max(chunk) /\ Last # None
    BY <1>2, ScannerAssumption DEF Last, Shape
  <2>2. o[1] \in Nat /\ o[2] \in Nat /\ o = <<o[1], o[2]>>
    BY ObjectIsPair
  <2> QED
    BY <1>1, <1>2, <1>3, <1>4, <1>6, <2>1, <2>2 DEF UpTo, Before, AheadOf, Last
<1>7. ASSUME NEW s \in Scopes, NEW o \in Objects, MayRepeat(s, o)'
      PROVE  MayRepeat(s, o)
  <2>1. CASE s # scope
    <3>1. cursor'[s] = cursor[s]
      BY <2>1 DEF Shape, Key
    <3> QED
      BY <1>7, <2>1, <3>1 DEF MayRepeat
  <2>2. CASE s = scope
    <3>1. cursor'[s] = Last
      BY <2>2 DEF Shape, Key
    <3>2. AheadOf(o)
      BY <1>5, <1>6, <1>7, <3>1 DEF MayRepeat
    <3>3. o \notin {<<Current, n>> : n \in Finished}
      <4>1. ASSUME NEW n \in Finished, o = <<Current, n>> PROVE FALSE
        <5>1. n \in Nat /\ n <= Max(chunk) /\ o[1] = Current /\ o[2] = n
          BY <1>1, <1>2, <1>3, <4>1
        <5> QED
          BY <1>2, <1>3, <1>4, <3>2, <5>1 DEF AheadOf
      <4> QED
        BY <4>1
    <3> QED
      BY <1>7, <2>2, <3>2, <3>3 DEF MayRepeat
  <2> QED
    BY <2>1, <2>2
<1> QED
  BY <1>7 DEF Redo

(* A traversal that begins has nothing to repeat. *)
LEMMA BeginRedo ==
  ASSUME Shape, Tidy, pc = "resetting", BeginTraversal, Idle, scope' = scope
  PROVE  Redo' \subseteq Redo
<1>1. ASSUME NEW s \in Scopes, NEW o \in Objects, MayRepeat(s, o)'
      PROVE  MayRepeat(s, o)
  <2>1. s # scope
    BY <1>1 DEF MayRepeat, BeginTraversal, Shape, Tidy
  <2>2. handled'[s] = handled[s] /\ cursor'[s] = cursor[s]
    BY <2>1 DEF BeginTraversal, Shape, Tidy, Key
  <2> QED
    BY <1>1, <2>1, <2>2 DEF MayRepeat
<1> QED
  BY <1>1 DEF Redo

(* A late command that sets a cursor back may cost all objects of its scope;  *)
(* any other takes nothing back.                                            *)
LEMMA LateRework ==
  ASSUME Shape, Tidy, Accounts, NEW credit \in Nat, ReworkInv(credit), LateCommand
  PROVE  ReworkInv(credit)'
<1> USE DEF store, redis, process, scan, history
<1>1. PICK c \in late :
        /\ cursor' = [cursor EXCEPT ![Key(c.scope)] = c.cursor]
        /\ setbacks' = IF cursor[Key(c.scope)] # None /\ ~UpTo(cursor[Key(c.scope)], c.cursor)
                       THEN setbacks + 1 ELSE setbacks
  BY DEF LateCommand
<1>2. c.scope \in Scopes /\ c.cursor \in Objects \cup {None}
  BY DEF Shape
<1>3. /\ UNCHANGED <<scope, cancelled, pc, todo, fetched, page, chunk, rest, handled,
                     repeats, failures>>
      /\ Reserve' = Reserve
  BY DEF LateCommand, Reserve, Running
<1> DEFINE before == cursor[c.scope]
<1>4. before \in Objects \cup {None}
  BY <1>2 DEF Shape
<1>5. /\ cursor'[c.scope] = c.cursor
      /\ \A s \in Scopes : s # c.scope => cursor'[s] = cursor[s]
  BY <1>1, <1>2 DEF Shape, Key
<1>6. ASSUME NEW s \in Scopes, NEW o \in Objects, MayRepeat(s, o)'
      PROVE  \/ MayRepeat(s, o)
             \/ s = c.scope /\ ~UpTo(o, c.cursor)
  <2>1. /\ AheadOf(o)' <=> AheadOf(o)
        /\ (o \in {<<Current, n>> : n \in Finished})' <=> o \in {<<Current, n>> : n \in Finished}
    BY <1>3 DEF AheadOf, From, Finished, Current
  <2> QED
    BY <1>3, <1>5, <1>6, <2>1 DEF MayRepeat
<1>7. ASSUME NEW s \in Scopes, NEW o \in Objects, MayRepeat(s, o)', ~UpTo(o, before)
      PROVE  s = c.scope => MayRepeat(s, o)
  <2>1. (o \in {<<Current, n>> : n \in Finished})' <=> o \in {<<Current, n>> : n \in Finished}
    BY <1>3 DEF Finished, Current
  <2> QED
    BY <1>3, <1>7, <2>1 DEF MayRepeat
<1> HIDE DEF before
<1>8. CASE before = None \/ UpTo(before, c.cursor)
  <2>1. ASSUME NEW o \in Objects, ~UpTo(o, c.cursor) PROVE ~UpTo(o, before)
    <3>1. CASE before = None
      BY <3>1 DEF UpTo
    <3>2. CASE before # None
      BY <1>2, <1>4, <1>8, <2>1, <3>2, UpToTransitive
    <3> QED
      BY <3>1, <3>2
  <2>2. Redo' \subseteq Redo
    BY <1>6, <1>7, <2>1 DEF Redo
  <2>3. setbacks' = setbacks
    BY <1>1, <1>8 DEF Key, before
  <2> QED
    BY <1>3, <2>2, <2>3, ReworkTypes, Fewer
<1>9. CASE ~(before = None \/ UpTo(before, c.cursor))
  <2> DEFINE X == {c.scope} \X Objects
  <2>1. /\ IsFiniteSet(X)
        /\ Cardinality(X) = Cardinality(Objects)
    <3>1. IsFiniteSet({c.scope}) /\ Cardinality({c.scope}) = 1
      BY FS_Singleton
    <3>2. IsFiniteSet(X) /\ Cardinality(X) = 1 * Cardinality(Objects)
      BY <3>1, FS_Product, ScannerAssumption
    <3> QED
      BY <3>2, ReworkTypes
  <2>2. Redo' \subseteq Redo \cup X
    BY <1>6 DEF Redo
  <2> HIDE DEF X
  <2>3. Cardinality(Redo') <= Cardinality(Redo) + Cardinality(Objects)
    BY <2>1, <2>2, CountUnion, ReworkTypes
  <2>4. setbacks' = setbacks + 1
    BY <1>1, <1>9 DEF Key, before
  <2>5. Cardinality(Redo') + repeats' + Reserve'
          <= Cardinality(Redo) + repeats + Reserve + Cardinality(Objects)
    BY <1>3, <2>3, ReworkTypes
  <2> QED
    BY <1>3, <2>4, <2>5, ReworkTypes, Paid
<1> QED
  BY <1>8, <1>9

(* A scanner that stays where it is has no more to repeat.                   *)
LEMMA StaysRedo ==
  ASSUME Tidy, UNCHANGED <<cursor, todo, fetched, page, chunk, rest, handled>>,
         pc' = pc \/ (pc = "idle" /\ pc' = "stopped") \/ (pc = "stopped" /\ pc' = "idle"),
         scope' = scope \/ pc = "stopped"
  PROVE  Redo' \subseteq Redo
<1>1. ASSUME NEW s \in Scopes, NEW o \in Objects, MayRepeat(s, o)'
      PROVE  MayRepeat(s, o)
  <2>1. CASE pc \in {"idle", "stopped"}
    <3>1. todo = {} /\ todo' = {} /\ Finished = {}
      BY <2>1 DEF Tidy, Finished
    <3> QED
      BY <1>1, <3>1 DEF MayRepeat, AheadOf
  <2>2. CASE pc \notin {"idle", "stopped"}
    <3>1. UNCHANGED <<scope, pc>>
      BY <2>2
    <3>2. AheadOf(o)' = AheadOf(o) /\ Finished' = Finished /\ Current' = Current
      BY <3>1 DEF AheadOf, From, Finished, Current
    <3> QED
      BY <1>1, <3>1, <3>2 DEF MayRepeat
  <2> QED
    BY <2>1, <2>2
<1> QED
  BY <1>1 DEF Redo

(* Every step keeps the account balanced. *)
LEMMA ReworkStep ==
  ASSUME Sound, NEW credit \in Nat, ReworkInv(credit), [Next]_vars
  PROVE  ReworkInv(credit)'
<1> USE DEF store, redis, process, scan, history
<1> SUFFICES ASSUME Shape, ListOrder, Tidy, Accounts PROVE ReworkInv(credit)'
  BY DEF Sound, Inv
<1>1. ASSUME Redo' \subseteq Redo, UNCHANGED <<repeats, setbacks>>,
             \/ UNCHANGED <<cancelled, failures>> /\ (Running' => Running \/ ~cancelled)
             \/ UNCHANGED failures /\ ~cancelled'
             \/ Failure
      PROVE  ReworkInv(credit)'
  <2>1. CASE \/ UNCHANGED <<cancelled, failures>> /\ (Running' => Running \/ ~cancelled)
             \/ UNCHANGED failures /\ ~cancelled'
    <3>1. Reserve' <= Reserve
      BY <2>1, ReworkTypes DEF Reserve
    <3> QED
      BY <1>1, <2>1, <3>1, Fewer
  <2>2. CASE Failure
    BY <1>1, <2>2, Fewer
  <2> QED
    BY <1>1, <2>1, <2>2
<1>2. CASE Load
  <2>1. Redo' \subseteq Redo
    BY <1>2, LoadRedo
  <2> QED
    BY <1>1, <1>2, <2>1 DEF Load
<1>3. CASE FetchPage
  <2>1. Redo' \subseteq Redo
    BY <1>3, FetchRedo
  <2> QED
    BY <1>1, <1>3, <2>1 DEF FetchPage, Running
<1>4. CASE BucketGone
  BY <1>4, Interrupted DEF BucketGone, Finished, Idle, Running
<1>5. CASE ReceiveItem
  <2>1. Redo' \subseteq Redo
    BY <1>5, ReceiveRedo
  <2> QED
    BY <1>1, <1>5, <2>1 DEF ReceiveItem, Running
<1>6. CASE StreamClosed \/ StreamCutShort
  <2>1. /\ pc = "listing"
        /\ UNCHANGED <<scope, cancelled, cursor, handled, repeats, setbacks, failures>>
    BY <1>6 DEF StreamClosed, StreamCutShort
  <2>2. CASE chunk # {} /\ StartChunk(chunk) /\ UNCHANGED <<todo, fetched, page, more>>
    <3>1. From = Min(chunk) /\ From' = Min(chunk) /\ Finished = {}
      BY <2>1, <2>2 DEF StartChunk, From, Finished
    <3>2. From \in Nat
      BY <2>2, <3>1, SomeNames DEF Shape
    <3>3. Redo' \subseteq Redo
      BY <2>1, <2>2, <3>1, <3>2, Moves
    <3> QED
      BY <1>1, <2>1, <3>3 DEF Running
  <2>3. CASE chunk = {} /\ NewBucket(todo \ {Current}, None)
    <3>1. Redo' \subseteq Redo
      BY <2>1, <2>3, NextBucket
    <3> QED
      BY <1>1, <2>1, <3>1 DEF Running
  <2> QED
    BY <1>6, <2>2, <2>3 DEF StreamClosed, StreamCutShort
<1>7. CASE Handle
  BY <1>7, HandleRework
<1>8. CASE SaveCursor
  <2>1. Redo' \subseteq Redo
    BY <1>8, SavedRedo DEF SaveCursor, SaveCursorAs
  <2> QED
    BY <1>1, <1>8, <2>1 DEF SaveCursor, SaveCursorAs, Running
<1>9. CASE SaveCursorUnanswered
  <2>1. CASE cursor' = [cursor EXCEPT ![Key(scope)] = Last]
    <3>1. Redo' \subseteq Redo
      BY <1>9, <2>1, SavedRedo DEF SaveCursorUnanswered, Idle
    <3> QED
      BY <1>1, <1>9, <3>1 DEF SaveCursorUnanswered
  <2>2. CASE UNCHANGED cursor
    BY <1>9, <2>2, Interrupted DEF SaveCursorUnanswered, Idle, Running
  <2> QED
    BY <1>9, <2>1, <2>2 DEF SaveCursorUnanswered
<1>10. CASE ResetCursor \/ ResetCursorUnanswered
  <2>1. pc = "resetting" /\ Idle /\ ~cancelled
        /\ UNCHANGED <<scope, cancelled, repeats, setbacks>>
        /\ (UNCHANGED failures \/ Failure)
    BY <1>10 DEF ResetCursor, ResetCursorUnanswered
  <2>2. CASE BeginTraversal
    <3>1. Redo' \subseteq Redo
      BY <2>1, <2>2, BeginRedo
    <3> QED
      BY <1>1, <2>1, <3>1
  <2>3. CASE UNCHANGED <<cursor, handled>>
    BY <2>1, <2>3, Interrupted DEF Finished, Idle, Running
  <2> QED
    BY <1>10, <2>2, <2>3 DEF ResetCursor, ResetCursorUnanswered
<1>11. CASE LateCommand
  BY <1>11, LateRework
<1>12. CASE Fail
  BY <1>12, Interrupted DEF Fail, Idle, Running
<1>13. CASE CancelledReturns
  BY <1>13, Interrupted DEF CancelledReturns, Running, Idle
<1>14. CASE PassOver
  <2>1. /\ pc = "handling" /\ rest' = rest \ {Min(rest)}
        /\ pc' = IF rest' = {} THEN "saving" ELSE "handling"
        /\ UNCHANGED <<scope, cancelled, cursor, handled, todo, chunk, repeats, setbacks, failures>>
    BY <1>14 DEF PassOver
  <2>2. From \in Nat /\ From' \in Nat /\ From < From' /\ Finished \subseteq Finished'
    BY <2>1, NextObject
  <2>3. Redo' \subseteq Redo
    BY <2>1, <2>2, Moves
  <2> QED
    BY <1>1, <2>1, <2>3 DEF Running
<1>15. CASE Cancel \/ Change \/ RunReturns \/ Restart \/ UNCHANGED vars
  <2>1. /\ UNCHANGED <<cursor, todo, fetched, page, chunk, rest, handled, repeats, setbacks>>
        /\ pc' = pc \/ (pc = "idle" /\ pc' = "stopped") \/ (pc = "stopped" /\ pc' = "idle")
        /\ scope' = scope \/ pc = "stopped"
    BY <1>15 DEF Cancel, Change, RunReturns, Restart, vars
  <2>3. Redo' \subseteq Redo
    BY <2>1, StaysRedo
  <2> QED
    BY <1>1, <1>15, <2>1, <2>3 DEF Cancel, Change, RunReturns, Restart, Running, vars
<1> QED
  BY <1>2, <1>3, <1>4, <1>5, <1>6, <1>7, <1>8, <1>9, <1>10, <1>11, <1>12, <1>13, <1>14, <1>15
  DEF Next, ScanStep, CancelledStep

(* Nothing has been handled before the first process. *)
LEMMA InitRework == Init => ReworkInv(0)
<1> SUFFICES ASSUME Init PROVE ReworkInv(0)
  OBVIOUS
<1>1. Accounts
  BY InitTidy
<1>2. Redo = {}
  BY DEF Init, Redo, MayRepeat
<1>3. Cardinality(Redo) = 0 /\ Reserve = 0 /\ repeats = 0 /\ failures = 0 /\ setbacks = 0
  BY <1>2, FS_EmptySet DEF Init, Reserve, Running
<1>4. 0 * ChunkSize = 0 /\ 0 * Cardinality(Objects) = 0
  BY <1>1, ReworkTypes
<1> QED
  BY <1>3, <1>4 DEF ReworkInv

(* A balanced account bounds what was repeated. *)
LEMMA ReworkPaid ==
  ASSUME Accounts, NEW credit \in Nat, ReworkInv(credit)
  PROVE  ReworkBounded
<1> DEFINE bound == failures * ChunkSize + setbacks * Cardinality(Objects)
<1>1. Cardinality(Redo) \in Nat /\ repeats \in Nat /\ Reserve \in Nat
  BY ReworkTypes
<1>2. bound \in Nat
  BY ReworkTypes, OneMore
<1>3. Cardinality(Redo) + repeats + Reserve + credit <= bound
  BY DEF ReworkInv
<1> HIDE DEF bound
<1>4. repeats <= bound
  BY <1>1, <1>2, <1>3
<1> QED
  BY <1>4 DEF ReworkBounded, bound

(* An error, crash or cancellation costs at most the objects of one chunk,    *)
(* handled and charged to a budget again; a late command of Redis that sets a *)
(* cursor back costs at most a traversal (processChunk, SaveCursor).          *)
THEOREM ReworkIsBounded == Spec => []ReworkBounded
<1>1. Sound /\ ReworkInv(0) /\ [Next]_vars => ReworkInv(0)'
  BY ReworkStep
<1>2. Sound /\ ReworkInv(0) => ReworkBounded
  BY ReworkPaid DEF Sound
<1> QED
  BY <1>1, <1>2, InitRework, Soundness, PTL DEF Spec

-----------------------------------------------------------------------------
(* The service around the scanner. *)

(* A service that has waited for everybody leaves no scanner behind, and     *)
(* only one that has returned closes its client.                            *)
StopOrder ==
  /\ service \in {"running", "stopping", "returned", "exited"}
  /\ service \in {"returned", "exited"} /\ ~overdue => pc = "stopped"
  /\ service = "exited" => pc = "stopped"
  /\ redisClosed => service \in {"returned", "exited"}

(* Scanner.Run has no step behind its return, and only StartProcess calls it *)
(* again.                                                                   *)
LEMMA StoppedStays ==
  ASSUME pc = "stopped", ScannerStep \/ Outside \/ Signal
  PROVE  pc' = "stopped"
<1>1. CASE ScannerStep
  BY <1>1 DEF ScannerStep, ScanStep, CancelledStep, Load, FetchPage, BucketGone,
       ReceiveItem, StreamClosed, Handle, SaveCursor, ResetCursor,
       SaveCursorUnanswered, ResetCursorUnanswered, Fail, CancelledReturns,
       PassOver, StreamCutShort, RunReturns
<1>2. CASE Outside
  BY <1>2 DEF Outside, LateCommand, Change
<1>3. CASE Signal
  BY <1>3 DEF Signal, Cancel
<1> QED
  BY <1>1, <1>2, <1>3

(* runServiceLoops and Run keep the order. *)
LEMMA StopOrderStep ==
  ASSUME StopOrder, [TiererNext]_<<vars, serviceVars>>
  PROVE  StopOrder'
<1> USE DEF StopOrder, serviceVars
<1>1. CASE Signal
  <2>1. pc' = pc
    BY <1>1 DEF Signal, Cancel
  <2> QED
    BY <1>1, <2>1 DEF Signal
<1>2. CASE ServerFails
  BY <1>2 DEF ServerFails
<1>3. CASE BeginStop
  BY <1>3 DEF BeginStop, ToldToStop
<1>4. CASE ShutdownReturns
  BY <1>4 DEF ShutdownReturns, vars
<1>5. CASE AllDone
  BY <1>5 DEF AllDone, Return, vars
<1>6. CASE Deadline
  BY <1>6 DEF Deadline, Return, vars
<1>7. CASE CloseRedis
  BY <1>7 DEF CloseRedis, vars
<1>8. CASE Exit \/ Crash
  BY <1>8 DEF Exit, Crash, ProcessEnds
<1>9. CASE StartProcess
  BY <1>9 DEF StartProcess
<1>10. CASE ScannerStep \/ Outside
  <2>1. UNCHANGED serviceVars
    BY <1>10 DEF ScannerStep, Outside
  <2>2. pc = "stopped" => pc' = "stopped"
    BY <1>10, StoppedStays
  <2> QED
    BY <2>1, <2>2
<1>11. CASE UNCHANGED <<vars, serviceVars>>
  BY <1>11 DEF vars
<1> QED
  BY <1>1, <1>2, <1>3, <1>4, <1>5, <1>6, <1>7, <1>8, <1>9, <1>10, <1>11
     DEF TiererNext

(* Run closes the Redis client under a scanner that is still in a call only  *)
(* when the shutdown deadline has passed.                                   *)
THEOREM RedisClosedLast == TiererSpec => []RedisOutlivesScanner
<1>1. TiererInit => StopOrder
  BY DEF TiererInit, StopOrder
<1>2. StopOrder /\ [TiererNext]_<<vars, serviceVars>> => StopOrder'
  BY StopOrderStep
<1>3. StopOrder => RedisOutlivesScanner
  BY DEF StopOrder, RedisOutlivesScanner
<1> QED
  BY <1>1, <1>2, <1>3, PTL DEF TiererSpec

-----------------------------------------------------------------------------
(* runServiceLoops runs the scanner through its own steps; what else happens *)
(* to a scanner is that its context is cancelled and that its process ends.  *)
LEMMA ServiceStep ==
  ASSUME [TiererNext]_<<vars, serviceVars>>
  PROVE  \/ [Next]_vars
         \/ ServerFails \/ BeginStop
         \/ ProcessEnds
<1>1. CASE Signal \/ StartProcess \/ ScannerStep \/ Outside
  BY <1>1 DEF Signal, StartProcess, ScannerStep, Outside, Next
<1>2. CASE ShutdownReturns \/ AllDone \/ Deadline \/ CloseRedis
  BY <1>2 DEF ShutdownReturns, AllDone, Deadline, Return, CloseRedis
<1>3. CASE Exit \/ Crash
  BY <1>3 DEF Exit, Crash
<1> QED
  BY <1>1, <1>2, <1>3 DEF TiererNext

(* A cancelled scanner and one whose process is gone keep the invariant of   *)
(* the traversal: only the cursors count for the next one.                  *)
LEMMA ServiceInvStep ==
  ASSUME Inv, [TiererNext]_<<vars, serviceVars>>
  PROVE  Inv'
<1> USE DEF store, redis, process, scan, history
<1>1. CASE [Next]_vars
  BY <1>1, InvStep
<1>2. CASE ServerFails \/ BeginStop
  <2>1. /\ UNCHANGED <<buckets, objects, cursor, late, scope, pc, todo, fetched, page,
                       more, chunk, rest, due, stray>>
        /\ cancelled' = cancelled \/ cancelled' = TRUE
    BY <1>2 DEF ServerFails, BeginStop
  <2>2. Current' = Current /\ Unhandled' = Unhandled
    BY <2>1 DEF Current, Unhandled
  <2>3. Shape' /\ ListOrder' /\ Ahead'
    BY <2>1, <2>2 DEF Inv, Shape, ListOrder, Ahead, InScope
  <2>4. LateCovers' /\ CursorCovers'
    BY <2>1 DEF Inv, LateCovers, CursorCovers, Key
  <2> QED
    BY <2>3, <2>4 DEF Inv
<1>3. CASE ProcessEnds
  <2>1. /\ UNCHANGED <<buckets, objects, cursor, late, scope, due, stray>>
        /\ cancelled' = TRUE /\ pc' = "stopped"
        /\ todo' = {} /\ fetched' = 0 /\ page' = {} /\ chunk' = {} /\ rest' = {}
    BY <1>3 DEF ProcessEnds
  <2>2. Shape'
    BY <2>1 DEF Inv, Shape, Pcs, InScope
  <2>3. ListOrder' /\ Ahead'
    BY <2>1 DEF ListOrder, Ahead
  <2>4. LateCovers' /\ CursorCovers'
    BY <2>1 DEF Inv, LateCovers, CursorCovers, Key
  <2> QED
    BY <2>2, <2>3, <2>4 DEF Inv
<1> QED
  BY <1>1, <1>2, <1>3, ServiceStep

(* Through every start, stop, missed deadline and crash of the process.      *)
LEMMA ServiceInvariance == TiererSpec => []Inv
<1>1. TiererInit => Inv
  BY InitInv DEF TiererInit, Inv
<1>2. Inv /\ [TiererNext]_<<vars, serviceVars>> => Inv'
  BY ServiceInvStep
<1> QED
  BY <1>1, <1>2, PTL DEF TiererSpec

(* A process that ends leaves a tidy scanner. *)
LEMMA ServiceTidyStep ==
  ASSUME Shape, Tidy, [TiererNext]_<<vars, serviceVars>>
  PROVE  Tidy'
<1> USE DEF store, redis, process, scan, history
<1>1. CASE [Next]_vars
  BY <1>1, TidyStep
<1>2. CASE ServerFails \/ BeginStop
  <2>1. UNCHANGED <<scope, pc, todo, fetched, page, more, chunk, handled>>
    BY <1>2 DEF ServerFails, BeginStop
  <2> QED
    BY <2>1 DEF Tidy, Current, InScope
<1>3. CASE ProcessEnds
  <2>1. /\ UNCHANGED <<scope, handled>> /\ pc' = "stopped"
        /\ todo' = {} /\ fetched' = 0 /\ page' = {} /\ more' = FALSE /\ chunk' = {}
    BY <1>3 DEF ProcessEnds
  <2>2. Cardinality(chunk') < ChunkSize /\ Cardinality(chunk') <= ChunkSize
    BY <2>1, EmptyChunk
  <2> QED
    BY <2>1, <2>2 DEF Tidy, InScope
<1> QED
  BY <1>1, <1>2, <1>3, ServiceStep

(* A server that fails and a process that crashes are failures as well.      *)
LEMMA ServiceAccountsStep ==
  ASSUME Shape, Accounts, [TiererNext]_<<vars, serviceVars>>
  PROVE  Accounts'
<1> USE DEF store, redis, process, scan, history
<1>1. CASE [Next]_vars
  BY <1>1, AccountsStep
<1>2. CASE ServerFails \/ BeginStop \/ Exit \/ Crash
  <2>1. /\ UNCHANGED <<late, repeats, setbacks, changes>>
        /\ UNCHANGED failures \/ Failure
    BY <1>2 DEF ServerFails, BeginStop, Exit, Crash, ProcessEnds
  <2>2. Cardinality(late) \in Nat
    BY FS_CardinalityType DEF Accounts
  <2> QED
    BY <2>1, <2>2, ScannerAssumption DEF Accounts, Failure
<1>3. CASE Signal \/ StartProcess \/ ScannerStep \/ Outside
  BY <1>1, <1>3 DEF Signal, StartProcess, ScannerStep, Outside, Next
<1>4. CASE ShutdownReturns \/ AllDone \/ Deadline \/ CloseRedis
  BY <1>1, <1>4 DEF ShutdownReturns, AllDone, Deadline, Return, CloseRedis
<1> QED
  BY <1>1, <1>2, <1>3, <1>4 DEF TiererNext

(* All of it is kept over processes. *)
LEMMA ServiceSoundness == TiererSpec => []Sound
<1>1. TiererInit => Sound
  BY InitInv, InitTidy DEF TiererInit, Sound, Inv
<1>2. ASSUME Sound, [TiererNext]_<<vars, serviceVars>> PROVE Sound'
  <2>1. Shape
    BY <1>2 DEF Sound, Inv
  <2> QED
    BY <1>2, <2>1, ServiceInvStep, ServiceTidyStep, ServiceAccountsStep DEF Sound
<1> QED
  BY <1>1, <1>2, PTL DEF TiererSpec

(* The types of the scanner are correct in the service too: a chunk that a    *)
(* crash or a missed deadline cuts off never grows into one that is too large, *)
(* and no process handles what its configuration excludes.                   *)
THEOREM TypesOfService == TiererSpec => []TypeOK
  BY ServiceSoundness, SoundTypes, PTL

(* The next process resumes behind a cursor that is never ahead of the work, *)
(* wherever the one before was when it was stopped, killed at its deadline   *)
(* or crashed.                                                              *)
THEOREM NextProcessSkipsNothing == TiererSpec => []CursorCovers
<1>1. Inv => CursorCovers
  BY DEF Inv
<1> QED
  BY <1>1, ServiceInvariance, PTL

(* A traversal that several processes have worked on covers what one that    *)
(* was never interrupted covers.                                            *)
THEOREM TraversalsOfServiceCover == TiererSpec => TraversalCovers
<1>1. Inv /\ [TiererNext]_<<vars, serviceVars>> =>
        [pc = "resetting" /\ pc' = "idle" /\ Cursor' = None /\ (cancelled => Cursor # None)
           => \A o \in due[scope] : UpTo(o, stray[scope])]_vars
  <2>1. ServerFails \/ BeginStop \/ ProcessEnds => ~(pc = "resetting" /\ pc' = "idle")
    BY DEF ServerFails, BeginStop, ProcessEnds
  <2> QED
    BY <2>1, ServiceStep, ResetStep
<1> QED
  BY <1>1, ServiceInvariance, PTL DEF TiererSpec, TraversalCovers

-----------------------------------------------------------------------------
(* What the end of a process costs. *)

(* The failure of the server pays for the chunk that the cancellation which   *)
(* follows it may cost.                                                     *)
Told == IF ~cancelled /\ ~serving THEN ChunkSize ELSE 0

(* runServiceLoops has cancelled the scanner when it leaves its first select. *)
Stopping == service # "running" => cancelled

LEMMA ToldTypes ==
  ASSUME TRUE
  PROVE  /\ Told \in {0, ChunkSize} /\ Told \in Nat
         /\ Told' \in {0, ChunkSize} /\ Told' \in Nat
  BY ScannerAssumption DEF Told

(* An account that is balanced with a credit is so with a smaller one.       *)
LEMMA SmallerCredit ==
  ASSUME Accounts, Accounts', NEW credit \in Nat
  PROVE  /\ ReworkInv(Told) => ReworkInv(0)
         /\ ReworkInv(credit)' /\ Told' <= credit => ReworkInv(Told)'
<1> DEFINE bound == failures * ChunkSize + setbacks * Cardinality(Objects)
           newBound == failures' * ChunkSize + setbacks' * Cardinality(Objects)
<1>1. /\ Cardinality(Redo) \in Nat /\ repeats \in Nat /\ Reserve \in Nat
      /\ Cardinality(Redo') \in Nat /\ repeats' \in Nat /\ Reserve' \in Nat
      /\ failures \in Nat /\ setbacks \in Nat /\ failures' \in Nat /\ setbacks' \in Nat
      /\ ChunkSize \in Nat /\ Cardinality(Objects) \in Nat
  BY ReworkTypes, ScannerAssumption DEF Accounts
<1>2. bound \in Nat /\ newBound \in Nat
  BY <1>1, OneMore
<1>3. /\ ReworkInv(Told) => Cardinality(Redo) + repeats + Reserve + Told <= bound
      /\ Cardinality(Redo) + repeats + Reserve + 0 <= bound => ReworkInv(0)
      /\ ReworkInv(credit)' => Cardinality(Redo') + repeats' + Reserve' + credit <= newBound
      /\ Cardinality(Redo') + repeats' + Reserve' + Told' <= newBound => ReworkInv(Told)'
  BY DEF ReworkInv
<1> HIDE DEF bound, newBound
<1>4. ReworkInv(Told) => ReworkInv(0)
  BY <1>1, <1>2, <1>3, ToldTypes
<1>5. ASSUME ReworkInv(credit)', Told' <= credit PROVE ReworkInv(Told)'
  BY <1>1, <1>2, <1>3, <1>5, ToldTypes
<1> QED
  BY <1>4, <1>5

(* The scanner stays where it is: what it may cost is paid for by the credit  *)
(* or by a failure.                                                         *)
LEMMA Settled ==
  ASSUME Accounts, Accounts', ReworkInv(Told), Redo' \subseteq Redo,
         UNCHANGED <<repeats, setbacks>>,
         \/ Reserve' + Told' <= Reserve + Told /\ UNCHANGED failures
         \/ Reserve' + Told' <= Reserve + Told + ChunkSize /\ Failure
  PROVE  ReworkInv(Told)'
<1> DEFINE f == failures * ChunkSize
           s == setbacks * Cardinality(Objects)
           newBound == failures' * ChunkSize + setbacks' * Cardinality(Objects)
<1>1. f \in Nat /\ s \in Nat /\ (failures + 1) * ChunkSize = f + ChunkSize
  BY ReworkTypes, OneMore
<1>2. newBound = f + s \/ (Failure /\ newBound = f + ChunkSize + s)
  BY <1>1 DEF Failure
<1>3. /\ UNCHANGED failures => newBound = f + s
      /\ Failure => newBound = f + ChunkSize + s
  BY <1>1 DEF Failure
<1>4. Cardinality(Redo) + repeats + Reserve + Told <= f + s
  BY DEF ReworkInv
<1>5. Cardinality(Redo') <= Cardinality(Redo)
  BY ReworkTypes, PairsFinite, FS_Subset
<1> HIDE DEF f, s
<1>6. Cardinality(Redo') + repeats' + Reserve' + Told' <= newBound
  <2> HIDE DEF newBound
  <2> QED
    BY <1>1, <1>3, <1>4, <1>5, ReworkTypes, ToldTypes
<1> QED
  BY <1>6 DEF ReworkInv

(* So it is as the server fails and the scanner is cancelled, and over the    *)
(* end of one process and the start of the next.                            *)
LEMMA ServiceReworkStep ==
  ASSUME Sound, Sound', Stopping, ReworkInv(Told), [TiererNext]_<<vars, serviceVars>>
  PROVE  ReworkInv(Told)' /\ Stopping'
<1> USE DEF store, redis, process, scan, history
<1>1. Shape /\ Tidy /\ Accounts /\ Accounts'
  BY DEF Sound, Inv
<1>2. ASSUME [Next]_vars, UNCHANGED <<cancelled, service, serving>>
      PROVE  ReworkInv(Told)' /\ Stopping'
  <2>1. Told' = Told /\ Stopping'
    BY <1>2 DEF Told, Stopping
  <2>2. PICK credit \in Nat : credit = Told
    BY ToldTypes
  <2>3. ReworkInv(credit)
    BY <2>2 DEF ReworkInv
  <2>4. ReworkInv(credit)'
    BY <1>2, <2>3, ReworkStep
  <2> QED
    BY <1>1, <2>1, <2>2, <2>4, SmallerCredit, ToldTypes
<1>3. CASE Signal
  <2>1. /\ UNCHANGED <<scope, pc, todo, fetched, page, chunk, rest, handled, cursor,
                       repeats, setbacks, service>>
        /\ cancelled' = TRUE /\ Failure
    BY <1>3 DEF Signal, Cancel, serviceVars
  <2>2. Redo' \subseteq Redo
    BY <1>1, <2>1, StaysRedo
  <2>3. Told' = 0 /\ Reserve' + Told' <= Reserve + Told + ChunkSize
    BY <1>1, <2>1, ReworkTypes, ToldTypes DEF Told
  <2>4. Stopping'
    BY <2>1 DEF Stopping
  <2> QED
    BY <1>1, <2>1, <2>2, <2>3, <2>4, Settled
<1>4. CASE ServerFails
  <2>1. /\ UNCHANGED <<scope, pc, todo, fetched, page, chunk, rest, handled, cursor,
                       repeats, setbacks, service, cancelled>>
        /\ serving /\ Failure
    BY <1>4 DEF ServerFails
  <2>2. Redo' \subseteq Redo
    BY <1>1, <2>1, StaysRedo
  <2>3. Told = 0 /\ Reserve' = Reserve
    BY <2>1 DEF Told, Reserve, Running
  <2>4. Reserve' + Told' <= Reserve + Told + ChunkSize
    BY <1>1, <2>3, ReworkTypes, ToldTypes
  <2>5. Stopping'
    BY <2>1 DEF Stopping
  <2> QED
    BY <1>1, <2>1, <2>2, <2>4, <2>5, Settled
<1>5. CASE BeginStop
  <2>1. /\ UNCHANGED <<scope, pc, todo, fetched, page, chunk, rest, handled, cursor,
                       repeats, setbacks, failures, serving>>
        /\ cancelled' = TRUE /\ (cancelled \/ ~serving)
    BY <1>5 DEF BeginStop, ToldToStop
  <2>2. Redo' \subseteq Redo
    BY <1>1, <2>1, StaysRedo
  <2>3. Told' = 0 /\ Stopping'
    BY <2>1 DEF Told, Stopping
  <2>4. Reserve' + Told' <= Reserve + Told
    <3>1. CASE cancelled
      <4>1. Reserve' = Reserve
        BY <2>1, <3>1 DEF Reserve, Running
      <4> QED
        BY <1>1, <2>3, <4>1, ReworkTypes, ToldTypes
    <3>2. CASE ~cancelled
      <4>1. Told = ChunkSize
        BY <2>1, <3>2 DEF Told
      <4> QED
        BY <1>1, <2>3, <4>1, ReworkTypes, ToldTypes
    <3> QED
      BY <3>1, <3>2
  <2> QED
    BY <1>1, <2>1, <2>2, <2>3, <2>4, Settled
<1>6. CASE ShutdownReturns \/ AllDone \/ Deadline \/ CloseRedis
  <2>1. service # "running" /\ service' # "running" /\ UNCHANGED vars
    BY <1>6 DEF ShutdownReturns, AllDone, Deadline, Return, CloseRedis
  <2>2. cancelled /\ cancelled'
    BY <2>1 DEF Stopping, vars
  <2>3. Told = 0 /\ Told' = 0 /\ Stopping'
    BY <2>2 DEF Told, Stopping
  <2>4. Redo' \subseteq Redo
    BY <1>1, <2>1, StaysRedo DEF vars
  <2>5. Reserve' = Reserve /\ UNCHANGED <<repeats, setbacks, failures>>
    BY <2>1 DEF Reserve, Running, vars
  <2>6. Reserve' + Told' <= Reserve + Told
    BY <1>1, <2>3, <2>5, ReworkTypes
  <2> QED
    BY <1>1, <2>3, <2>4, <2>5, <2>6, Settled
<1>7. CASE Exit \/ Crash
  <2>1. /\ UNCHANGED <<scope, handled, cursor, repeats, setbacks>>
        /\ todo' = {} /\ pc' = "stopped" /\ cancelled' = TRUE
    BY <1>7 DEF Exit, Crash, ProcessEnds
  <2>2. ~Running' /\ Told' = 0 /\ Stopping'
    BY <2>1 DEF Running, Told, Stopping
  <2>3. \/ Failure
        \/ cancelled /\ Running /\ UNCHANGED failures
        \/ Finished = {} /\ UNCHANGED failures
    <3>1. CASE Crash
      BY <3>1 DEF Crash
    <3>2. CASE Exit
      BY <3>2 DEF Exit, Stopping, Running, Finished
    <3> QED
      BY <1>7, <3>1, <3>2
  <2>4. ReworkInv(0)
    BY <1>1, SmallerCredit
  <2>5. ReworkInv(0)'
    BY <1>1, <2>1, <2>2, <2>3, <2>4, Interrupted
  <2> QED
    BY <1>1, <2>2, <2>5, SmallerCredit
<1>8. CASE StartProcess
  <2>1. /\ UNCHANGED <<todo, fetched, page, chunk, rest, handled, cursor,
                       repeats, setbacks, failures>>
        /\ pc = "stopped" /\ pc' = "idle" /\ cancelled' = FALSE /\ serving' = TRUE
        /\ service' = "running"
    BY <1>8 DEF StartProcess, Restart
  <2>2. Redo' \subseteq Redo
    BY <1>1, <2>1, StaysRedo
  <2>3. Told' = 0 /\ Reserve' = 0 /\ Stopping'
    BY <2>1 DEF Told, Reserve, Stopping
  <2>4. Reserve' + Told' <= Reserve + Told
    BY <1>1, <2>3, ReworkTypes, ToldTypes
  <2> QED
    BY <1>1, <2>1, <2>2, <2>3, <2>4, Settled
<1>9. CASE ScannerStep \/ Outside
  <2>1. UNCHANGED <<service, serving>> /\ [Next]_vars
    BY <1>9 DEF ScannerStep, Outside, serviceVars, Next
  <2>2. UNCHANGED cancelled
    BY <1>9 DEF ScannerStep, ScanStep, CancelledStep, Load, FetchPage, BucketGone,
       ReceiveItem, StreamClosed, Handle, SaveCursor, SaveCursorAs, ResetCursor,
       SaveCursorUnanswered, ResetCursorUnanswered, Fail, CancelledReturns,
       PassOver, StreamCutShort, RunReturns, Outside, LateCommand, Change
  <2> QED
    BY <1>2, <2>1, <2>2
<1>10. CASE UNCHANGED <<vars, serviceVars>>
  BY <1>2, <1>10 DEF vars, serviceVars
<1> QED
  BY <1>3, <1>4, <1>5, <1>6, <1>7, <1>8, <1>9, <1>10 DEF TiererNext

(* The end of a process, by a signal, by its server or by a crash, costs at   *)
(* most the objects of one chunk, even when the scanner outlives the shutdown *)
(* deadline and goes on beside it.                                           *)
THEOREM ReworkOfService == TiererSpec => []ReworkBounded
<1>1. TiererInit => Stopping /\ ReworkInv(Told)
  <2> SUFFICES ASSUME TiererInit PROVE Stopping /\ ReworkInv(Told)
    OBVIOUS
  <2>1. ReworkInv(0) /\ Told = 0 /\ Stopping
    BY InitRework DEF TiererInit, Told, Stopping
  <2> QED
    BY <2>1 DEF ReworkInv
<1>2. Sound /\ Sound' /\ Stopping /\ ReworkInv(Told) /\ [TiererNext]_<<vars, serviceVars>>
        => Stopping' /\ ReworkInv(Told)'
  BY ServiceReworkStep
<1>3. ASSUME Sound, ReworkInv(Told) PROVE ReworkBounded
  <2>1. PICK credit \in Nat : credit = Told
    BY ToldTypes
  <2>2. ReworkInv(credit)
    BY <1>3, <2>1 DEF ReworkInv
  <2> QED
    BY <1>3, <2>2, ReworkPaid DEF Sound
<1> QED
  BY <1>1, <1>2, <1>3, ServiceSoundness, PTL DEF TiererSpec
=============================================================================
