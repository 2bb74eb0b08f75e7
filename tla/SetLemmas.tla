----------------------------- MODULE SetLemmas -----------------------------
(***************************************************************************)
(* Facts about finite sets that the proofs share: their extremes, and sums   *)
(* over them.  The SumFunction of the community modules folds by a recursive *)
(* function; what it computes is proved by taking a smallest set for which    *)
(* it would be something else.                                              *)
(***************************************************************************)
EXTENDS Integers, Functions, FiniteSetTheorems, TLAPS

(* Of the subsets of a finite set that have some property one is smallest.   *)
LEMMA SmallestSubset ==
  ASSUME NEW S, IsFiniteSet(S), NEW Bad, Bad \subseteq SUBSET S, Bad # {}
  PROVE  \E B \in Bad : \A U \in Bad : U \subseteq B => U = B
<1>1. IsWellFoundedOn(StrictSubsetOrdering(S), FiniteSubsetsOf(S))
  BY FS_StrictSubsetOrderingWellFounded
<1>2. Bad \subseteq FiniteSubsetsOf(S)
  BY FS_FiniteSubsetsOfFinite
<1>3. PICK B \in Bad : \A U \in Bad : ~(<<U, B>> \in StrictSubsetOrdering(S))
  BY <1>1, <1>2, WFMin
<1> QED
  BY <1>3 DEF StrictSubsetOrdering

(* A finite set of numbers that is not empty has a largest and a smallest    *)
(* member.                                                                  *)
LEMMA Extremes ==
  ASSUME NEW S, IsFiniteSet(S), S \subseteq Nat, S # {}
  PROVE  /\ \E x \in S : \A y \in S : x >= y
         /\ \E x \in S : \A y \in S : x =< y
<1> DEFINE Closed(U) == /\ \E x \in U : \A y \in U : x >= y
                        /\ \E x \in U : \A y \in U : x =< y
           Bad == {U \in SUBSET S : U # {} /\ ~Closed(U)}
<1> SUFFICES ASSUME Bad # {} PROVE FALSE
  OBVIOUS
<1>1. PICK B \in Bad : \A U \in Bad : ~(<<U, B>> \in StrictSubsetOrdering(S))
  <2>1. IsWellFoundedOn(StrictSubsetOrdering(S), FiniteSubsetsOf(S))
    BY FS_StrictSubsetOrderingWellFounded
  <2>2. Bad \subseteq FiniteSubsetsOf(S)
    BY FS_FiniteSubsetsOfFinite
  <2> HIDE DEF Bad
  <2> QED
    BY <2>1, <2>2, WFMin
<1>2. PICK x \in B : TRUE
  OBVIOUS
<1>3. B \ {x} \notin Bad
  BY <1>1, <1>2 DEF StrictSubsetOrdering
<1>4. CASE B \ {x} = {}
  BY <1>2, <1>4
<1>5. CASE Closed(B \ {x})
  <2>1. PICK m \in B \ {x} : \A y \in B \ {x} : m >= y
    BY <1>5
  <2>2. PICK n \in B \ {x} : \A y \in B \ {x} : n =< y
    BY <1>5
  <2>3. \E k \in B : \A y \in B : k >= y
    BY <1>2, <2>1
  <2>4. \E k \in B : \A y \in B : k =< y
    BY <1>2, <2>2
  <2> QED
    BY <1>1, <2>3, <2>4
<1> QED
  BY <1>1, <1>3, <1>4, <1>5

(* Two members make a set of two at most, three that differ one of three.    *)
LEMMA FewMembers ==
  ASSUME NEW b, NEW c, NEW d
  PROVE  /\ IsFiniteSet({b, c}) /\ Cardinality({b, c}) \in 0..2
         /\ b # c /\ c # d /\ b # d => Cardinality({b, c, d}) = 3
<1>1. IsFiniteSet({b}) /\ Cardinality({b}) = 1
  BY FS_Singleton
<1>2. /\ IsFiniteSet({b} \cup {c})
      /\ Cardinality({b} \cup {c}) = IF c \in {b} THEN 1 ELSE 1 + 1
  BY <1>1, FS_AddElement
<1>3. {b, c} = {b} \cup {c}
  OBVIOUS
<1>4. IsFiniteSet({b, c}) /\ Cardinality({b, c}) = IF c = b THEN 1 ELSE 2
  BY <1>2, <1>3
<1>5. Cardinality({b, c} \cup {d}) = IF d \in {b, c} THEN Cardinality({b, c})
                                     ELSE Cardinality({b, c}) + 1
  BY <1>4, FS_AddElement
<1>6. {b, c, d} = {b, c} \cup {d}
  OBVIOUS
<1> QED
  BY <1>4, <1>5, <1>6

-----------------------------------------------------------------------------
(* Sums.  The function behind the fold, for every subset of S               *)

First(s) == CHOOSE x \in s : TRUE

IsPartial(f, S, g) ==
  g = [s \in SUBSET S |-> IF s = {} THEN 0 ELSE f[First(s)] + g[s \ {First(s)}]]

Partial(f, S) == CHOOSE g : IsPartial(f, S, g)

(* SumFunctionOnSet is the value of that function at the whole set.          *)
LEMMA SumUnfold ==
  ASSUME NEW f, NEW S
  PROVE  SumFunctionOnSet(f, S) = Partial(f, S)[S]
  BY DEF SumFunctionOnSet, FoldFunctionOnSet, MapThenFoldSet, Partial, IsPartial, First

(* Two such functions agree wherever both are defined.                       *)
LEMMA PartialUnique ==
  ASSUME NEW f, NEW S, NEW T, NEW g, NEW h, NEW U,
         IsPartial(f, S, g), IsPartial(f, T, h),
         U \subseteq S, U \subseteq T, IsFiniteSet(U)
  PROVE  g[U] = h[U]
<1> DEFINE Bad == {s \in SUBSET U : g[s] # h[s]}
<1> SUFFICES ASSUME Bad # {} PROVE FALSE
  OBVIOUS
<1>1. PICK B \in Bad : \A V \in Bad : V \subseteq B => V = B
  <2>1. Bad \subseteq SUBSET U
    OBVIOUS
  <2> HIDE DEF Bad
  <2> QED
    BY <2>1, SmallestSubset
<1>2. /\ g[B] = IF B = {} THEN 0 ELSE f[First(B)] + g[B \ {First(B)}]
      /\ h[B] = IF B = {} THEN 0 ELSE f[First(B)] + h[B \ {First(B)}]
  BY DEF IsPartial
<1>3. CASE B = {}
  BY <1>2, <1>3
<1>4. CASE B # {}
  <2>1. First(B) \in B
    BY <1>4 DEF First
  <2>2. g[B \ {First(B)}] = h[B \ {First(B)}]
    BY <1>1, <2>1
  <2> QED
    BY <1>2, <1>4, <2>2
<1> QED
  BY <1>3, <1>4

(* There is one for every finite set. *)
LEMMA PartialExists ==
  ASSUME NEW f, NEW S, IsFiniteSet(S)
  PROVE  IsPartial(f, S, Partial(f, S))
<1> DEFINE Bad == {s \in SUBSET S : ~IsPartial(f, s, Partial(f, s))}
<1> SUFFICES ASSUME Bad # {} PROVE FALSE
  OBVIOUS
<1>1. PICK B \in Bad : \A V \in Bad : V \subseteq B => V = B
  <2>1. Bad \subseteq SUBSET S
    OBVIOUS
  <2> HIDE DEF Bad
  <2> QED
    BY <2>1, SmallestSubset
<1>2. \A V \in SUBSET B : V # B => IsPartial(f, V, Partial(f, V))
  BY <1>1
<1>3. \A V \in SUBSET B : IsFiniteSet(V)
  BY FS_Subset
<1> DEFINE val(s) == IF s = {} THEN 0
                     ELSE f[First(s)] + Partial(f, s \ {First(s)})[s \ {First(s)}]
           g == [s \in SUBSET B |-> val(s)]
<1>4. ASSUME NEW s \in SUBSET B, s # {}
      PROVE  Partial(f, s \ {First(s)})[s \ {First(s)}] = g[s \ {First(s)}]
  <2> DEFINE u == s \ {First(s)}
  <2>1. First(s) \in s
    BY <1>4 DEF First
  <2>2. u \in SUBSET B /\ u # B /\ IsFiniteSet(u)
    BY <1>3, <2>1
  <2>3. IsPartial(f, u, Partial(f, u))
    BY <1>2, <2>2
  <2>4. Partial(f, u)[u] = IF u = {} THEN 0
                           ELSE f[First(u)] + Partial(f, u)[u \ {First(u)}]
    BY <2>3 DEF IsPartial
  <2>5. ASSUME u # {}
        PROVE  Partial(f, u)[u \ {First(u)}] = Partial(f, u \ {First(u)})[u \ {First(u)}]
    <3> DEFINE v == u \ {First(u)}
    <3>1. v \in SUBSET B /\ v # B /\ v \subseteq u /\ IsFiniteSet(v)
      BY <1>3, <2>2
    <3>2. IsPartial(f, v, Partial(f, v))
      BY <1>2, <3>1
    <3> HIDE DEF u, v
    <3>3. Partial(f, u)[v] = Partial(f, v)[v]
      BY <2>3, <3>1, <3>2, PartialUnique
    <3> QED
      BY <3>3 DEF v
  <2>6. g[u] = val(u)
    BY <2>2
  <2> QED
    BY <2>4, <2>5, <2>6
<1>5. IsPartial(f, B, g)
  <2>1. ASSUME NEW s \in SUBSET B
        PROVE  val(s) = IF s = {} THEN 0 ELSE f[First(s)] + g[s \ {First(s)}]
    BY <1>4
  <2> QED
    BY <2>1 DEF IsPartial
<1>6. IsPartial(f, B, Partial(f, B))
  <2> HIDE DEF g
  <2> QED
    BY <1>5 DEF Partial
<1> QED
  BY <1>1, <1>6

-----------------------------------------------------------------------------
(* The sum over a finite set, first by the element that the fold takes.      *)
LEMMA SumByFirst ==
  ASSUME NEW f, NEW S, IsFiniteSet(S)
  PROVE  SumFunctionOnSet(f, S) =
           IF S = {} THEN 0
           ELSE f[First(S)] + SumFunctionOnSet(f, S \ {First(S)})
<1> DEFINE u == S \ {First(S)}
<1>1. IsPartial(f, S, Partial(f, S))
  BY PartialExists
<1>2. Partial(f, S)[S] = IF S = {} THEN 0 ELSE f[First(S)] + Partial(f, S)[u]
  BY <1>1 DEF IsPartial
<1>3. IsFiniteSet(u) /\ u \subseteq S
  BY FS_Subset
<1>4. IsPartial(f, u, Partial(f, u))
  BY <1>3, PartialExists
<1> HIDE DEF u
<1>5. Partial(f, S)[u] = Partial(f, u)[u]
  <2>1. u \subseteq u
    OBVIOUS
  <2> DEFINE g == Partial(f, S)
             h == Partial(f, u)
  <2>2. IsPartial(f, S, g) /\ IsPartial(f, u, h)
    BY <1>1, <1>4
  <2> HIDE DEF g, h
  <2>3. g[u] = h[u]
    BY <1>3, <2>1, <2>2, PartialUnique
  <2> QED
    BY <2>3 DEF g, h
<1> QED
  BY <1>2, <1>5, SumUnfold DEF u

(* The empty sum is zero. *)
LEMMA SumEmpty ==
  ASSUME NEW f
  PROVE  SumFunctionOnSet(f, {}) = 0
  BY SumByFirst, FS_EmptySet

(* A sum of natural numbers is one. *)
LEMMA SumType ==
  ASSUME NEW S, IsFiniteSet(S), NEW f, \A x \in S : f[x] \in Nat
  PROVE  SumFunctionOnSet(f, S) \in Nat
<1> DEFINE Bad == {s \in SUBSET S : SumFunctionOnSet(f, s) \notin Nat}
<1> SUFFICES ASSUME Bad # {} PROVE FALSE
  OBVIOUS
<1>1. PICK B \in Bad : \A V \in Bad : V \subseteq B => V = B
  <2>1. Bad \subseteq SUBSET S
    OBVIOUS
  <2> HIDE DEF Bad
  <2> QED
    BY <2>1, SmallestSubset
<1>2. IsFiniteSet(B)
  BY FS_Subset
<1>3. CASE B = {}
  BY <1>1, <1>3, SumEmpty
<1>4. CASE B # {}
  <2>1. First(B) \in B
    BY <1>4 DEF First
  <2>2. SumFunctionOnSet(f, B \ {First(B)}) \in Nat
    BY <1>1, <2>1
  <2>3. f[First(B)] \in Nat
    BY <2>1
  <2> QED
    BY <1>1, <1>2, <1>4, <2>2, <2>3, SumByFirst
<1> QED
  BY <1>3, <1>4

(* Any element may be taken out first: the order of a sum does not matter.   *)
LEMMA SumRemove ==
  ASSUME NEW S, IsFiniteSet(S), NEW f, \A x \in S : f[x] \in Nat, NEW y \in S
  PROVE  SumFunctionOnSet(f, S) = f[y] + SumFunctionOnSet(f, S \ {y})
<1> DEFINE Bad == {s \in SUBSET S :
                     \E z \in s : SumFunctionOnSet(f, s) # f[z] + SumFunctionOnSet(f, s \ {z})}
<1> SUFFICES ASSUME Bad # {} PROVE FALSE
  OBVIOUS
<1>1. PICK B \in Bad : \A V \in Bad : V \subseteq B => V = B
  <2>1. Bad \subseteq SUBSET S
    OBVIOUS
  <2> HIDE DEF Bad
  <2> QED
    BY <2>1, SmallestSubset
<1>2. PICK z \in B : SumFunctionOnSet(f, B) # f[z] + SumFunctionOnSet(f, B \ {z})
  BY <1>1
<1> DEFINE c == First(B)
<1>3. c \in B
  BY <1>2 DEF First
<1>4. \A V \in SUBSET S : IsFiniteSet(V) /\ SumFunctionOnSet(f, V) \in Nat
  BY FS_Subset, SumType
<1>5. SumFunctionOnSet(f, B) = f[c] + SumFunctionOnSet(f, B \ {c})
  BY <1>2, <1>4, SumByFirst
<1> HIDE DEF c
<1>6. z # c
  BY <1>2, <1>5
<1>7. ASSUME NEW x \in B, NEW w \in B, w # x
      PROVE  SumFunctionOnSet(f, B \ {x}) = f[w] + SumFunctionOnSet(f, (B \ {x}) \ {w})
  <2>1. B \ {x} \notin Bad /\ B \ {x} \in SUBSET S /\ w \in B \ {x}
    BY <1>1, <1>7
  <2> QED
    BY <2>1
<1>8. /\ SumFunctionOnSet(f, B \ {c}) = f[z] + SumFunctionOnSet(f, (B \ {c}) \ {z})
      /\ SumFunctionOnSet(f, B \ {z}) = f[c] + SumFunctionOnSet(f, (B \ {z}) \ {c})
  BY <1>3, <1>6, <1>7
<1>9. (B \ {c}) \ {z} = (B \ {z}) \ {c}
  OBVIOUS
<1>10. f[c] \in Nat /\ f[z] \in Nat /\ SumFunctionOnSet(f, (B \ {z}) \ {c}) \in Nat
  BY <1>3, <1>4
<1> QED
  BY <1>2, <1>5, <1>8, <1>9, <1>10

(* Functions that agree on a set have the same sum over it.                  *)
LEMMA SumCongruent ==
  ASSUME NEW S, IsFiniteSet(S), NEW f, NEW g, \A x \in S : f[x] = g[x]
  PROVE  SumFunctionOnSet(f, S) = SumFunctionOnSet(g, S)
<1> DEFINE Bad == {s \in SUBSET S : SumFunctionOnSet(f, s) # SumFunctionOnSet(g, s)}
<1> SUFFICES ASSUME Bad # {} PROVE FALSE
  OBVIOUS
<1>1. PICK B \in Bad : \A V \in Bad : V \subseteq B => V = B
  <2>1. Bad \subseteq SUBSET S
    OBVIOUS
  <2> HIDE DEF Bad
  <2> QED
    BY <2>1, SmallestSubset
<1>2. IsFiniteSet(B)
  BY FS_Subset
<1>3. CASE B = {}
  BY <1>1, <1>3, SumEmpty
<1>4. CASE B # {}
  <2>1. First(B) \in B
    BY <1>4 DEF First
  <2>2. SumFunctionOnSet(f, B \ {First(B)}) = SumFunctionOnSet(g, B \ {First(B)})
    BY <1>1, <2>1
  <2>3. f[First(B)] = g[First(B)]
    BY <2>1
  <2> QED
    BY <1>1, <1>2, <1>4, <2>2, <2>3, SumByFirst
<1> QED
  BY <1>3, <1>4

(* Changing one summand changes the sum by as much. *)
LEMMA SumChange ==
  ASSUME NEW S, IsFiniteSet(S), NEW f, NEW g, NEW y \in S,
         \A x \in S : f[x] \in Nat /\ g[x] \in Nat,
         \A x \in S \ {y} : f[x] = g[x]
  PROVE  SumFunctionOnSet(g, S) + f[y] = SumFunctionOnSet(f, S) + g[y]
<1>1. IsFiniteSet(S \ {y})
  BY FS_Subset
<1>2. SumFunctionOnSet(f, S \ {y}) = SumFunctionOnSet(g, S \ {y})
  BY <1>1, SumCongruent
<1>3. SumFunctionOnSet(f, S) = f[y] + SumFunctionOnSet(f, S \ {y})
  BY SumRemove
<1>4. SumFunctionOnSet(g, S) = g[y] + SumFunctionOnSet(g, S \ {y})
  BY SumRemove
<1>5. SumFunctionOnSet(f, S \ {y}) \in Nat
  BY <1>1, SumType
<1> QED
  BY <1>2, <1>3, <1>4, <1>5

(* Summands that are zero may be left out. *)
LEMMA SumSupport ==
  ASSUME NEW S, IsFiniteSet(S), NEW T, T \subseteq S,
         NEW f, \A x \in S : f[x] \in Nat, \A x \in S \ T : f[x] = 0
  PROVE  SumFunctionOnSet(f, S) = SumFunctionOnSet(f, T)
<1> DEFINE Bad == {s \in SUBSET S : SumFunctionOnSet(f, s) # SumFunctionOnSet(f, s \cap T)}
<1> SUFFICES ASSUME Bad # {} PROVE FALSE
  <2>1. S \cap T = T
    OBVIOUS
  <2> QED
    BY <2>1
<1>1. PICK B \in Bad : \A V \in Bad : V \subseteq B => V = B
  <2>1. Bad \subseteq SUBSET S
    OBVIOUS
  <2> HIDE DEF Bad
  <2> QED
    BY <2>1, SmallestSubset
<1>2. PICK y \in B : y \notin T
  <2>1. B # B \cap T
    BY <1>1
  <2> QED
    BY <2>1
<1>3. IsFiniteSet(B) /\ B \subseteq S
  BY FS_Subset
<1>4. SumFunctionOnSet(f, B \ {y}) = SumFunctionOnSet(f, B \cap T)
  <2>1. B \ {y} \notin Bad /\ B \ {y} \in SUBSET S
    BY <1>1, <1>2
  <2>2. (B \ {y}) \cap T = B \cap T
    BY <1>2
  <2> QED
    BY <2>1, <2>2
<1>5. SumFunctionOnSet(f, B) = 0 + SumFunctionOnSet(f, B \ {y})
  BY <1>2, <1>3, SumRemove
<1>6. SumFunctionOnSet(f, B \ {y}) \in Nat
  BY <1>3, FS_Subset, SumType
<1> QED
  BY <1>1, <1>4, <1>5, <1>6

(* The sum of zeros is zero. *)
LEMMA SumOfZeros ==
  ASSUME NEW S, IsFiniteSet(S), NEW f, \A x \in S : f[x] = 0
  PROVE  SumFunctionOnSet(f, S) = 0
<1>1. SumFunctionOnSet(f, S) = SumFunctionOnSet(f, {})
  BY SumSupport
<1> QED
  BY <1>1, SumEmpty

(* A sum of sums is the sum of both. *)
LEMMA SumOfBoth ==
  ASSUME NEW S, IsFiniteSet(S), NEW f, NEW g, NEW h,
         \A x \in S : f[x] \in Nat /\ g[x] \in Nat /\ h[x] = f[x] + g[x]
  PROVE  SumFunctionOnSet(h, S) = SumFunctionOnSet(f, S) + SumFunctionOnSet(g, S)
<1> DEFINE Bad == {s \in SUBSET S : SumFunctionOnSet(h, s) #
                                      SumFunctionOnSet(f, s) + SumFunctionOnSet(g, s)}
<1> SUFFICES ASSUME Bad # {} PROVE FALSE
  OBVIOUS
<1>1. PICK B \in Bad : \A V \in Bad : V \subseteq B => V = B
  <2>1. Bad \subseteq SUBSET S
    OBVIOUS
  <2> HIDE DEF Bad
  <2> QED
    BY <2>1, SmallestSubset
<1>2. CASE B = {}
  BY <1>1, <1>2, SumEmpty
<1>3. CASE B # {}
  <2>1. PICK y \in B : TRUE
    BY <1>3
  <2>2. IsFiniteSet(B) /\ IsFiniteSet(B \ {y}) /\ B \subseteq S
    BY FS_Subset
  <2>3. \A x \in B : h[x] \in Nat
    OBVIOUS
  <2>4. /\ SumFunctionOnSet(f, B) = f[y] + SumFunctionOnSet(f, B \ {y})
        /\ SumFunctionOnSet(g, B) = g[y] + SumFunctionOnSet(g, B \ {y})
    BY <2>2, SumRemove
  <2>5. SumFunctionOnSet(h, B) = h[y] + SumFunctionOnSet(h, B \ {y})
    BY <2>2, <2>3, SumRemove
  <2>6. SumFunctionOnSet(h, B \ {y}) =
          SumFunctionOnSet(f, B \ {y}) + SumFunctionOnSet(g, B \ {y})
    BY <1>1
  <2>7. SumFunctionOnSet(f, B \ {y}) \in Nat /\ SumFunctionOnSet(g, B \ {y}) \in Nat
    BY <2>2, SumType
  <2>8. f[y] \in Nat /\ g[y] \in Nat /\ h[y] = f[y] + g[y]
    OBVIOUS
  <2> QED
    BY <1>1, <2>4, <2>5, <2>6, <2>7, <2>8
<1> QED
  BY <1>2, <1>3

(* Larger summands have a larger sum. *)
LEMMA SumMonotone ==
  ASSUME NEW S, IsFiniteSet(S), NEW f, NEW g,
         \A x \in S : f[x] \in Nat /\ g[x] \in Nat /\ f[x] <= g[x]
  PROVE  SumFunctionOnSet(f, S) <= SumFunctionOnSet(g, S)
<1> DEFINE d == [x \in S |-> g[x] - f[x]]
<1>1. \A x \in S : d[x] \in Nat /\ g[x] = f[x] + d[x]
  OBVIOUS
<1> HIDE DEF d
<1>2. SumFunctionOnSet(g, S) = SumFunctionOnSet(f, S) + SumFunctionOnSet(d, S)
  BY <1>1, SumOfBoth
<1>3. SumFunctionOnSet(f, S) \in Nat /\ SumFunctionOnSet(d, S) \in Nat
  BY <1>1, SumType
<1> QED
  BY <1>2, <1>3

(* ... and one by as much as one of the summands is. *)
LEMMA SumExceeds ==
  ASSUME NEW S, IsFiniteSet(S), NEW f, NEW g, NEW y \in S,
         \A x \in S : f[x] \in Nat /\ g[x] \in Nat /\ f[x] <= g[x],
         f[y] + 1 <= g[y]
  PROVE  SumFunctionOnSet(f, S) + 1 <= SumFunctionOnSet(g, S)
<1>1. IsFiniteSet(S \ {y})
  BY FS_Subset
<1>2. SumFunctionOnSet(f, S \ {y}) <= SumFunctionOnSet(g, S \ {y})
  BY <1>1, SumMonotone
<1>3. SumFunctionOnSet(f, S) = f[y] + SumFunctionOnSet(f, S \ {y})
  BY SumRemove
<1>4. SumFunctionOnSet(g, S) = g[y] + SumFunctionOnSet(g, S \ {y})
  BY SumRemove
<1>5. SumFunctionOnSet(f, S \ {y}) \in Nat /\ SumFunctionOnSet(g, S \ {y}) \in Nat
  BY <1>1, SumType
<1> QED
  BY <1>2, <1>3, <1>4, <1>5

(* Counting a finite set by the value of a key: the numbers of elements with  *)
(* each value add up to the number of all.                                   *)
LEMMA SumOfFibres ==
  ASSUME NEW S, IsFiniteSet(S), NEW key, NEW D, IsFiniteSet(D), \A x \in S : key[x] \in D
  PROVE  SumFunctionOnSet([k \in D |-> Cardinality({x \in S : key[x] = k})], D)
           = Cardinality(S)
<1> DEFINE F(s) == [k \in D |-> Cardinality({x \in s : key[x] = k})]
           Bad == {s \in SUBSET S : SumFunctionOnSet(F(s), D) # Cardinality(s)}
<1> SUFFICES ASSUME Bad # {} PROVE FALSE
  OBVIOUS
<1>1. PICK B \in Bad : \A V \in Bad : V \subseteq B => V = B
  <2>1. Bad \subseteq SUBSET S
    OBVIOUS
  <2> HIDE DEF Bad
  <2> QED
    BY <2>1, SmallestSubset
<1>2. B \subseteq S /\ IsFiniteSet(B) /\ SumFunctionOnSet(F(B), D) # Cardinality(B)
  BY <1>1, FS_Subset
<1>3. ASSUME NEW s \in SUBSET B, NEW k \in D
      PROVE  F(s)[k] = Cardinality({x \in s : key[x] = k}) /\ F(s)[k] \in Nat
             /\ IsFiniteSet({x \in s : key[x] = k})
  <2>1. {x \in s : key[x] = k} \subseteq B
    OBVIOUS
  <2> QED
    BY <1>2, <2>1, FS_Subset, FS_CardinalityType
<1>4. CASE B = {}
  <2>1. \A k \in D : {x \in B : key[x] = k} = {}
    BY <1>4
  <2>2. \A k \in D : F(B)[k] = 0
    BY <2>1, FS_EmptySet
  <2> HIDE DEF F
  <2> QED
    BY <1>2, <1>4, <2>2, SumOfZeros, FS_EmptySet
<1>5. CASE B # {}
  <2>1. PICK y \in B : TRUE
    BY <1>5
  <2>2. key[y] \in D
    BY <1>2
  <2>3. SumFunctionOnSet(F(B \ {y}), D) = Cardinality(B \ {y})
    <3>1. B \ {y} \notin Bad /\ B \ {y} \in SUBSET S
      BY <1>1, <2>1
    <3> QED
      BY <3>1
  <2>4. \A k \in D \ {key[y]} : F(B)[k] = F(B \ {y})[k]
    <3>1. \A k \in D \ {key[y]} : {x \in B : key[x] = k} = {x \in B \ {y} : key[x] = k}
      OBVIOUS
    <3> QED
      BY <3>1
  <2>5. F(B)[key[y]] = F(B \ {y})[key[y]] + 1
    <3> DEFINE T == {x \in B : key[x] = key[y]}
    <3>1. {x \in B \ {y} : key[x] = key[y]} = T \ {y}
      OBVIOUS
    <3>2. IsFiniteSet(T) /\ Cardinality(T) \in Nat /\ y \in T
      BY <1>3, <2>2, FS_CardinalityType
    <3>3. Cardinality(T \ {y}) = Cardinality(T) - 1
      BY <3>2, FS_RemoveElement
    <3>4. F(B)[key[y]] = Cardinality(T) /\ F(B \ {y})[key[y]] = Cardinality(T \ {y})
      BY <2>2, <3>1
    <3> QED
      BY <3>2, <3>3, <3>4
  <2>6. \A k \in D : F(B)[k] \in Nat /\ F(B \ {y})[k] \in Nat
    BY <1>3
  <2>7. Cardinality(B) = Cardinality(B \ {y}) + 1
    <3>1. Cardinality(B \ {y}) = Cardinality(B) - 1 /\ Cardinality(B) \in Nat
      BY <1>2, FS_RemoveElement, FS_CardinalityType
    <3> QED
      BY <3>1
  <2> HIDE DEF F
  <2> DEFINE f == F(B \ {y})
             g == F(B)
  <2>8. \A k \in D : f[k] \in Nat /\ g[k] \in Nat
    BY <2>6
  <2>9. \A k \in D \ {key[y]} : f[k] = g[k]
    BY <2>4
  <2>10. g[key[y]] = f[key[y]] + 1
    BY <2>5
  <2>11. SumFunctionOnSet(f, D) = Cardinality(B \ {y}) /\ SumFunctionOnSet(g, D) # Cardinality(B)
    BY <1>2, <2>3
  <2> HIDE DEF f, g
  <2>12. SumFunctionOnSet(g, D) + f[key[y]] = SumFunctionOnSet(f, D) + g[key[y]]
    BY <2>2, <2>8, <2>9, SumChange
  <2>13. SumFunctionOnSet(f, D) \in Nat /\ SumFunctionOnSet(g, D) \in Nat
    BY <2>8, SumType
  <2> QED
    BY <2>2, <2>7, <2>8, <2>10, <2>11, <2>12, <2>13
<1> QED
  BY <1>4, <1>5
=============================================================================
