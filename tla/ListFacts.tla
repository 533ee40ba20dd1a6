----------------------------- MODULE ListFacts ------------------------------
(***************************************************************************)
(* Facts about the lists of the interface: what is left of one when        *)
(* entries are removed, how many ids its entries have, and that a finite   *)
(* set of numbers has a greatest element.  The last one is an induction    *)
(* over sets, by a minimal counterexample of the well-founded order of     *)
(* strict inclusion.                                                       *)
(***************************************************************************)
EXTENDS Lists, Functions, FunctionTheorems, FiniteSetTheorems, SequenceTheorems,
        WellFoundedInduction, TLAPS

\* Places of a list can be counted.
LEMMA PlacesAreFinite ==
  ASSUME NEW n \in Nat, NEW places \in SUBSET (1..n)
  PROVE  IsFiniteSet(places) /\ Cardinality(places) \in Nat
<1>1. IsFiniteSet(1..n)
  BY FS_Interval
<1>2. IsFiniteSet(places)
  BY <1>1, FS_Subset
<1> QED
  BY <1>2, FS_CardinalityType

\* There is a k-th place for every k up to their number: the rank of a place is one to
\* one into these numbers, and so onto them.
LEMMA RankIsOnto ==
  ASSUME NEW n \in Nat, NEW places \in SUBSET (1..n), NEW k \in 1..Cardinality(places)
  PROVE  \E i \in places : Rank(i, places) = k
<1> DEFINE below(i) == {j \in places : j <= i}
           rank == [i \in places |-> Rank(i, places)]
           size == Cardinality(places)
<1>0. \A i : Rank(i, places) = Cardinality(below(i))
  BY DEF Rank
<1>1. IsFiniteSet(places) /\ size \in Nat
  BY PlacesAreFinite
<1>2. ASSUME NEW i \in places
      PROVE  IsFiniteSet(below(i)) /\ Cardinality(below(i)) \in 1..size
  <2>1. below(i) \in SUBSET places /\ i \in below(i) /\ below(i) \in SUBSET (1..n)
    <3>1. i \in Int
      OBVIOUS
    <3>2. i <= i
      BY <3>1
    <3> QED
      BY <3>2
  <2>2. IsFiniteSet(below(i)) /\ Cardinality(below(i)) <= size
    BY <1>1, <2>1, FS_Subset
  <2>3. Cardinality(below(i)) \in Nat
    BY <2>1, PlacesAreFinite
  <2>4. Cardinality(below(i)) # 0
    BY <2>1, <2>2, FS_EmptySet
  <2> QED
    BY <2>2, <2>3, <2>4, <1>1
<1>3. ASSUME NEW a \in places, NEW b \in places, a < b
      PROVE  Cardinality(below(a)) # Cardinality(below(b))
  <2>1. places \subseteq Int
    OBVIOUS
  <2>2. \A j \in places : (j <= a => j <= b) /\ b <= b /\ ~(b <= a)
    BY <1>3, <2>1
  <2>3. below(a) \in SUBSET below(b) /\ b \in below(b) /\ b \notin below(a)
    BY <2>2
  <2>4. IsFiniteSet(below(b))
    BY <1>2
  <2> QED
    BY <2>3, <2>4, FS_Subset
<1>4. rank \in Injection(places, 1..size)
  <2>1. rank \in [places -> 1..size]
    BY <1>0, <1>2
  <2>2. ASSUME NEW a \in places, NEW b \in places, rank[a] = rank[b]
        PROVE  a = b
    <3>1. Cardinality(below(a)) = Cardinality(below(b))
      BY <1>0, <2>2
    <3>2. a \in Int /\ b \in Int
      OBVIOUS
    <3>3. ~(a < b) /\ ~(b < a)
      BY <3>1, <1>3
    <3> QED
      BY <3>2, <3>3
  <2> QED
    BY <2>1, <2>2, Fun_IsInj
<1>5. IsFiniteSet(1..size) /\ Cardinality(1..size) = size
  BY <1>1, FS_Interval
<1>6. rank \in Surjection(places, 1..size)
  BY <1>4, <1>5, FS_Injection
<1>7. \E i \in places : rank[i] = k
  BY <1>6 DEF Surjection
<1> QED
  BY <1>7

\* The list of the entries that are left.
LEMMA EntriesAtFacts ==
  ASSUME NEW n \in Nat, NEW list, NEW places \in SUBSET (1..n)
  PROVE  /\ Cardinality(places) \in Nat
         /\ EntriesAt(list, places) =
              [k \in 1..Cardinality(places) |-> EntriesAt(list, places)[k]]
BY PlacesAreFinite DEF EntriesAt

\* Each of them is an entry of the list, from a place of its own rank.
LEMMA EntriesAtRanks ==
  ASSUME NEW n \in Nat, NEW places, places \in SUBSET (1..n)
  PROVE  \A list : \A k \in 1..Cardinality(places) : \E i \in places :
           EntriesAt(list, places)[k] = list[i] /\ Rank(i, places) = k
<1>1. ASSUME NEW list, NEW k \in 1..Cardinality(places)
      PROVE  \E i \in places : EntriesAt(list, places)[k] = list[i] /\ Rank(i, places) = k
  <2>1. \E i \in places : Rank(i, places) = k
    BY RankIsOnto
  <2>2. EntriesAt(list, places)[k] = list[CHOOSE i \in places : Rank(i, places) = k]
    BY DEF EntriesAt
  <2> QED BY <2>1, <2>2
<1> QED BY <1>1

\* A finite set of numbers that is not empty has a greatest element.
LEMMA FiniteSetHasMax ==
  ASSUME NEW S \in SUBSET Int, IsFiniteSet(S), S # {}
  PROVE  \E m \in S : \A x \in S : m >= x
<1> DEFINE HasMax(T) == \E m \in T : \A x \in T : m >= x
           Bad == {T \in SUBSET S : T # {} /\ ~HasMax(T)}
<1>1. SUFFICES ASSUME S \in Bad PROVE FALSE
  OBVIOUS
<1>2. PICK T \in Bad : \A U \in Bad : <<U, T>> \notin StrictSubsetOrdering(S)
  <2>1. IsWellFoundedOn(StrictSubsetOrdering(S), SUBSET S)
    BY FS_StrictSubsetOrderingWellFounded, FS_FiniteSubsetsOfFinite
  <2>2. Bad \subseteq SUBSET S /\ Bad # {}
    BY <1>1
  <2> HIDE DEF Bad
  <2> QED
    BY <2>1, <2>2, WFMin
<1>3. PICK x \in T : TRUE
  OBVIOUS
<1>4. <<T \ {x}, T>> \in StrictSubsetOrdering(S)
  BY DEF StrictSubsetOrdering
<1>5. T \ {x} \notin Bad
  BY <1>2, <1>4
<1>6. T \ {x} = {} \/ HasMax(T \ {x})
  BY <1>5
<1>7. CASE T \ {x} = {}
  <2>1. \A y \in T : x >= y
    BY <1>7
  <2> QED
    BY <2>1
<1>8. CASE HasMax(T \ {x})
  <2>1. PICK m \in T \ {x} : \A y \in T \ {x} : m >= y
    BY <1>8
  <2>2. m \in Int /\ x \in Int /\ T \subseteq Int
    OBVIOUS
  <2>3. CASE m <= x
    <3>1. \A y \in T : x >= y
      BY <2>1, <2>2, <2>3
    <3> QED
      BY <3>1
  <2>4. CASE x <= m
    <3>1. \A y \in T : m >= y
      BY <2>1, <2>2, <2>4
    <3> QED
      BY <3>1
  <2> QED
    BY <2>2, <2>3, <2>4
<1> QED
  BY <1>6, <1>7, <1>8

\* A list with an entry put in below one of its places.
WithBelow(list, i, e) == SubSeq(list, 1, i) \o <<e>> \o SubSeq(list, i + 1, Len(list))

LEMMA InsertedBelow ==
  ASSUME NEW S, NEW list, list \in Seq(S), NEW i, i \in 1..Len(list), NEW e, e \in S
  PROVE  /\ WithBelow(list, i, e) \in Seq(S)
         /\ DOMAIN WithBelow(list, i, e) = 1..(Len(list) + 1)
         /\ \A j \in 1..(Len(list) + 1) :
              WithBelow(list, i, e)[j]
                = IF j <= i THEN list[j] ELSE IF j = i + 1 THEN e ELSE list[j - 1]
<1> DEFINE n == Len(list)
           front == SubSeq(list, 1, i)
           most == front \o <<e>>
           back == SubSeq(list, i + 1, n)
           longer == most \o back
<1>1. n \in Nat /\ i \in 1..n /\ \A j \in 1..n : list[j] \in S
  OBVIOUS
<1>2. front \in Seq(S) /\ Len(front) = i /\ \A j \in 1..i : front[j] = list[j]
  <2>1. \A j \in 1..i : list[j] \in S
    BY <1>1
  <2>2. /\ front \in Seq(S) /\ Len(front) = IF 1 <= i THEN i - 1 + 1 ELSE 0
        /\ \A j \in 1..(i - 1 + 1) : front[j] = list[1 + j - 1]
    BY <1>1, <2>1, SubSeqProperties
  <2> QED BY <1>1, <2>2
<1>3. back \in Seq(S) /\ Len(back) = n - i /\ \A j \in 1..(n - i) : back[j] = list[i + j]
  <2>1. (\A j \in (i + 1)..n : list[j] \in S) /\ i + 1 \in Int /\ n \in Int
    BY <1>1
  <2> HIDE DEF n
  <2>2. /\ back \in Seq(S) /\ Len(back) = IF i + 1 <= n THEN n - (i + 1) + 1 ELSE 0
        /\ \A j \in 1..(n - (i + 1) + 1) : back[j] = list[i + 1 + j - 1]
    BY <2>1, SubSeqProperties
  <2>3. n - (i + 1) + 1 = n - i /\ \A j \in 1..(n - i) : i + 1 + j - 1 = i + j
    BY <1>1
  <2>4. Len(back) = n - i
    BY <1>1, <2>2, <2>3
  <2> HIDE DEF back
  <2> QED BY <2>2, <2>3, <2>4
<1> HIDE DEF n, front, back
<1>4. <<e>> \in Seq(S) /\ Len(<<e>>) = 1 /\ <<e>>[1] = e
  OBVIOUS
<1>5. /\ most \in Seq(S) /\ Len(most) = i + 1
      /\ \A j \in 1..i : most[j] = list[j]
      /\ most[i + 1] = e
  <2>1. /\ most \in Seq(S) /\ Len(most) = Len(front) + Len(<<e>>)
        /\ \A j \in 1..(Len(front) + Len(<<e>>)) :
             most[j] = IF j <= Len(front) THEN front[j] ELSE <<e>>[j - Len(front)]
    BY <1>2, <1>4, ConcatProperties
  <2> HIDE DEF most
  <2> QED BY <1>1, <1>2, <1>4, <2>1
<1> HIDE DEF most
<1>6. /\ longer \in Seq(S) /\ Len(longer) = n + 1
      /\ \A j \in 1..(n + 1) : longer[j] = IF j <= i + 1 THEN most[j] ELSE back[j - (i + 1)]
  <2>1. /\ longer \in Seq(S) /\ Len(longer) = Len(most) + Len(back)
        /\ \A j \in 1..(Len(most) + Len(back)) :
             longer[j] = IF j <= Len(most) THEN most[j] ELSE back[j - Len(most)]
    BY <1>3, <1>5, ConcatProperties
  <2> HIDE DEF longer
  <2> QED BY <1>1, <1>3, <1>5, <2>1
<1> HIDE DEF longer
<1>7. ASSUME NEW j \in 1..(n + 1)
      PROVE  longer[j] = IF j <= i THEN list[j] ELSE IF j = i + 1 THEN e ELSE list[j - 1]
  <2>1. CASE j <= i + 1
    BY <1>1, <1>5, <1>6, <2>1
  <2>2. CASE j > i + 1
    <3>1. j - (i + 1) \in 1..(n - i) /\ i + (j - (i + 1)) = j - 1
      BY <1>1, <2>2
    <3>2. longer[j] = back[j - (i + 1)]
      BY <1>1, <1>6, <2>2
    <3> QED BY <1>1, <1>3, <2>2, <3>1, <3>2
  <2> QED BY <1>1, <2>1, <2>2
<1>8. DOMAIN longer = 1..(n + 1)
  BY <1>1, <1>6
<1>9. WithBelow(list, i, e) = longer
  BY DEF WithBelow, longer, most, front, back, n
<1> QED BY <1>6, <1>7, <1>8, <1>9 DEF n

-----------------------------------------------------------------------------
(* The ids of a list *)

LEMMA IdsAreFinite ==
  ASSUME NEW n \in Nat, NEW list
  PROVE  IsFiniteSet({list[i].id : i \in 1..n})
<1> DEFINE id == [i \in 1..n |-> list[i].id]
           ids == {list[i].id : i \in 1..n}
<1>1. id \in Surjection(1..n, ids)
  BY DEF Surjection
<1>2. IsFiniteSet(1..n)
  BY FS_Interval
<1> QED
  BY <1>1, <1>2, FS_Surjection

\* Entries whose ids differ have as many ids as there are entries.
LEMMA DistinctIdsCounted ==
  ASSUME NEW n \in Nat, NEW list,
         \A i, j \in 1..n : list[i].id = list[j].id => i = j
  PROVE  Cardinality({list[i].id : i \in 1..n}) = n
<1> DEFINE id == [i \in 1..n |-> list[i].id]
           ids == {list[i].id : i \in 1..n}
<1>1. id \in Surjection(1..n, ids) /\ id \in Injection(1..n, ids)
  <2>1. id \in Surjection(1..n, ids)
    BY DEF Surjection
  <2>2. id \in [1..n -> ids] /\ \A i, j \in 1..n : id[i] = id[j] => i = j
    OBVIOUS
  <2> QED
    BY <2>1, <2>2, Fun_IsInj
<1>2. IsFiniteSet(1..n) /\ Cardinality(1..n) = n
  BY FS_Interval
<1> HIDE DEF id
<1> QED
  BY <1>1, <1>2, FS_Surjection
=============================================================================
