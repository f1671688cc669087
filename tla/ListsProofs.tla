---------------------------- MODULE ListsProofs ----------------------------
(***************************************************************************)
(* What the lists' operators return, for every list: the order that        *)
(* sorting gives, what a filter keeps, and the turns of a loop.            *)
(*                                                                         *)
(* Induction over lists is by the least counterexample: the library's      *)
(* theorem on minimal elements has no operator among its parameters.       *)
(***************************************************************************)
EXTENDS Lists, Integers, Sequences, FiniteSets, SequencesExt, FiniteSetTheorems,
        SequenceTheorems, WellFoundedInduction, TLAPS

CONSTANT Step(_, _, _)   \* one turn of a loop: what it uses, the state before it, the element

\* Induction over the natural numbers, for a set of them.
LEMMA Induction ==
  ASSUME NEW S, 0 \in S, \A n \in Nat : n \in S => n + 1 \in S
  PROVE  Nat \subseteq S
<1> DEFINE Less == {p \in Nat \X Nat : p[1] < p[2]}
           Missed == Nat \ S
<1>1. OpToRel(<, Nat) = Less
  BY DEF OpToRel
<1>2. IsWellFoundedOn(Less, Nat)
  BY <1>1, NatLessThanWellFounded
<1>3. SUFFICES ASSUME Missed # {} PROVE FALSE
  OBVIOUS
<1>4. PICK x \in Missed : \A y \in Missed : <<y, x>> \notin Less
  <2>1. Missed \subseteq Nat
    OBVIOUS
  <2> HIDE DEF Missed, Less
  <2> QED BY <2>1, <1>2, <1>3, WFMin, Zenon
<1>5. x \in Nat \ {0} /\ x - 1 \in Nat /\ <<x - 1, x>> \in Less
  OBVIOUS
<1>6. x - 1 \notin Missed
  BY <1>4, <1>5
<1> QED BY <1>5, <1>6
-----------------------------------------------------------------------------
(* Places in an order *)

\* Of sets that grow along an order, one for each of n elements and with it,
\* there is exactly one of each size up to n.
LEMMA SizesOfAChain ==
  ASSUME NEW D, IsFiniteSet(D), NEW below \in [D -> SUBSET D],
         \A i \in D : i \in below[i],
         \A i, j \in D : i # j => \/ below[i] \subseteq below[j] /\ j \notin below[i]
                                  \/ below[j] \subseteq below[i] /\ i \notin below[j]
  PROVE  /\ \A i \in D : Cardinality(below[i]) \in 1..Cardinality(D)
         /\ \A i, j \in D : Cardinality(below[i]) = Cardinality(below[j]) => i = j
         /\ \A k \in 1..Cardinality(D) : \E i \in D : Cardinality(below[i]) = k
<1> DEFINE n == Cardinality(D)
           size == [i \in D |-> Cardinality(below[i])]
<1>1. n \in Nat
  BY FS_CardinalityType
<1>2. ASSUME NEW i \in D PROVE IsFiniteSet(below[i]) /\ Cardinality(below[i]) \in 1..n
  <2>1. below[i] \in SUBSET D
    OBVIOUS
  <2>2. IsFiniteSet(below[i]) /\ Cardinality(below[i]) <= n
    BY <2>1, FS_Subset
  <2>3. Cardinality(below[i]) # 0
    BY <2>2, FS_EmptySet
  <2> QED BY <2>2, <2>3, <1>1, FS_CardinalityType
<1>3. ASSUME NEW i \in D, NEW j \in D, below[i] \subseteq below[j], j \notin below[i]
      PROVE  Cardinality(below[i]) # Cardinality(below[j])
  <2>1. IsFiniteSet(below[j]) /\ below[i] \in SUBSET below[j]
    BY <1>2, <1>3
  <2> QED BY <2>1, <1>3, FS_Subset
<1>4. \A i, j \in D : Cardinality(below[i]) = Cardinality(below[j]) => i = j
  <2> SUFFICES ASSUME NEW i \in D, NEW j \in D, i # j
               PROVE  Cardinality(below[i]) # Cardinality(below[j])
    OBVIOUS
  <2> QED BY <1>3
<1>5. size \in Injection(D, 1..n)
  <2>1. size \in [D -> 1..n]
    BY <1>2
  <2>2. \A i, j \in D : size[i] = size[j] => i = j
    BY <1>4
  <2> HIDE DEF size
  <2> QED BY <2>1, <2>2 DEF Injection, IsInjective
<1>6. IsFiniteSet(1..n) /\ Cardinality(1..n) = n
  BY <1>1, FS_Interval
<1>7. size \in Surjection(D, 1..n)
  <2> HIDE DEF size
  <2> QED BY <1>5, <1>6, FS_Injection
<1>8. \A k \in 1..n : \E i \in D : size[i] = k
  <2> HIDE DEF size, n
  <2> QED BY <1>7 DEF Surjection
<1> QED BY <1>2, <1>4, <1>8

\* A set of integers, sorted: each element once, the lesser ones first.
LEMMA SortedSetFacts ==
  ASSUME NEW S \in SUBSET Int, IsFiniteSet(S)
  PROVE  /\ Cardinality(S) \in Nat
         /\ SortedSet(S) \in [1..Cardinality(S) -> S]
         /\ \A j, k \in 1..Cardinality(S) : j < k => SortedSet(S)[j] < SortedSet(S)[k]
         /\ \A x \in S : \E k \in 1..Cardinality(S) : SortedSet(S)[k] = x
<1> DEFINE n == Cardinality(S)
           below == [x \in S |-> {y \in S : y <= x}]
           At(k) == CHOOSE x \in S : Cardinality({y \in S : y <= x}) = k
<1>1. n \in Nat
  BY FS_CardinalityType
<1>2. /\ \A i \in S : Cardinality(below[i]) \in 1..n
      /\ \A i, j \in S : Cardinality(below[i]) = Cardinality(below[j]) => i = j
      /\ \A k \in 1..n : \E i \in S : Cardinality(below[i]) = k
  <2>1. below \in [S -> SUBSET S]
    OBVIOUS
  <2>2. \A i \in S : i \in below[i]
    OBVIOUS
  <2>3. \A i, j \in S : i # j => \/ below[i] \subseteq below[j] /\ j \notin below[i]
                                 \/ below[j] \subseteq below[i] /\ i \notin below[j]
    <3> SUFFICES ASSUME NEW i \in S, NEW j \in S, i < j
                 PROVE  below[i] \subseteq below[j] /\ j \notin below[i]
      BY S \subseteq Int
    <3>1. i \in Int /\ j \in Int /\ \A y \in S : y \in Int
      OBVIOUS
    <3>2. \A y \in S : y <= i => y <= j
      BY <3>1
    <3>3. ~(j <= i)
      BY <3>1
    <3>4. below[i] = {y \in S : y <= i} /\ below[j] = {y \in S : y <= j}
      OBVIOUS
    <3> HIDE DEF below
    <3> QED BY <3>2, <3>3, <3>4
  <2>4. IsFiniteSet(S)
    OBVIOUS
  <2> HIDE DEF below, At
  <2>5. \A D : D = S =>
          /\ \A i \in D : Cardinality(below[i]) \in 1..Cardinality(D)
          /\ \A i, j \in D : Cardinality(below[i]) = Cardinality(below[j]) => i = j
          /\ \A k \in 1..Cardinality(D) : \E i \in D : Cardinality(below[i]) = k
    <3> SUFFICES ASSUME NEW D, D = S
                 PROVE  /\ \A i \in D : Cardinality(below[i]) \in 1..Cardinality(D)
                        /\ \A i, j \in D : Cardinality(below[i]) = Cardinality(below[j]) => i = j
                        /\ \A k \in 1..Cardinality(D) : \E i \in D : Cardinality(below[i]) = k
      OBVIOUS
    <3>1. IsFiniteSet(D) /\ below \in [D -> SUBSET D] /\ \A i \in D : i \in below[i]
      BY <2>1, <2>2, <2>4
    <3>2. \A i, j \in D : i # j => \/ below[i] \subseteq below[j] /\ j \notin below[i]
                                   \/ below[j] \subseteq below[i] /\ i \notin below[j]
      BY <2>3
    <3> QED BY ONLY <3>1, <3>2, SizesOfAChain
  <2> QED BY <2>5
<1>3. \A i \in S : Cardinality({y \in S : y <= i}) = Cardinality(below[i])
  OBVIOUS
<1>4. \A k \in 1..n : At(k) \in S /\ Cardinality(below[At(k)]) = k
  BY <1>2, <1>3
<1>5. SortedSet(S) = [k \in 1..n |-> At(k)]
  BY DEF SortedSet
<1>6. ASSUME NEW j \in 1..n, NEW k \in 1..n, j < k PROVE At(j) < At(k)
  <2> HIDE DEF At
  <2>1. At(j) \in Int /\ At(k) \in Int /\ At(j) \in S /\ At(k) \in S
    BY <1>4
  <2>2. SUFFICES ASSUME At(k) <= At(j) PROVE FALSE
    BY <2>1
  <2>3. below[At(k)] \in SUBSET below[At(j)] /\ below[At(j)] \in SUBSET S
    <3>1. \A y \in S : y <= At(k) => y <= At(j)
      BY <2>1, <2>2
    <3> QED BY <2>1, <3>1
  <2>4. Cardinality(below[At(k)]) <= Cardinality(below[At(j)])
    <3> HIDE DEF below
    <3>1. IsFiniteSet(below[At(j)])
      BY <2>3, FS_Subset
    <3> QED BY <2>3, <3>1, FS_Subset
  <2> HIDE DEF below
  <2> QED BY <2>4, <1>4, <1>6
<1>7. \A x \in S : \E k \in 1..n : At(k) = x
  <2> SUFFICES ASSUME NEW x \in S PROVE \E k \in 1..n : At(k) = x
    OBVIOUS
  <2>1. Cardinality(below[x]) \in 1..n
    BY <1>2
  <2> HIDE DEF below, At, n
  <2>2. At(Cardinality(below[x])) = x
    BY <2>1, <1>4, <1>2
  <2> QED BY <2>1, <2>2
<1> HIDE DEF At, n
<1> QED BY <1>1, <1>4, <1>5, <1>6, <1>7 DEF n

\* A list has as many places as elements.
LEMMA DomainFacts ==
  ASSUME NEW T, NEW s \in Seq(T)
  PROVE  /\ DOMAIN s = 1..Len(s) /\ Len(s) \in Nat
         /\ IsFiniteSet(DOMAIN s) /\ Cardinality(DOMAIN s) = Len(s)
<1>1. DOMAIN s = 1..Len(s) /\ Len(s) \in Nat
  OBVIOUS
<1>2. \A n \in Nat : IsFiniteSet(1..n) /\ Cardinality(1..n) = n
  BY FS_Interval
<1> QED BY <1>1, <1>2

\* What is picked from a list is there once for each place, in the list's order.
LEMMA PickedFacts ==
  ASSUME NEW T, NEW s \in Seq(T), NEW I \in SUBSET DOMAIN s
  PROVE  /\ IsFiniteSet(I) /\ Cardinality(I) \in Nat
         /\ Picked(s, I) \in Seq(T) /\ Len(Picked(s, I)) = Cardinality(I)
         /\ \A k \in 1..Cardinality(I) : SortedSet(I)[k] \in I /\ Picked(s, I)[k] = s[SortedSet(I)[k]]
         /\ \A j, k \in 1..Cardinality(I) : j < k => SortedSet(I)[j] < SortedSet(I)[k]
         /\ \A i \in I : \E k \in 1..Cardinality(I) : SortedSet(I)[k] = i
         /\ {Picked(s, I)[k] : k \in 1..Cardinality(I)} = {s[i] : i \in I}
<1> DEFINE at == SortedSet(I)
           n == Cardinality(I)
<1>1. DOMAIN s = 1..Len(s) /\ Len(s) \in Nat /\ \A i \in DOMAIN s : s[i] \in T
  OBVIOUS
<1>2. IsFiniteSet(I) /\ I \in SUBSET Int
  <2>1. IsFiniteSet(DOMAIN s)
    BY <1>1, FS_Interval
  <2> QED BY <2>1, <1>1, FS_Subset
<1>3. /\ n \in Nat
      /\ at \in [1..n -> I]
      /\ \A j, k \in 1..n : j < k => at[j] < at[k]
      /\ \A x \in I : \E k \in 1..n : at[k] = x
  BY <1>2, SortedSetFacts
<1> HIDE DEF at, n
<1>4. Picked(s, I) = [k \in 1..n |-> s[at[k]]]
  BY <1>3 DEF Picked, at
<1>5. Picked(s, I) \in Seq(T) /\ Len(Picked(s, I)) = n
  <2>1. \A k \in 1..n : s[at[k]] \in T
    BY <1>1, <1>3
  <2> QED BY <2>1, <1>3, <1>4
<1>6. {Picked(s, I)[k] : k \in 1..n} = {s[i] : i \in I}
  BY <1>3, <1>4
<1> QED BY <1>2, <1>3, <1>4, <1>5, <1>6 DEF at, n

\* The places of sorted keys: each once, lesser keys first, equal ones as they were.
LEMMA PlaceOfFacts ==
  ASSUME NEW n \in Nat, NEW keys \in [1..n -> Int]
  PROVE  /\ \A k \in 1..n : PlaceOf(keys, k) \in 1..n
         /\ \A i \in 1..n : \E k \in 1..n : PlaceOf(keys, k) = i
         /\ \A j, k \in 1..n : j < k =>
              \/ keys[PlaceOf(keys, j)] < keys[PlaceOf(keys, k)]
              \/ keys[PlaceOf(keys, j)] = keys[PlaceOf(keys, k)] /\ PlaceOf(keys, j) < PlaceOf(keys, k)
<1> DEFINE D == 1..n
           Before(j, i) == keys[j] < keys[i] \/ (keys[j] = keys[i] /\ j <= i)
           below == [i \in D |-> {j \in D : Before(j, i)}]
           At(k) == CHOOSE i \in D : Cardinality(below[i]) = k
<1>1. IsFiniteSet(D) /\ Cardinality(D) = n
  BY FS_Interval
<1>2. /\ \A i \in D : Cardinality(below[i]) \in 1..n
      /\ \A i, j \in D : Cardinality(below[i]) = Cardinality(below[j]) => i = j
      /\ \A k \in 1..n : \E i \in D : Cardinality(below[i]) = k
  <2>1. below \in [D -> SUBSET D]
    OBVIOUS
  <2>2. \A i \in D : i \in below[i]
    OBVIOUS
  <2>3. \A i, j \in D : i # j => \/ below[i] \subseteq below[j] /\ j \notin below[i]
                                 \/ below[j] \subseteq below[i] /\ i \notin below[j]
    OBVIOUS
  <2> HIDE DEF below, D
  <2> QED BY <2>1, <2>2, <2>3, <1>1, SizesOfAChain
<1>3. \A k \in D : PlaceOf(keys, k) = At(k)
  <2>1. DOMAIN keys = D
    OBVIOUS
  <2>2. \A i \in D : below[i] = {j \in DOMAIN keys : keys[j] < keys[i] \/ (keys[j] = keys[i] /\ j <= i)}
    OBVIOUS
  <2> HIDE DEF below, D
  <2> QED BY <2>1, <2>2 DEF PlaceOf
<1>4. \A k \in D : At(k) \in D /\ Cardinality(below[At(k)]) = k
  <2> HIDE DEF below
  <2> QED BY <1>2
<1>5. ASSUME NEW j \in D, NEW k \in D, j < k PROVE ~Before(At(k), At(j))
  <2>1. At(j) \in D /\ At(k) \in D
    BY <1>4
  <2> HIDE DEF At
  <2>2. SUFFICES ASSUME Before(At(k), At(j)) PROVE FALSE
    OBVIOUS
  <2>3. below[At(k)] \in SUBSET below[At(j)] /\ below[At(j)] \in SUBSET D
    BY <2>1, <2>2
  <2> HIDE DEF below
  <2>4. IsFiniteSet(below[At(j)])
    BY <2>3, <1>1, FS_Subset
  <2>5. Cardinality(below[At(k)]) <= Cardinality(below[At(j)])
    BY <2>3, <2>4, FS_Subset
  <2> QED BY <2>5, <1>4, <1>5
<1>6. \A i \in D : \E k \in D : At(k) = i
  <2> SUFFICES ASSUME NEW i \in D PROVE \E k \in D : At(k) = i
    OBVIOUS
  <2>1. Cardinality(below[i]) \in D
    BY <1>2
  <2> HIDE DEF below, At, D
  <2>2. At(Cardinality(below[i])) = i
    BY <2>1, <1>4, <1>2 DEF D
  <2> QED BY <2>1, <2>2
<1>7. \A j, k \in D : j < k =>
        \/ keys[At(j)] < keys[At(k)]
        \/ keys[At(j)] = keys[At(k)] /\ At(j) < At(k)
  <2> SUFFICES ASSUME NEW j \in D, NEW k \in D, j < k
               PROVE  \/ keys[At(j)] < keys[At(k)]
                      \/ keys[At(j)] = keys[At(k)] /\ At(j) < At(k)
    OBVIOUS
  <2>1. At(j) \in D /\ At(k) \in D
    BY <1>4
  <2>2. ~Before(At(k), At(j))
    BY <1>5
  <2> HIDE DEF At
  <2> QED BY <2>1, <2>2
<1> HIDE DEF At, below, D
<1>8. \A k \in D : PlaceOf(keys, k) \in D
  BY <1>3, <1>4
<1>9. \A i \in D : \E k \in D : PlaceOf(keys, k) = i
  BY <1>3, <1>6
<1> QED BY <1>3, <1>7, <1>8, <1>9 DEF D

\* A prefix holds the first elements, all of them or fewer.
LEMMA PrefixFacts ==
  ASSUME NEW T, NEW s \in Seq(T), NEW n \in Int
  PROVE  /\ Prefix(s, n) \in Seq(T) /\ Len(Prefix(s, n)) <= Len(s)
         /\ \A k \in 1..Len(Prefix(s, n)) : Prefix(s, n)[k] = s[k]
         /\ Elements(Prefix(s, n)) \subseteq Elements(s)
         /\ n >= Len(s) => Prefix(s, n) = s
         /\ n \in 0..Len(s) => Len(Prefix(s, n)) = n
<1> DEFINE m == IF n < 0 THEN Len(s) + n ELSE IF n < Len(s) THEN n ELSE Len(s)
<1>1. Len(s) \in Nat /\ DOMAIN s = 1..Len(s) /\ m \in Int /\ m <= Len(s)
  OBVIOUS
<1>2. Prefix(s, n) = SubSeq(s, 1, m)
  BY DEF Prefix
<1>3. (n >= Len(s) => m = Len(s)) /\ (n \in 0..Len(s) => m = n)
  <2> DEFINE l == Len(s)
  <2>1. l \in Nat
    BY <1>1
  <2> HIDE DEF l
  <2>2. \A i \in Int : LET c == IF i < 0 THEN l + i ELSE IF i < l THEN i ELSE l
                      IN (i >= l => c = l) /\ (i \in 0..l => c = i)
    BY <2>1
  <2> QED BY <2>2 DEF l
<1> HIDE DEF m
<1>5. /\ SubSeq(s, 1, m) \in Seq(T)
      /\ Len(SubSeq(s, 1, m)) = IF 1 <= m THEN m ELSE 0
      /\ \A k \in 1..m : SubSeq(s, 1, m)[k] = s[k]
  BY <1>1
<1>6. Elements(SubSeq(s, 1, m)) \subseteq Elements(s)
  BY <1>1, <1>5 DEF Elements
<1>7. m = Len(s) => SubSeq(s, 1, m) = s
  BY <1>1
<1>8. Prefix(s, n) \in Seq(T) /\ Len(Prefix(s, n)) <= Len(s)
  BY <1>1, <1>2, <1>5
<1>9. \A k \in 1..Len(Prefix(s, n)) : Prefix(s, n)[k] = s[k]
  BY <1>1, <1>2, <1>5
<1>10. n \in 0..Len(s) => Len(Prefix(s, n)) = n
  <2> SUFFICES ASSUME n \in 0..Len(s) PROVE Len(Prefix(s, n)) = n
    OBVIOUS
  <2>1. m = n
    BY <1>3
  <2>2. Len(SubSeq(s, 1, n)) = n
    BY <1>1
  <2> QED BY <2>1, <2>2, <1>2
<1> QED BY <1>2, <1>3, <1>6, <1>7, <1>8, <1>9, <1>10

\* A finite set of integers that is not empty has a greatest element.
LEMMA GreatestExists ==
  ASSUME NEW S \in SUBSET Int, IsFiniteSet(S), S # {}
  PROVE  \E x \in S : \A y \in S : y <= x
<1> DEFINE n == Cardinality(S)
           at == SortedSet(S)
<1>1. /\ n \in Nat
      /\ at \in [1..n -> S]
      /\ \A j, k \in 1..n : j < k => at[j] < at[k]
      /\ \A x \in S : \E k \in 1..n : at[k] = x
  BY SortedSetFacts
<1> HIDE DEF n, at
<1>2. n \in 1..n
  <2>1. PICK k \in 1..n : TRUE
    BY <1>1
  <2> QED BY <1>1, <2>1
<1>3. \A k \in 1..n : k = n \/ k < n
  BY <1>1
<1>4. \A k \in 1..n : at[k] = at[n] \/ at[k] < at[n]
  BY <1>1, <1>2, <1>3
<1>5. at[n] \in S /\ \A y \in S : y <= at[n]
  <2>1. at[n] \in S /\ at[n] \in Int
    BY <1>1, <1>2, S \subseteq Int
  <2>2. ASSUME NEW y \in S PROVE y <= at[n]
    <3>1. PICK k \in 1..n : at[k] = y
      BY <1>1
    <3>2. y \in Int /\ (y = at[n] \/ y < at[n])
      BY <3>1, <1>4, S \subseteq Int
    <3> QED BY <3>2, <2>1
  <2> QED BY <2>1, <2>2
<1> QED BY <1>5

\* Elements that are each of one of three kinds are as many as those of the kinds.
LEMMA ThreeKinds ==
  ASSUME NEW D, IsFiniteSet(D), NEW A \in SUBSET D, NEW B \in SUBSET D, NEW C \in SUBSET D,
         A \union B \union C = D, A \intersect B = {}, A \intersect C = {}, B \intersect C = {}
  PROVE  Cardinality(A) + Cardinality(B) + Cardinality(C) = Cardinality(D)
<1>1. /\ IsFiniteSet(A) /\ IsFiniteSet(B) /\ IsFiniteSet(C) /\ IsFiniteSet(A \union B)
      /\ Cardinality(A) \in Nat /\ Cardinality(B) \in Nat /\ Cardinality(C) \in Nat
      /\ Cardinality(A \union B) \in Nat /\ Cardinality({}) = 0
  <2>1. IsFiniteSet(A) /\ IsFiniteSet(B) /\ IsFiniteSet(C) /\ IsFiniteSet(A \union B)
    BY FS_Subset
  <2> QED BY <2>1, FS_CardinalityType, FS_EmptySet
<1>2. Cardinality(A \union B) = Cardinality(A) + Cardinality(B)
  <2>1. Cardinality(A \intersect B) = 0
    BY FS_EmptySet
  <2>2. Cardinality(A \union B) = Cardinality(A) + Cardinality(B) - Cardinality(A \intersect B)
    BY <1>1, FS_Union
  <2> QED BY <1>1, <2>1, <2>2
<1>3. Cardinality((A \union B) \union C) = Cardinality(A \union B) + Cardinality(C)
  <2>1. Cardinality((A \union B) \intersect C) = 0
    <3>1. (A \union B) \intersect C = {}
      OBVIOUS
    <3> QED BY <3>1, FS_EmptySet
  <2>2. Cardinality((A \union B) \union C)
          = Cardinality(A \union B) + Cardinality(C) - Cardinality((A \union B) \intersect C)
    BY <1>1, FS_Union
  <2> QED BY <1>1, <2>1, <2>2
<1> QED BY <1>2, <1>3
\* A list with one more element.
LEMMA AppendFacts ==
  ASSUME NEW s, s \in Seq(Elements(s)), NEW x
  PROVE  /\ Append(s, x) \in Seq(Elements(Append(s, x)))
         /\ Len(s) \in Nat /\ Len(Append(s, x)) = Len(s) + 1
         /\ DOMAIN s = 1..Len(s) /\ DOMAIN Append(s, x) = 1..(Len(s) + 1)
         /\ \A i \in 1..Len(s) : Append(s, x)[i] = s[i]
         /\ Append(s, x)[Len(s) + 1] = x
<1> DEFINE T == Elements(s) \union {x}
<1>1. s \in Seq(T) /\ x \in T
  <2>1. Elements(s) \subseteq T
    OBVIOUS
  <2> HIDE DEF T
  <2> QED BY <2>1 DEF T
<1> HIDE DEF T
<1>2. /\ Append(s, x) \in Seq(T)
      /\ Len(s) \in Nat /\ Len(Append(s, x)) = Len(s) + 1
      /\ DOMAIN s = 1..Len(s) /\ DOMAIN Append(s, x) = 1..(Len(s) + 1)
      /\ \A i \in 1..Len(s) : Append(s, x)[i] = s[i]
      /\ Append(s, x)[Len(s) + 1] = x
  BY <1>1
<1> DEFINE a == Append(s, x)
<1>3. a \in Seq(Elements(a))
  <2>1. \A i \in 1..Len(a) : a[i] \in Elements(a)
    BY <1>2 DEF Elements
  <2>2. a \in Seq(T)
    BY <1>2
  <2> HIDE DEF a
  <2> QED BY <2>1, <2>2
<1> QED BY <1>2, <1>3

\* A list changed place by place.
LEMMA MappedFacts ==
  ASSUME NEW s, s \in Seq(Elements(s)), NEW t, DOMAIN t = DOMAIN s, t = [i \in DOMAIN s |-> t[i]]
  PROVE  t \in Seq(Elements(t)) /\ Len(t) = Len(s) /\ Len(s) \in Nat /\ DOMAIN s = 1..Len(s)
<1>1. DOMAIN s = 1..Len(s) /\ Len(s) \in Nat
  OBVIOUS
<1>2. \A i \in 1..Len(s) : t[i] \in Elements(t)
  BY <1>1 DEF Elements
<1>3. t = [i \in 1..Len(s) |-> t[i]]
  BY <1>1
<1>4. t \in [1..Len(s) -> Elements(t)]
  BY <1>2, <1>3, Zenon
<1> QED BY <1>1, <1>4
-----------------------------------------------------------------------------
(* Loops *)

\* An element of a set of integers that is as great as any is the maximum.
LEMMA GreatestIsMax ==
  ASSUME NEW S \in SUBSET Int, NEW m \in S, \A y \in S : y <= m
  PROVE  Max(S) = m
<1>1. \A y \in S : y \in Int
  OBVIOUS
<1>2. m \in S /\ \A y \in S : m >= y
  BY <1>1
<1>3. Max(S) \in S /\ \A y \in S : Max(S) >= y
  BY <1>2 DEF Max
<1>4. Max(S) >= m /\ m >= Max(S) /\ m \in Int /\ Max(S) \in Int
  BY <1>1, <1>2, <1>3
<1> QED BY <1>4

\* The state after all turns of a loop over a list, as a left fold has it.
Turns(env, base, s) ==
  LET iter[S \in SUBSET DOMAIN s] ==
        IF S = {} THEN base
        ELSE LET x == Max(S) IN Step(env, iter[S \ {x}], s[x])
  IN iter[DOMAIN s]

\* state holds the states of a loop: before it, and after each of its turns.
StatesOf(state, env, base, s) ==
  /\ DOMAIN state = 0..Len(s)
  /\ state[0] = base
  /\ \A k \in 1..Len(s) : state[k] = Step(env, state[k - 1], s[k])
  /\ Turns(env, base, s) = state[Len(s)]

\* A loop over a list has a state after each turn, made of the one before it.
LEMMA TurnsFacts ==
  ASSUME NEW env, NEW base, NEW T, NEW s \in Seq(T)
  PROVE  \E state : StatesOf(state, env, base, s)
<1> DEFINE Turn(f, S) == IF S = {} THEN base ELSE LET x == Max(S) IN Step(env, f[S \ {x}], s[x])
           IsLoop(f, n) == f = [S \in SUBSET (1..n) |-> Turn(f, S)]
           Exist == {n \in Nat : \E f : IsLoop(f, n)}
<1>1. 0 \in Exist
  <2> DEFINE f == [S \in SUBSET (1..0) |-> base]
  <2>1. f = [S \in SUBSET (1..0) |-> Turn(f, S)]
    OBVIOUS
  <2> QED BY <2>1
<1>2. \A n \in Nat : n \in Exist => n + 1 \in Exist
  <2> SUFFICES ASSUME NEW n \in Nat, n \in Exist PROVE \E f : IsLoop(f, n + 1)
    <3> HIDE DEF IsLoop
    <3> QED OBVIOUS
  <2>1. PICK f : IsLoop(f, n)
    OBVIOUS
  <2> DEFINE g == [S \in SUBSET (1..(n + 1)) |->
                    IF n + 1 \in S THEN Step(env, f[S \ {n + 1}], s[n + 1]) ELSE f[S]]
  <2>2. ASSUME NEW S \in SUBSET (1..(n + 1)) PROVE g[S] = Turn(g, S)
    <3>1. CASE n + 1 \in S
      <4>1. Max(S) = n + 1
        <5>1. S \in SUBSET Int /\ \A y \in S : y <= n + 1
          OBVIOUS
        <5> QED BY ONLY <5>1, <3>1, GreatestIsMax
      <4>2. S \ {n + 1} \in SUBSET (1..(n + 1)) /\ g[S \ {n + 1}] = f[S \ {n + 1}]
        OBVIOUS
      <4>3. g[S] = Step(env, f[S \ {n + 1}], s[n + 1])
        BY <3>1
      <4> HIDE DEF g
      <4> QED BY <3>1, <4>1, <4>2, <4>3
    <3>2. CASE n + 1 \notin S
      <4>1. S \in SUBSET (1..n)
        BY <3>2
      <4>2. g[S] = f[S] /\ f[S] = Turn(f, S)
        BY <2>1, <3>2, <4>1
      <4>3. CASE S = {}
        BY <4>2, <4>3
      <4>4. CASE S # {}
        <5>1. S \ {Max(S)} \in SUBSET (1..(n + 1)) /\ n + 1 \notin S \ {Max(S)}
          BY <3>2
        <5>2. g[S \ {Max(S)}] = f[S \ {Max(S)}]
          BY <5>1
        <5> HIDE DEF g
        <5> QED BY <4>2, <4>4, <5>2
      <4> QED BY <4>3, <4>4
    <3> QED BY <3>1, <3>2
  <2>3. g = [S \in SUBSET (1..(n + 1)) |-> Turn(g, S)]
    BY <2>2
  <2> QED BY <2>3
<1>3. DOMAIN s = 1..Len(s) /\ Len(s) \in Nat
  OBVIOUS
<1>4. \E f : IsLoop(f, Len(s))
  <2> HIDE DEF IsLoop
  <2>1. Nat \subseteq Exist
    <3> HIDE DEF Exist
    <3> QED BY ONLY <1>1, <1>2, Induction
  <2> QED BY <2>1, <1>3
<1> DEFINE iter == CHOOSE f : IsLoop(f, Len(s))
<1>5. IsLoop(iter, Len(s))
  BY <1>4
<1>6. Turns(env, base, s) = iter[1..Len(s)]
  BY <1>3 DEF Turns
<1> HIDE DEF iter
<1> DEFINE state == [k \in 0..Len(s) |-> iter[1..k]]
<1>7. state[0] = base
  BY <1>3, <1>5
<1>8. ASSUME NEW k \in 1..Len(s) PROVE state[k] = Step(env, state[k - 1], s[k])
  <2>1. /\ 1..k \in SUBSET (1..Len(s)) /\ 1..k # {}
        /\ 1..k \in SUBSET Int /\ k \in 1..k /\ \A y \in 1..k : y <= k
        /\ (1..k) \ {k} = 1..(k - 1)
    <3>1. k \in Nat /\ 1 <= k /\ k <= Len(s)
      BY <1>3
    <3>2. \A y \in 1..k : y \in 1..Len(s) /\ y \in Int /\ y <= k
      BY <3>1, <1>3
    <3>3. k \in 1..k /\ (1..k) \ {k} = 1..(k - 1)
      BY <3>1
    <3> QED BY <3>2, <3>3
  <2>2. Max(1..k) = k
    BY ONLY <2>1, GreatestIsMax
  <2>3. iter[1..k] = Turn(iter, 1..k)
    BY <1>5, <2>1
  <2>4. iter[1..k] = Step(env, iter[1..(k - 1)], s[k])
    BY <2>1, <2>2, <2>3
  <2> QED BY <1>3, <2>4
<1>9. DOMAIN state = 0..Len(s) /\ Turns(env, base, s) = state[Len(s)]
  BY <1>3, <1>6
<1> HIDE DEF state
<1>10. StatesOf(state, env, base, s)
  BY <1>7, <1>8, <1>9 DEF StatesOf
<1> QED BY <1>10

\* The states of a loop are also those of the loops over the list's prefixes.
LEMMA LoopFacts ==
  ASSUME NEW env, NEW base, NEW T, NEW s \in Seq(T)
  PROVE  \E state : /\ StatesOf(state, env, base, s)
                    /\ \A i \in 0..Len(s) : Turns(env, base, Prefix(s, i)) = state[i]
<1>1. PICK state : StatesOf(state, env, base, s)
  BY TurnsFacts
<1>2. Len(s) \in Nat
  OBVIOUS
<1>3. ASSUME NEW i \in Nat, i <= Len(s), NEW p \in Seq(T), Len(p) = i, \A k \in 1..i : p[k] = s[k]
      PROVE  Turns(env, base, p) = state[i]
  <2>2. PICK part : StatesOf(part, env, base, p)
    BY TurnsFacts
  <2> DEFINE Same == {k \in Nat : k <= i => part[k] = state[k]}
  <2>3. 0 \in Same
    BY <1>1, <2>2 DEF StatesOf
  <2>4. \A k \in Nat : k \in Same => k + 1 \in Same
    <3> SUFFICES ASSUME NEW k \in Nat, k \in Same, k + 1 <= i PROVE part[k + 1] = state[k + 1]
      OBVIOUS
    <3>1. k <= i /\ k + 1 \in 1..i /\ k + 1 \in 1..Len(s) /\ (k + 1) - 1 = k
      BY <1>2, <1>3
    <3>2. part[k] = state[k] /\ p[k + 1] = s[k + 1]
      BY <1>3, <3>1
    <3>3. part[k + 1] = Step(env, part[k], p[k + 1])
      BY <1>3, <2>2, <3>1 DEF StatesOf
    <3>4. state[k + 1] = Step(env, state[k], s[k + 1])
      BY <1>1, <3>1 DEF StatesOf
    <3> QED BY <3>2, <3>3, <3>4
  <2>5. Nat \subseteq Same
    <3> HIDE DEF Same
    <3> QED BY ONLY <2>3, <2>4, Induction
  <2> QED BY <1>3, <2>2, <2>5 DEF StatesOf
<1>4. ASSUME NEW i \in 0..Len(s) PROVE Turns(env, base, Prefix(s, i)) = state[i]
  <2>1. i \in Nat /\ i \in Int /\ i <= Len(s)
    BY <1>2
  <2>2. Prefix(s, i) \in Seq(T) /\ Len(Prefix(s, i)) = i /\ \A k \in 1..i : Prefix(s, i)[k] = s[k]
    BY <1>2, <2>1, PrefixFacts
  <2> QED BY <1>3, <2>1, <2>2
<1> QED BY <1>1, <1>4

\* The first that is picked has the least place of all.
LEMMA FirstPicked ==
  ASSUME NEW T, NEW s \in Seq(T), NEW I \in SUBSET DOMAIN s, NEW m \in I, \A i \in I : m <= i
  PROVE  Len(Picked(s, I)) >= 1 /\ Picked(s, I)[1] = s[m]
<1>1. /\ Cardinality(I) \in Nat /\ Len(Picked(s, I)) = Cardinality(I)
      /\ \A k \in 1..Cardinality(I) : SortedSet(I)[k] \in I /\ Picked(s, I)[k] = s[SortedSet(I)[k]]
      /\ \A j, k \in 1..Cardinality(I) : j < k => SortedSet(I)[j] < SortedSet(I)[k]
      /\ \A i \in I : \E k \in 1..Cardinality(I) : SortedSet(I)[k] = i
  BY PickedFacts
<1>2. \A i \in I : i \in Int
  OBVIOUS
<1>3. PICK k \in 1..Cardinality(I) : SortedSet(I)[k] = m
  BY <1>1
<1>4. 1 \in 1..Cardinality(I)
  BY <1>1, <1>3
<1>5. k = 1
  <2>1. SortedSet(I)[1] \in I /\ m <= SortedSet(I)[1]
    BY <1>1, <1>4
  <2>2. ~(SortedSet(I)[1] < m)
    BY <2>1, <1>2
  <2> QED BY <1>1, <1>3, <1>4, <2>2
<1> QED BY <1>1, <1>3, <1>4, <1>5
-----------------------------------------------------------------------------
(* Sums *)

\* A sum of natural numbers is one, and positive exactly when one of them is.
LEMMA SumFacts ==
  ASSUME NEW t \in Seq(Nat)
  PROVE  ListSum(t) \in Nat /\ (ListSum(t) > 0 <=> \E i \in DOMAIN t : t[i] > 0)
<1> DEFINE IsSum(f, n) == f = [k \in 0..n |-> IF k = 0 THEN 0 ELSE f[k - 1] + t[k]]
           Exist == {n \in Nat : \E f : IsSum(f, n)}
           N == Len(t)
<1>1. N \in Nat /\ DOMAIN t = 1..N /\ \A k \in 1..N : t[k] \in Nat
  OBVIOUS
<1>2. 0 \in Exist
  <2> DEFINE f == [k \in 0..0 |-> 0]
  <2>1. f = [k \in 0..0 |-> IF k = 0 THEN 0 ELSE f[k - 1] + t[k]]
    OBVIOUS
  <2> QED BY <2>1
<1>3. \A n \in Nat : n \in Exist => n + 1 \in Exist
  <2> SUFFICES ASSUME NEW n \in Nat, n \in Exist PROVE \E f : IsSum(f, n + 1)
    <3> HIDE DEF IsSum
    <3> QED OBVIOUS
  <2>1. PICK f : IsSum(f, n)
    OBVIOUS
  <2> DEFINE g == [k \in 0..(n + 1) |-> IF k = n + 1 THEN f[n] + t[n + 1] ELSE f[k]]
  <2>2. ASSUME NEW k \in 0..(n + 1) PROVE g[k] = IF k = 0 THEN 0 ELSE g[k - 1] + t[k]
    BY <2>1
  <2>3. IsSum(g, n + 1)
    BY <2>2
  <2> QED BY <2>3
<1>4. \E f : IsSum(f, N)
  <2> HIDE DEF IsSum
  <2>1. Nat \subseteq Exist
    <3> HIDE DEF Exist
    <3> QED BY ONLY <1>2, <1>3, Induction
  <2> QED BY <2>1, <1>1
<1> DEFINE upTo == CHOOSE f : IsSum(f, N)
<1>5. IsSum(upTo, N)
  BY <1>4
<1>6. ListSum(t) = upTo[N]
  BY DEF ListSum
<1> HIDE DEF upTo
<1> DEFINE Good == {k \in Nat : k <= N => /\ upTo[k] \in Nat
                                        /\ (upTo[k] > 0 <=> \E i \in 1..k : t[i] > 0)}
<1>7. 0 \in Good
  BY <1>1, <1>5
<1>8. \A k \in Nat : k \in Good => k + 1 \in Good
  <2> SUFFICES ASSUME NEW k \in Nat, k \in Good, k + 1 <= N
               PROVE  /\ upTo[k + 1] \in Nat
                      /\ (upTo[k + 1] > 0 <=> \E i \in 1..(k + 1) : t[i] > 0)
    OBVIOUS
  <2>1. upTo[k + 1] = upTo[k] + t[k + 1]
    BY <1>1, <1>5
  <2>2. upTo[k] \in Nat /\ t[k + 1] \in Nat /\ (upTo[k] > 0 <=> \E i \in 1..k : t[i] > 0)
    BY <1>1
  <2>3. 1..(k + 1) = 1..k \union {k + 1}
    OBVIOUS
  <2> QED BY <2>1, <2>2, <2>3
<1>9. Nat \subseteq Good
  <2> HIDE DEF Good
  <2> QED BY ONLY <1>7, <1>8, Induction
<1>10. upTo[N] \in Nat /\ (upTo[N] > 0 <=> \E i \in 1..N : t[i] > 0)
  BY <1>1, <1>9
<1> HIDE DEF Good
<1> QED BY <1>1, <1>6, <1>10
-----------------------------------------------------------------------------
(* Lists of lists *)

\* The list j of the lists of t: row and col say of each of its places which
\* list it is from and which place there.
IsJoined(j, t, row, col) ==
  /\ DOMAIN row = DOMAIN j /\ DOMAIN col = DOMAIN j
  /\ \A k \in DOMAIN j : row[k] \in DOMAIN t /\ col[k] \in DOMAIN t[row[k]] /\ j[k] = t[row[k]][col[k]]
  /\ \A k, l \in DOMAIN j : row[k] = row[l] /\ col[k] = col[l] => k = l
  /\ \A c \in DOMAIN t : \A d \in DOMAIN t[c] : \E k \in DOMAIN j : row[k] = c /\ col[k] = d

\* One list more.
LEMMA OneMore ==
  ASSUME NEW G, NEW t \in Seq(Seq(G)), NEW n \in Nat, n + 1 <= Len(t), NEW j \in Seq(G), NEW row, NEW col,
         IsJoined(j, SubSeq(t, 1, n), row, col)
  PROVE  \E r, c : IsJoined(j \o t[n + 1], SubSeq(t, 1, n + 1), r, c)
<1> DEFINE x == t[n + 1]
           m == Len(j)
           more == j \o x
           r == [k \in DOMAIN more |-> IF k <= m THEN row[k] ELSE n + 1]
           c == [k \in DOMAIN more |-> IF k <= m THEN col[k] ELSE k - m]
           p == SubSeq(t, 1, n)
           q == SubSeq(t, 1, n + 1)
<1>1. /\ DOMAIN p = 1..n /\ \A i \in 1..n : p[i] = t[i]
      /\ DOMAIN q = 1..(n + 1) /\ \A i \in 1..(n + 1) : q[i] = t[i]
  OBVIOUS
<1>2. x \in Seq(G) /\ DOMAIN x = 1..Len(x) /\ Len(x) \in Nat /\ DOMAIN j = 1..m /\ m \in Nat
  OBVIOUS
<1>3. /\ DOMAIN more = 1..(m + Len(x))
      /\ \A k \in 1..m : more[k] = j[k]
      /\ \A d \in 1..Len(x) : more[m + d] = x[d]
  BY <1>2
<1>4. \A i \in 1..n : q[i] = p[i] /\ q[n + 1] = x
  BY <1>1
<1> HIDE DEF x, p, q, more
<1>5. \A k \in DOMAIN more : \/ k \in 1..m /\ r[k] = row[k] /\ c[k] = col[k]
                             \/ k - m \in 1..Len(x) /\ ~(k <= m) /\ r[k] = n + 1 /\ c[k] = k - m
  BY <1>2, <1>3
<1>6. \A k \in 1..m : k \in DOMAIN more /\ r[k] = row[k] /\ c[k] = col[k]
  BY <1>2, <1>3
<1>7. \A d \in 1..Len(x) : m + d \in DOMAIN more /\ r[m + d] = n + 1 /\ c[m + d] = d
  BY <1>2, <1>3
<1>8. DOMAIN r = DOMAIN more /\ DOMAIN c = DOMAIN more
  OBVIOUS
<1> HIDE DEF r, c
<1>9. \A k \in 1..m : row[k] \in 1..n /\ col[k] \in DOMAIN p[row[k]] /\ j[k] = p[row[k]][col[k]]
  BY <1>1, <1>2 DEF IsJoined, p
<1>10. \A k \in DOMAIN more : r[k] \in DOMAIN q /\ c[k] \in DOMAIN q[r[k]] /\ more[k] = q[r[k]][c[k]]
  <2> SUFFICES ASSUME NEW k \in DOMAIN more
               PROVE  r[k] \in DOMAIN q /\ c[k] \in DOMAIN q[r[k]] /\ more[k] = q[r[k]][c[k]]
    OBVIOUS
  <2>0. DOMAIN q = 1..(n + 1)
    BY <1>1 DEF q
  <2>1. CASE k \in 1..m /\ r[k] = row[k] /\ c[k] = col[k]
    <3>1. row[k] \in 1..n /\ row[k] \in 1..(n + 1) /\ q[row[k]] = p[row[k]]
      BY <2>1, <1>9, <1>4
    <3> QED BY <2>0, <2>1, <3>1, <1>3, <1>9
  <2>2. CASE k - m \in 1..Len(x) /\ ~(k <= m) /\ r[k] = n + 1 /\ c[k] = k - m
    <3>1. q[n + 1] = x /\ n + 1 \in 1..(n + 1)
      BY <1>1 DEF q, x
    <3>2. more[m + (k - m)] = x[k - m] /\ m + (k - m) = k
      BY <1>2, <1>3, <2>2
    <3> QED BY <2>0, <2>2, <3>1, <3>2, <1>2
  <2> QED BY <1>5, <2>1, <2>2
<1>11. \A k, l \in DOMAIN more : r[k] = r[l] /\ c[k] = c[l] => k = l
  <2> SUFFICES ASSUME NEW k \in DOMAIN more, NEW l \in DOMAIN more, r[k] = r[l], c[k] = c[l] PROVE k = l
    OBVIOUS
  <2>1. k \in Int /\ l \in Int
    BY <1>2, <1>3
  <2>2. \A i \in 1..m : row[i] # n + 1
    BY <1>9
  <2>3. \A i, h \in 1..m : row[i] = row[h] /\ col[i] = col[h] => i = h
    BY <1>2 DEF IsJoined
  <2>4. CASE k \in 1..m /\ l \in 1..m
    BY <2>3, <2>4, <1>6
  <2>5. CASE k \in 1..m /\ ~(l \in 1..m)
    BY <2>2, <2>5, <1>5, <1>6
  <2>6. CASE ~(k \in 1..m) /\ l \in 1..m
    BY <2>2, <2>6, <1>5, <1>6
  <2>7. CASE ~(k \in 1..m) /\ ~(l \in 1..m)
    <3>1. k - m = c[k] /\ l - m = c[l] /\ c[k] = c[l]
      BY <2>7, <1>5
    <3> QED BY <3>1, <2>1, <1>2
  <2> QED BY <2>4, <2>5, <2>6, <2>7
<1>12. \A i \in DOMAIN q : \A d \in DOMAIN q[i] : \E k \in DOMAIN more : r[k] = i /\ c[k] = d
  <2> SUFFICES ASSUME NEW i \in 1..(n + 1), NEW d \in DOMAIN q[i]
               PROVE  \E k \in DOMAIN more : r[k] = i /\ c[k] = d
    BY <1>1 DEF q
  <2>1. CASE i = n + 1
    <3>1. q[i] = x
      BY <2>1, <1>1 DEF q, x
    <3> QED BY <2>1, <3>1, <1>2, <1>7
  <2>2. CASE i \in 1..n
    <3>1. \E k \in DOMAIN j : row[k] = i /\ col[k] = d
      <4>1. i \in DOMAIN p /\ d \in DOMAIN p[i]
        BY <2>2, <1>1, <1>4 DEF p
      <4> QED BY <4>1 DEF IsJoined, p
    <3> QED BY <3>1, <1>2, <1>6
  <2> QED BY <2>1, <2>2
<1>13. IsJoined(more, q, r, c)
  BY <1>8, <1>10, <1>11, <1>12 DEF IsJoined
<1> QED BY <1>13 DEF more, q, x

\* Lists one after the other: each of their elements once, at places of their own.
LEMMA JoinedFacts ==
  ASSUME NEW G, NEW t \in Seq(Seq(G))
  PROVE  Joined(t) \in Seq(G) /\ \E row, col : IsJoined(Joined(t), t, row, col)
<1> DEFINE IsUpTo(f, n) == f = [k \in 0..n |-> IF k = 0 THEN <<>> ELSE f[k - 1] \o t[k]]
           Exist == {n \in Nat : \E f : IsUpTo(f, n)}
           N == Len(t)
<1>1. N \in Nat /\ DOMAIN t = 1..N /\ \A k \in 1..N : t[k] \in Seq(G)
  OBVIOUS
<1>2. 0 \in Exist
  <2> DEFINE f == [k \in 0..0 |-> <<>>]
  <2>1. f = [k \in 0..0 |-> IF k = 0 THEN <<>> ELSE f[k - 1] \o t[k]]
    OBVIOUS
  <2> QED BY <2>1
<1>3. \A n \in Nat : n \in Exist => n + 1 \in Exist
  <2> SUFFICES ASSUME NEW n \in Nat, n \in Exist PROVE \E f : IsUpTo(f, n + 1)
    <3> HIDE DEF IsUpTo
    <3> QED OBVIOUS
  <2>1. PICK f : IsUpTo(f, n)
    OBVIOUS
  <2> DEFINE g == [k \in 0..(n + 1) |-> IF k = n + 1 THEN f[n] \o t[n + 1] ELSE f[k]]
  <2>2. ASSUME NEW k \in 0..(n + 1) PROVE g[k] = IF k = 0 THEN <<>> ELSE g[k - 1] \o t[k]
    <3>1. k \in 0..n => f[k] = IF k = 0 THEN <<>> ELSE f[k - 1] \o t[k]
      BY <2>1
    <3>2. CASE k = n + 1
      <4>1. n + 1 \in 0..(n + 1) /\ n \in 0..(n + 1) /\ n # n + 1 /\ k - 1 = n /\ k # 0
        BY <3>2
      <4>2. g[n + 1] = f[n] \o t[n + 1] /\ g[n] = f[n]
        BY <4>1
      <4> HIDE DEF g
      <4> QED BY <4>1, <4>2, <3>2
    <3>3. CASE k \in 0..n
      <4>1. g[k] = f[k] /\ (k # 0 => g[k - 1] = f[k - 1])
        BY <3>3
      <4> HIDE DEF g
      <4> QED BY <4>1, <3>1, <3>3
    <3> QED BY <3>2, <3>3
  <2>3. IsUpTo(g, n + 1)
    BY <2>2
  <2> QED BY <2>3
<1>4. \E f : IsUpTo(f, N)
  <2> HIDE DEF IsUpTo
  <2>1. Nat \subseteq Exist
    <3> HIDE DEF Exist
    <3> QED BY ONLY <1>2, <1>3, Induction
  <2> QED BY <2>1, <1>1
<1> DEFINE upTo == CHOOSE f : IsUpTo(f, N)
<1>5. IsUpTo(upTo, N)
  BY <1>4
<1>6. Joined(t) = upTo[N]
  BY DEF Joined
<1> HIDE DEF upTo
<1> DEFINE Places(n) == \E row, col : IsJoined(upTo[n], SubSeq(t, 1, n), row, col)
           Done == {n \in Nat : n <= N => upTo[n] \in Seq(G) /\ Places(n)}
<1>7. 0 \in Done
  <2>1. upTo[0] = <<>>
    BY <1>1, <1>5
  <2>2. SubSeq(t, 1, 0) = <<>>
    BY <1>1
  <2>3. IsJoined(<<>>, <<>>, <<>>, <<>>)
    BY DEF IsJoined
  <2>4. Places(0)
    <3>1. IsJoined(upTo[0], SubSeq(t, 1, 0), <<>>, <<>>)
      BY <2>1, <2>2, <2>3, Zenon
    <3> QED BY <3>1, Zenon
  <2>5. upTo[0] \in Seq(G)
    BY <2>1
  <2> HIDE DEF Places
  <2> QED BY <2>4, <2>5
<1>8. \A n \in Nat : n \in Done => n + 1 \in Done
  <2> SUFFICES ASSUME NEW n \in Nat, n \in Done, n + 1 <= N
               PROVE  upTo[n + 1] \in Seq(G) /\ Places(n + 1)
    <3> HIDE DEF Places
    <3> QED OBVIOUS
  <2>1. upTo[n + 1] = upTo[n] \o t[n + 1]
    <3>1. n + 1 \in 0..N /\ n + 1 # 0 /\ (n + 1) - 1 = n
      BY <1>1
    <3>2. upTo[n + 1] = IF n + 1 = 0 THEN <<>> ELSE upTo[(n + 1) - 1] \o t[n + 1]
      BY <1>5, <3>1
    <3> QED BY <3>1, <3>2
  <2>2. upTo[n] \in Seq(G) /\ Places(n)
    <3> HIDE DEF Places
    <3> QED BY <1>1
  <2>3. PICK row, col : IsJoined(upTo[n], SubSeq(t, 1, n), row, col)
    BY <2>2
  <2>4. \E r, c : IsJoined(upTo[n] \o t[n + 1], SubSeq(t, 1, n + 1), r, c)
    BY <2>2, <2>3, OneMore
  <2> QED BY <2>1, <2>2, <2>4, <1>1
<1>9. Nat \subseteq Done
  <2> HIDE DEF Done
  <2> QED BY ONLY <1>7, <1>8, Induction
<1>10. upTo[N] \in Seq(G) /\ Places(N)
  <2> HIDE DEF Places
  <2> QED BY <1>1, <1>9
<1>11. SubSeq(t, 1, N) = t
  BY <1>1
<1> QED BY <1>6, <1>10, <1>11

\* A list with one element more at its end.
LEMMA ElementsAppend ==
  ASSUME NEW T, NEW l \in Seq(T), NEW x
  PROVE  /\ DOMAIN Append(l, x) = 1..(Len(l) + 1) /\ Len(Append(l, x)) = Len(l) + 1
         /\ Append(l, x)[Len(l) + 1] = x /\ \A i \in 1..Len(l) : Append(l, x)[i] = l[i]
         /\ Elements(Append(l, x)) = Elements(l) \union {x}
<1>1. l \in Seq(T \union {x}) /\ x \in T \union {x}
  OBVIOUS
<1> DEFINE a == Append(l, x)
           n == Len(l)
<1>2. n \in Nat /\ DOMAIN l = 1..n
  OBVIOUS
<1>3. DOMAIN a = 1..(n + 1) /\ Len(a) = n + 1 /\ a[n + 1] = x /\ \A i \in 1..n : a[i] = l[i]
  BY <1>1
<1> HIDE DEF a
<1>4. 1..(n + 1) = 1..n \union {n + 1}
  BY <1>2
<1>5. Elements(a) = Elements(l) \union {x}
  BY <1>2, <1>3, <1>4 DEF Elements
<1> QED BY <1>3, <1>5 DEF a

\* The list r is s in the order of its keys: at says where each element is from.
InKeyOrder(r, s, keys, at) ==
  /\ \A k \in DOMAIN s : at[k] \in DOMAIN s /\ r[k] = s[at[k]]
  /\ \A i \in DOMAIN s : \E k \in DOMAIN s : at[k] = i
  /\ \A j, k \in DOMAIN s : j # k => at[j] # at[k]
  /\ \A j, k \in DOMAIN s : j < k => keys[at[j]] <= keys[at[k]]

\* A sorted list has the elements of the list it is made of, each as often, and
\* in the order of their keys.
LEMMA SortFacts ==
  ASSUME NEW T, NEW s \in Seq(T), NEW keys, DOMAIN keys = DOMAIN s, \A i \in DOMAIN s : keys[i] \in Int,
         NEW r, DOMAIN r = DOMAIN s, \A k \in DOMAIN s : r[k] = s[PlaceOf(keys, k)]
  PROVE  Elements(r) = Elements(s) /\ \E at : InKeyOrder(r, s, keys, at)
<1> DEFINE n == Len(s)
           k0 == [i \in 1..n |-> keys[i]]
<1>1. n \in Nat /\ DOMAIN s = 1..n /\ \A i \in 1..n : s[i] \in T
  OBVIOUS
<1>2. k0 \in [1..n -> Int] /\ \A i \in 1..n : k0[i] = keys[i]
  BY <1>1
<1>3. \A k : PlaceOf(k0, k) = PlaceOf(keys, k)
  <2>1. DOMAIN k0 = DOMAIN keys
    BY <1>1
  <2> SUFFICES ASSUME NEW k PROVE PlaceOf(k0, k) = PlaceOf(keys, k)
    OBVIOUS
  <2>2. \A i \in DOMAIN keys : {j \in DOMAIN keys : keys[j] < keys[i] \/ (keys[j] = keys[i] /\ j <= i)}
                               = {j \in DOMAIN k0 : k0[j] < k0[i] \/ (k0[j] = k0[i] /\ j <= i)}
    BY <1>1, <1>2, <2>1
  <2> HIDE DEF k0
  <2> QED BY <2>1, <2>2 DEF PlaceOf
<1> HIDE DEF k0, n
<1>4. /\ \A k \in 1..n : PlaceOf(keys, k) \in 1..n
      /\ \A i \in 1..n : \E k \in 1..n : PlaceOf(keys, k) = i
      /\ \A j, k \in 1..n : j < k =>
              \/ keys[PlaceOf(keys, j)] < keys[PlaceOf(keys, k)]
              \/ keys[PlaceOf(keys, j)] = keys[PlaceOf(keys, k)] /\ PlaceOf(keys, j) < PlaceOf(keys, k)
  <2>1. /\ \A k \in 1..n : PlaceOf(k0, k) \in 1..n
        /\ \A i \in 1..n : \E k \in 1..n : PlaceOf(k0, k) = i
        /\ \A j, k \in 1..n : j < k =>
              \/ k0[PlaceOf(k0, j)] < k0[PlaceOf(k0, k)]
              \/ k0[PlaceOf(k0, j)] = k0[PlaceOf(k0, k)] /\ PlaceOf(k0, j) < PlaceOf(k0, k)
    BY <1>1, <1>2, PlaceOfFacts
  <2>2. \A k : PlaceOf(keys, k) = PlaceOf(k0, k)
    BY <1>3
  <2>3. \A j, k \in 1..n : j < k =>
              \/ keys[PlaceOf(k0, j)] < keys[PlaceOf(k0, k)]
              \/ keys[PlaceOf(k0, j)] = keys[PlaceOf(k0, k)] /\ PlaceOf(k0, j) < PlaceOf(k0, k)
    BY ONLY <2>1, <1>2
  <2>4. \A k \in 1..n : PlaceOf(keys, k) \in 1..n
    BY ONLY <2>1, <2>2, Zenon
  <2>5. \A i \in 1..n : \E k \in 1..n : PlaceOf(keys, k) = i
    BY ONLY <2>1, <2>2, Zenon
  <2>6. ASSUME NEW j \in 1..n, NEW k \in 1..n, j < k
        PROVE  \/ keys[PlaceOf(keys, j)] < keys[PlaceOf(keys, k)]
               \/ keys[PlaceOf(keys, j)] = keys[PlaceOf(keys, k)] /\ PlaceOf(keys, j) < PlaceOf(keys, k)
    <3>1. PlaceOf(keys, j) = PlaceOf(k0, j) /\ PlaceOf(keys, k) = PlaceOf(k0, k)
      BY ONLY <2>2
    <3>2. \/ keys[PlaceOf(k0, j)] < keys[PlaceOf(k0, k)]
          \/ keys[PlaceOf(k0, j)] = keys[PlaceOf(k0, k)] /\ PlaceOf(k0, j) < PlaceOf(k0, k)
      BY <2>3, <2>6
    <3> QED BY ONLY <3>1, <3>2, Zenon
  <2> QED BY ONLY <2>4, <2>5, <2>6
<1> DEFINE at == [k \in 1..n |-> PlaceOf(keys, k)]
<1>5. /\ at \in [1..n -> 1..n] /\ \A k \in 1..n : at[k] = PlaceOf(keys, k) /\ at[k] \in 1..n
      /\ \A i \in 1..n : \E k \in 1..n : at[k] = i
  BY <1>4
<1>6. \A k \in 1..n : r[k] = s[at[k]] /\ r[k] \in T
  BY <1>1, <1>5
<1>7. Elements(r) = Elements(s)
  <2>1. \A x \in Elements(r) : x \in Elements(s)
    BY <1>1, <1>5, <1>6 DEF Elements
  <2>2. \A x \in Elements(s) : x \in Elements(r)
    <3> SUFFICES ASSUME NEW i \in 1..n PROVE s[i] \in Elements(r)
      BY <1>1 DEF Elements
    <3>1. PICK k \in 1..n : at[k] = i
      BY <1>5
    <3>2. r[k] = s[i] /\ k \in DOMAIN r
      BY <3>1, <1>1, <1>6
    <3> QED BY <3>2 DEF Elements
  <2> QED BY <2>1, <2>2
<1> HIDE DEF at
<1>8. ASSUME NEW j \in 1..n, NEW k \in 1..n, j < k PROVE keys[at[j]] <= keys[at[k]] /\ at[j] # at[k]
  <2>1. \/ keys[at[j]] < keys[at[k]]
        \/ keys[at[j]] = keys[at[k]] /\ at[j] < at[k]
    <3>1. at[j] = PlaceOf(keys, j) /\ at[k] = PlaceOf(keys, k)
      BY <1>5
    <3>2. \/ keys[PlaceOf(keys, j)] < keys[PlaceOf(keys, k)]
          \/ keys[PlaceOf(keys, j)] = keys[PlaceOf(keys, k)] /\ PlaceOf(keys, j) < PlaceOf(keys, k)
      BY <1>4, <1>8
    <3> QED BY <3>1, <3>2, Zenon
  <2>2. keys[at[j]] \in Int /\ keys[at[k]] \in Int /\ at[j] \in Int /\ at[k] \in Int
    BY <1>1, <1>5
  <2> QED BY <2>1, <2>2
<1>9. \A j, k \in 1..n : j # k => at[j] # at[k]
  <2>1. \A j, k \in 1..n : j # k => j < k \/ k < j
    BY <1>1
  <2> QED BY <2>1, <1>8
<1>10. InKeyOrder(r, s, keys, at)
  BY <1>1, <1>5, <1>6, <1>8, <1>9 DEF InKeyOrder
<1> QED BY <1>7, <1>10

\* The elements of what is picked.
LEMMA PickedElements ==
  ASSUME NEW T, NEW s \in Seq(T), NEW I \in SUBSET DOMAIN s
  PROVE  DOMAIN Picked(s, I) = 1..Cardinality(I) /\ Elements(Picked(s, I)) = {s[i] : i \in I}
<1> DEFINE at == SortedSet(I)
           n == Cardinality(I)
           r == Picked(s, I)
<1>1. /\ n \in Nat /\ r \in Seq(T) /\ Len(r) = n
      /\ \A k \in 1..n : at[k] \in I /\ r[k] = s[at[k]]
      /\ \A i \in I : \E k \in 1..n : at[k] = i
  BY PickedFacts
<1> HIDE DEF at, n, r
<1>2. DOMAIN r = 1..n
  BY <1>1
<1>3. \A x \in Elements(r) : x \in {s[i] : i \in I}
  BY <1>1, <1>2 DEF Elements
<1>4. ASSUME NEW i \in I PROVE s[i] \in Elements(r)
  <2>1. PICK k \in 1..n : at[k] = i
    BY <1>1
  <2>2. k \in DOMAIN r /\ r[k] = s[i]
    BY <1>1, <1>2, <2>1
  <2> QED BY <2>2 DEF Elements
<1>5. Elements(r) = {s[i] : i \in I}
  BY <1>3, <1>4
<1> QED BY <1>2, <1>5 DEF r, n
=============================================================================
