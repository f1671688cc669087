------------------------------- MODULE Lists -------------------------------
(***************************************************************************)
(* What Python's lists and dictionaries do and the community modules do    *)
(* not name: the stable sort, the first minimum of a list, the dictionary  *)
(* built from a list of pairs, list comprehensions.  A list is a sequence, *)
(* a dictionary is a function, and names whose order the code uses are     *)
(* integers.                                                               *)
(***************************************************************************)
EXTENDS Integers, Sequences, FiniteSets

\* [F(x) for x in s].
Mapped(s, F(_)) == [i \in DOMAIN s |-> F(s[i])]

\* A set of integers, sorted.
SortedSet(S) == [k \in 1..Cardinality(S) |->
                   CHOOSE x \in S : Cardinality({y \in S : y <= x}) = k]

\* The elements of s at the places in I, in order.
Picked(s, I) == LET at == SortedSet(I) IN [k \in DOMAIN at |-> s[at[k]]]

\* The elements of s that satisfy Keep, in order.
Filter(s, Keep(_)) == Picked(s, {i \in DOMAIN s : Keep(s[i])})

\* The place of the element with the k-th key in order; equal keys keep theirs.
PlaceOf(keys, k) ==
  CHOOSE i \in DOMAIN keys :
    Cardinality({j \in DOMAIN keys : keys[j] < keys[i] \/ (keys[j] = keys[i] /\ j <= i)}) = k

\* sorted(s, key=Key): elements with equal keys keep their order.
StableSort(s, Key(_)) ==
  LET keys == Mapped(s, Key) IN [k \in DOMAIN s |-> s[PlaceOf(keys, k)]]

\* min(s, key=Key): the first of the elements with the least key.
FirstMin(s, Key(_)) ==
  s[CHOOSE i \in DOMAIN s : \A j \in DOMAIN s :
      \/ Key(s[i]) < Key(s[j])
      \/ Key(s[i]) = Key(s[j]) /\ i <= j]

\* {Key(x): x for x in s}: of several elements with one key the last stays.
LastBy(s, Key(_)) ==
  [k \in {Key(s[i]) : i \in DOMAIN s} |->
     s[CHOOSE i \in DOMAIN s : Key(s[i]) = k /\ \A j \in DOMAIN s : Key(s[j]) = k => j <= i]]

\* setdefault for each x of s: of several elements with one key the first stays.
FirstBy(s, Key(_)) ==
  [k \in {Key(s[i]) : i \in DOMAIN s} |->
     s[CHOOSE i \in DOMAIN s : Key(s[i]) = k /\ \A j \in DOMAIN s : Key(s[j]) = k => i <= j]]

\* How many elements of s satisfy P.
CountIn(s, P(_)) == Cardinality({i \in DOMAIN s : P(s[i])})

\* s[:n], where a negative n counts from the end.
Prefix(s, n) == SubSeq(s, 1, IF n < 0 THEN Len(s) + n ELSE IF n < Len(s) THEN n ELSE Len(s))

\* {**d, **e}: where both have a key, e's value.
Overlaid(d, e) == [k \in DOMAIN d \union DOMAIN e |-> IF k \in DOMAIN e THEN e[k] ELSE d[k]]

\* The elements of s.
Elements(s) == {s[i] : i \in DOMAIN s}

\* The sum of a list of numbers, the lists of a list one after the other.
ListSum(t) ==
  LET upTo[n \in 0..Len(t)] == IF n = 0 THEN 0 ELSE upTo[n - 1] + t[n]
  IN upTo[Len(t)]

Joined(t) ==
  LET upTo[n \in 0..Len(t)] == IF n = 0 THEN <<>> ELSE upTo[n - 1] \o t[n]
  IN upTo[Len(t)]

\* sum(F(x) for x in s), and the concatenation of the lists F(x).
SumOf(s, F(_)) == ListSum(Mapped(s, F))
Flattened(s, F(_)) == Joined(Mapped(s, F))
=============================================================================
