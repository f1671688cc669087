--------------------------- MODULE DataFlowProofs ---------------------------
(***************************************************************************)
(* What is mined and called ready is fit, whatever the catalogue holds,    *)
(* and segments share out the frames of whatever log.                      *)
(***************************************************************************)
EXTENDS DataFlow, ListsProofs

\* An instance has list operators of its own: they are the ones of Lists.
LEMMA MiningLists ==
  /\ \A S : Mining!Cardinality(S) = Cardinality(S)
  /\ \A S : Mining!SortedSet(S) = SortedSet(S)
  /\ \A s, I : Mining!Picked(s, I) = Picked(s, I)
  /\ \A keys, k : Mining!PlaceOf(keys, k) = PlaceOf(keys, k)
  /\ \A s, n : Mining!Prefix(s, n) = Prefix(s, n)
  /\ \A s : Mining!Elements(s) = Elements(s)
<1>1. \A S : Mining!Cardinality(S) = Cardinality(S)
  BY DEF Mining!Cardinality, Cardinality
<1>2. \A S : Mining!SortedSet(S) = SortedSet(S)
  <2> SUFFICES ASSUME NEW S PROVE Mining!SortedSet(S) = SortedSet(S)
    OBVIOUS
  <2> DEFINE At(k) == CHOOSE x \in S : Cardinality({y \in S : y <= x}) = k
             MiningAt(k) == CHOOSE x \in S : Mining!Cardinality({y \in S : y <= x}) = k
  <2>1. \A k : MiningAt(k) = At(k)
    BY <1>1
  <2>2. Mining!SortedSet(S) = [k \in 1..Cardinality(S) |-> MiningAt(k)]
    BY <1>1 DEF Mining!SortedSet
  <2>3. SortedSet(S) = [k \in 1..Cardinality(S) |-> At(k)]
    BY DEF SortedSet
  <2> HIDE DEF At, MiningAt
  <2> QED BY <2>1, <2>2, <2>3
<1>3. \A s, I : Mining!Picked(s, I) = Picked(s, I)
  BY <1>2 DEF Mining!Picked, Picked
<1>4. \A keys, k : Mining!PlaceOf(keys, k) = PlaceOf(keys, k)
  BY <1>1 DEF Mining!PlaceOf, PlaceOf
<1>5. \A s, n : Mining!Prefix(s, n) = Prefix(s, n)
  BY DEF Mining!Prefix, Prefix
<1>6. \A s : Mining!Elements(s) = Elements(s)
  BY DEF Mining!Elements, Elements
<1> QED BY <1>1, <1>2, <1>3, <1>4, <1>5, <1>6

\* A quotient is at least q exactly when the dividend is at least q divisors.
LEMMA Quotient ==
  ASSUME NEW a \in Nat, NEW b \in Nat \ {0}, NEW q \in Nat
  PROVE  a \div b \in Nat /\ (a \div b >= q <=> a >= q * b)
<1> DEFINE d == a \div b
<1>1. d \in Int /\ 0 <= a - d * b /\ a - d * b < b
  OBVIOUS
<1> QED BY <1>1

\* The score of density is at most 1500, and 1500 only near the greatest count.
LEMMA DensityFacts ==
  \A part, whole \in Nat : part <= whole =>
    /\ Mining!DensityScore(part, whole) \in Nat /\ Mining!DensityScore(part, whole) <= 1500
    /\ Mining!DensityScore(part, whole) = 1500 => 3000 * (whole - part) <= whole
<1> SUFFICES ASSUME NEW part \in Nat, NEW whole \in Nat, part <= whole
             PROVE  /\ Mining!DensityScore(part, whole) \in Nat /\ Mining!DensityScore(part, whole) <= 1500
                    /\ Mining!DensityScore(part, whole) = 1500 => 3000 * (whole - part) <= whole
  OBVIOUS
<1>1. CASE whole = 0
  BY <1>1 DEF Mining!DensityScore
<1>2. CASE whole # 0
  <2> DEFINE a == 2 * 1500 * part + whole
             b == 2 * whole
             d == a \div b
  <2>1. Mining!DensityScore(part, whole) = d
    BY <1>2 DEF Mining!DensityScore
  <2>2. a \in Nat /\ b \in Nat \ {0} /\ a < 1501 * b
    BY <1>2
  <2>3. d \in Nat /\ (d >= 1501 <=> a >= 1501 * b) /\ (d >= 1500 <=> a >= 1500 * b)
    <3> HIDE DEF a, b
    <3> QED BY <2>2, Quotient
  <2>4. d <= 1500
    <3> HIDE DEF a, b, d
    <3> QED BY <2>2, <2>3
  <2>5. d = 1500 => a >= 1500 * b
    <3> HIDE DEF a, b, d
    <3> QED BY <2>2, <2>3
  <2>6. a >= 1500 * b => 3000 * (whole - part) <= whole
    BY <1>2
  <2> HIDE DEF a, b, d
  <2> QED BY <2>1, <2>3, <2>4, <2>5, <2>6
<1> QED BY <1>1, <1>2
-----------------------------------------------------------------------------
(* Mining and readiness *)

\* What mining keeps of a scene.
Candidate(s) ==
  [id |-> s.id, annotations |-> s.annotations, samples |-> s.samples, frames |-> s.frames,
   groundTruth |-> s.groundTruth, channels |-> s.channels, validation |-> Mining!ValidationStatus(s)]

\* Candidates are scenes of the catalogue that pass the filters.
LEMMA MineFacts ==
  ASSUME NEW scenes, NEW params, Mining!ValidMining(scenes, params)
  PROVE  LET mined == Mining!Mine(scenes, params)
         IN /\ mined.candidates \in Seq({Candidate(s) : s \in {x \in Elements(scenes) :
                                                               Mining!PassesMining(x, params)}})
            /\ mined.required = params.required
            /\ mined.selected + mined.rejected <= mined.input
<1> DEFINE T == Elements(scenes)
           Passes(s) == Mining!PassesMining(s, params)
           I == {i \in DOMAIN scenes : Passes(scenes[i])}
           passing == Picked(scenes, I)
           sign == IF Mining!OrElse(params.order, "desc") = "desc" THEN -1 ELSE 1
           keys == [i \in DOMAIN passing |-> sign * Mining!SortKey(passing[i], params.sortBy)]
           sorted == [k \in DOMAIN passing |-> passing[PlaceOf(keys, k)]]
           chosen == Prefix(sorted, params.maxCandidates)
           P == {x \in T : Passes(x)}
<1>1. Mining!Mine(scenes, params) =
        [candidates |-> [k \in DOMAIN chosen |-> Candidate(chosen[k])],
         required |-> params.required,
         input |-> Len(scenes), selected |-> Len(chosen), rejected |-> Len(scenes) - Len(passing)]
  BY MiningLists DEF Mining!Mine, Mining!Filter, Mining!StableSort, Mining!Mapped, Candidate
<1>2. /\ scenes \in Seq(T) /\ params.maxCandidates \in Int
      /\ \A s \in T : s.id \in Int /\ s.annotations \in Nat /\ s.samples \in Nat /\ s.frames \in Nat
  BY MiningLists DEF Mining!ValidMining
<1> HIDE DEF T
<1>3. /\ passing \in Seq(T) /\ Len(passing) = Cardinality(I) /\ Cardinality(I) \in Nat
      /\ {passing[k] : k \in 1..Cardinality(I)} = {scenes[i] : i \in I}
  <2>1. I \in SUBSET DOMAIN scenes
    OBVIOUS
  <2> HIDE DEF I
  <2>2. /\ IsFiniteSet(I) /\ Cardinality(I) \in Nat
        /\ Picked(scenes, I) \in Seq(T) /\ Len(Picked(scenes, I)) = Cardinality(I)
        /\ {Picked(scenes, I)[k] : k \in 1..Cardinality(I)} = {scenes[i] : i \in I}
    <3>1. scenes \in Seq(T)
      BY <1>2
    <3> QED BY ONLY <3>1, <2>1, PickedFacts
  <2> QED BY <2>2
<1>4. Len(scenes) \in Nat /\ Cardinality(I) <= Len(scenes)
  <2>1. IsFiniteSet(DOMAIN scenes) /\ Cardinality(DOMAIN scenes) = Len(scenes) /\ Len(scenes) \in Nat
    BY <1>2, DomainFacts
  <2>2. I \in SUBSET DOMAIN scenes
    OBVIOUS
  <2> HIDE DEF I
  <2> QED BY <2>1, <2>2, FS_Subset
<1>5. passing \in Seq(P)
  <2>1. \A k \in 1..Len(passing) : passing[k] \in P
    BY <1>2, <1>3 DEF Elements, T
  <2> HIDE DEF passing, P
  <2> QED BY <2>1, <1>3
<1> HIDE DEF passing
<1>6. keys \in [1..Len(passing) -> Int]
  <2>1. \A s \in P : sign * Mining!SortKey(s, params.sortBy) \in Int
    BY <1>2 DEF Mining!SortKey
  <2> HIDE DEF P, sign
  <2> QED BY <2>1, <1>5
<1> HIDE DEF keys, P, Passes
<1>7. sorted \in Seq(P) /\ Len(sorted) = Len(passing)
  <2>1. \A k \in 1..Len(passing) : PlaceOf(keys, k) \in 1..Len(passing)
    BY <1>5, <1>6, PlaceOfFacts
  <2> QED BY <2>1, <1>5
<1> HIDE DEF sorted
<1>8. chosen \in Seq(P) /\ Len(chosen) <= Len(sorted)
  BY <1>2, <1>7, PrefixFacts
<1> HIDE DEF chosen
<1>9. [k \in DOMAIN chosen |-> Candidate(chosen[k])] \in Seq({Candidate(s) : s \in P})
  BY <1>8
<1>10. Len(chosen) + (Len(scenes) - Len(passing)) <= Len(scenes)
  BY <1>3, <1>4, <1>7, <1>8
<1>11. {Candidate(s) : s \in P}
         = {Candidate(s) : s \in {x \in Elements(scenes) : Mining!PassesMining(x, params)}}
  BY DEF P, T, Passes
<1> DEFINE mined == Mining!Mine(scenes, params)
<1>12. /\ mined.candidates = [k \in DOMAIN chosen |-> Candidate(chosen[k])]
       /\ mined.required = params.required
       /\ mined.selected + mined.rejected = Len(chosen) + (Len(scenes) - Len(passing))
       /\ mined.input = Len(scenes)
  BY <1>1
<1> HIDE DEF mined
<1> QED BY <1>9, <1>10, <1>11, <1>12 DEF mined

\* The greatest count of annotations bounds those of the candidates.
LEMMA MostFacts ==
  ASSUME NEW C, NEW cs \in Seq(C), \A c \in C : c.annotations \in Nat
  PROVE  LET most == Mining!MostAnnotations(cs)
         IN most \in Nat /\ \A c \in Elements(cs) : c.annotations <= most
<1> DEFINE counts == {c.annotations : c \in Elements(cs)}
<1>1. Elements(cs) = {cs[k] : k \in 1..Len(cs)} /\ Len(cs) \in Nat /\ \A k \in 1..Len(cs) : cs[k] \in C
  BY DEF Elements
<1>2. CASE cs = <<>>
  BY <1>1, <1>2 DEF Mining!MostAnnotations
<1>3. CASE cs # <<>>
  <2>1. counts \in SUBSET Int /\ counts \subseteq Nat
    BY <1>1
  <2>2. counts # {}
    <3>1. 1 \in 1..Len(cs)
      BY <1>1, <1>3
    <3> QED BY <3>1, <1>1
  <2>3. IsFiniteSet(counts)
    <3>1. IsFiniteSet(1..Len(cs))
      BY <1>1, FS_Interval
    <3>2. counts = {cs[k].annotations : k \in 1..Len(cs)}
      BY <1>1
    <3> DEFINE f == [k \in 1..Len(cs) |-> cs[k].annotations]
    <3>3. f \in Surjection(1..Len(cs), counts)
      BY <3>2 DEF Surjection
    <3> HIDE DEF f, counts
    <3> QED BY <3>1, <3>3, FS_Surjection
  <2> HIDE DEF counts
  <2>4. \E a \in counts : \A b \in counts : b <= a
    BY <2>1, <2>2, <2>3, GreatestExists
  <2>5. \E a \in counts : \A c \in Elements(cs) : c.annotations <= a
    BY <2>4 DEF counts
  <2>6. Mining!MostAnnotations(cs) = CHOOSE a \in counts : \A c \in Elements(cs) : c.annotations <= a
    BY <1>3, MiningLists DEF Mining!MostAnnotations, counts
  <2> QED BY <2>1, <2>5, <2>6
<1> QED BY <1>2, <1>3

\* What a score from 7500 on says of a candidate, and which candidates have one.
LEMMA ScoreFacts ==
  ASSUME NEW c, NEW required, NEW most \in Nat, c.annotations \in Nat, c.annotations <= most
  PROVE  LET score == Mining!Score(c, required, most)
         IN /\ score \in Nat
            /\ score >= 7500 => c.groundTruth /\ c.annotations > 0
            /\ score >= 7500 /\ c.validation \notin {"ready", "warning"} =>
                 /\ required \subseteq c.channels /\ c.samples > 0 /\ c.frames > 0
                 /\ 3000 * (most - c.annotations) <= most
            /\ /\ c.groundTruth /\ c.annotations > 0 /\ c.validation = "ready"
               /\ required \subseteq c.channels /\ c.samples > 0 /\ c.frames > 0
               => score >= 7500
<1> DEFINE truth == IF c.groundTruth /\ c.annotations > 0 THEN 3000 ELSE 0
           valid == CASE c.validation = "ready" -> 2500 [] c.validation = "warning" -> 1500 [] OTHER -> 0
           seen == IF required \subseteq c.channels THEN 2000
                   ELSE IF required \intersect c.channels # {} THEN 1000 ELSE 0
           dense == Mining!DensityScore(c.annotations, most)
           whole == IF c.samples > 0 /\ c.frames > 0 THEN 1000 ELSE 0
<1>1. Mining!Score(c, required, most) = truth + valid + seen + dense + whole
  BY DEF Mining!Score
<1>2. truth \in {0, 3000} /\ (truth = 3000 <=> c.groundTruth /\ c.annotations > 0)
  OBVIOUS
<1>3. /\ valid \in {0, 1500, 2500} /\ (valid = 2500 <=> c.validation = "ready")
      /\ c.validation \notin {"ready", "warning"} => valid = 0
  OBVIOUS
<1>4. seen \in {0, 1000, 2000} /\ (seen = 2000 <=> required \subseteq c.channels)
  OBVIOUS
<1>5. dense \in Nat /\ dense <= 1500 /\ (dense = 1500 => 3000 * (most - c.annotations) <= most)
  BY DensityFacts
<1>6. whole \in {0, 1000} /\ (whole = 1000 <=> c.samples > 0 /\ c.frames > 0)
  OBVIOUS
<1> HIDE DEF truth, valid, seen, dense, whole
<1> DEFINE score == truth + valid + seen + dense + whole
<1>7. score \in Nat
  BY <1>2, <1>3, <1>4, <1>5, <1>6
<1>8. score >= 7500 => truth = 3000
  BY <1>2, <1>3, <1>4, <1>5, <1>6
<1>9. score >= 7500 /\ valid = 0 => seen = 2000 /\ dense = 1500 /\ whole = 1000
  BY <1>2, <1>3, <1>4, <1>5, <1>6
<1>10. truth = 3000 /\ valid = 2500 /\ seen = 2000 /\ whole = 1000 => score >= 7500
  BY <1>5
<1> HIDE DEF score
<1> QED BY <1>1, <1>2, <1>3, <1>4, <1>5, <1>6, <1>7, <1>8, <1>9, <1>10 DEF score

\* Each candidate gets the bucket of its score, and the buckets hold each once.
LEMMA ReadinessFacts ==
  ASSUME NEW mined, NEW C, mined.candidates \in Seq(C), \A c \in C : c.annotations \in Nat
  PROVE  LET r == Mining!Readiness(mined, {})
             most == Mining!MostAnnotations(mined.candidates)
         IN /\ r.scenes = [k \in DOMAIN mined.candidates |->
                             Mining!Scored(mined.candidates[k], mined.required, most)]
            /\ r.ready + r.warning + r.blocked = Len(mined.candidates)
            /\ \A id \in Elements(r.top) : \E c \in Elements(r.scenes) : c.id = id /\ c.bucket = "ready"
<1> DEFINE cs == mined.candidates
           most == Mining!MostAnnotations(mined.candidates)
           scored == [k \in DOMAIN cs |-> Mining!Scored(cs[k], mined.required, most)]
           At(b) == {k \in DOMAIN scored : scored[k].bucket = b}
           ready == Picked(scored, At("ready"))
           keys == [i \in DOMAIN ready |-> -ready[i].score]
           sorted == [k \in DOMAIN ready |-> ready[PlaceOf(keys, k)]]
           top == Prefix([k \in DOMAIN sorted |-> sorted[k].id], 5)
           r == Mining!Readiness(mined, {})
<1>1. /\ r.scenes = scored
      /\ r.ready = Len(ready)
      /\ r.warning = Len(Picked(scored, At("warning")))
      /\ r.blocked = Len(Picked(scored, At("blocked")))
      /\ r.top = Mining!TopOf(ready)
  BY MiningLists DEF Mining!Readiness, Mining!Filter, Mining!Mapped
<1>2. Mining!TopOf(ready) = top
  <2> HIDE DEF ready
  <2> QED BY MiningLists DEF Mining!TopOf, Mining!StableSort, Mining!Mapped
<1>3. most \in Nat /\ \A c \in Elements(cs) : c.annotations <= most
  BY MostFacts
<1> HIDE DEF most
<1> DEFINE n == Len(cs)
           V == {scored[k] : k \in 1..n}
<1>4. n \in Nat /\ DOMAIN scored = 1..n /\ Elements(scored) = V
  BY DEF Elements
<1>5. \A v \in V : v.score \in Nat /\ v.bucket \in {"ready", "warning", "blocked"}
  <2> SUFFICES ASSUME NEW k \in 1..n
               PROVE  scored[k].score \in Nat /\ scored[k].bucket \in {"ready", "warning", "blocked"}
    OBVIOUS
  <2>1. cs[k] \in Elements(cs) /\ cs[k].annotations \in Nat
    BY DEF Elements
  <2>2. Mining!Score(cs[k], mined.required, most) \in Nat
    BY <2>1, <1>3, ScoreFacts
  <2>3. scored[k] = Mining!Scored(cs[k], mined.required, most)
    BY <1>4
  <2> HIDE DEF scored
  <2> QED BY <2>2, <2>3 DEF Mining!Scored, Mining!Bucket
<1>6. scored \in Seq(V) /\ Len(scored) = n
  BY <1>4
<1> HIDE DEF scored, V
<1>7. \A b : /\ IsFiniteSet(At(b)) /\ Cardinality(At(b)) \in Nat
           /\ Picked(scored, At(b)) \in Seq(V) /\ Len(Picked(scored, At(b))) = Cardinality(At(b))
           /\ {Picked(scored, At(b))[k] : k \in 1..Cardinality(At(b))} = {scored[i] : i \in At(b)}
  <2> SUFFICES ASSUME NEW b
               PROVE  /\ IsFiniteSet(At(b)) /\ Cardinality(At(b)) \in Nat
                      /\ Picked(scored, At(b)) \in Seq(V) /\ Len(Picked(scored, At(b))) = Cardinality(At(b))
                      /\ {Picked(scored, At(b))[k] : k \in 1..Cardinality(At(b))} = {scored[i] : i \in At(b)}
    OBVIOUS
  <2> DEFINE I == At(b)
  <2>1. I \in SUBSET DOMAIN scored
    OBVIOUS
  <2> HIDE DEF I
  <2>2. /\ IsFiniteSet(I) /\ Cardinality(I) \in Nat
        /\ Picked(scored, I) \in Seq(V) /\ Len(Picked(scored, I)) = Cardinality(I)
        /\ {Picked(scored, I)[k] : k \in 1..Cardinality(I)} = {scored[i] : i \in I}
    <3>1. scored \in Seq(V)
      BY <1>6
    <3> QED BY ONLY <3>1, <2>1, PickedFacts
  <2> QED BY <2>2 DEF I
<1>8. Cardinality(At("ready")) + Cardinality(At("warning")) + Cardinality(At("blocked")) = n
  <2> DEFINE A == At("ready")
             B == At("warning")
             D == At("blocked")
             E == DOMAIN scored
  <2>1. IsFiniteSet(E) /\ Cardinality(E) = n
    BY <1>6, DomainFacts
  <2>2. /\ A \in SUBSET E /\ B \in SUBSET E /\ D \in SUBSET E
        /\ A \intersect B = {} /\ A \intersect D = {} /\ B \intersect D = {}
    OBVIOUS
  <2>3. A \union B \union D = E
    <3>1. \A k \in DOMAIN scored : scored[k].bucket \in {"ready", "warning", "blocked"}
      BY <1>4, <1>5, <1>6 DEF V
    <3> QED BY <3>1
  <2> HIDE DEF A, B, D, E
  <2>4. Cardinality(A) + Cardinality(B) + Cardinality(D) = Cardinality(E)
    BY ONLY <2>1, <2>2, <2>3, ThreeKinds
  <2> QED BY <2>1, <2>4 DEF A, B, D
<1>9. \A k \in 1..Len(ready) : ready[k] \in Elements(scored) /\ ready[k].bucket = "ready"
  <2>1. \A i \in At("ready") : scored[i] \in Elements(scored) /\ scored[i].bucket = "ready"
    BY DEF Elements
  <2> DEFINE I == At("ready")
  <2>2. /\ ready \in Seq(V) /\ Len(ready) = Cardinality(I)
        /\ {ready[k] : k \in 1..Cardinality(I)} = {scored[i] : i \in I}
    BY <1>7
  <2>3. \A k \in 1..Cardinality(I) : ready[k] \in {scored[i] : i \in I}
    <3> HIDE DEF ready, I
    <3> QED BY <2>2
  <2>4. \A v \in {scored[i] : i \in I} : v \in Elements(scored) /\ v.bucket = "ready"
    BY <2>1
  <2> HIDE DEF ready, I
  <2> QED BY <2>2, <2>3, <2>4
<1> HIDE DEF At
<1>10. \A id \in Elements(top) : \E c \in Elements(scored) : c.id = id /\ c.bucket = "ready"
  <2> DEFINE m == Len(ready)
             ids == {ready[k].id : k \in 1..m}
  <2>1. m \in Nat /\ DOMAIN ready = 1..m /\ ready \in Seq(V)
    BY <1>7
  <2>2. keys \in [1..m -> Int]
    BY <2>1, <1>5
  <2> HIDE DEF keys, ready
  <2>3. \A k \in 1..m : PlaceOf(keys, k) \in 1..m
    BY <2>1, <2>2, PlaceOfFacts
  <2>4. \A k \in DOMAIN sorted : sorted[k].id \in ids
    BY <2>1, <2>3
  <2>5. DOMAIN sorted = 1..m
    BY <2>1
  <2> HIDE DEF sorted, ids
  <2> DEFINE listed == [k \in DOMAIN sorted |-> sorted[k].id]
  <2>6. listed \in Seq(ids) /\ top = Prefix(listed, 5)
    BY <2>1, <2>4, <2>5
  <2>7. Elements(top) \subseteq ids
    <3>1. Elements(listed) \subseteq ids
      BY <2>4 DEF Elements
    <3> HIDE DEF listed, top
    <3>2. Elements(Prefix(listed, 5)) \subseteq Elements(listed)
      BY <2>6, PrefixFacts
    <3> QED BY <3>1, <3>2, <2>6
  <2> QED BY <2>7, <1>9 DEF ids
<1>11. r.ready + r.warning + r.blocked = n
  BY <1>1, <1>7, <1>8
<1>12. \A id \in Elements(r.top) : \E c \in Elements(r.scenes) : c.id = id /\ c.bucket = "ready"
  BY <1>1, <1>2, <1>10
<1> HIDE DEF r, ready, top
<1> QED BY <1>1, <1>11, <1>12 DEF r, scored, most

\* What has been computed is what the handlers compute of the input, and the
\* input is one that the code may be given.
MiningInv ==
  input.kind = "mine" =>
    /\ Mining!ValidMining(input.scenes, input.params)
    /\ output # NotYet => output = ScoreMined(Mining!Mine(input.scenes, input.params))

\* No other flow computes it, and none changes the input.
LEMMA MiningInvHolds == FlowSpec => []MiningInv
<1>1. FlowInit => MiningInv
  BY DEF FlowInit, MiningInv
<1>2. MiningInv /\ [FlowNext]_<<input, output>> => MiningInv'
  <2> SUFFICES ASSUME MiningInv, [FlowNext]_<<input, output>>, input'.kind = "mine"
               PROVE  MiningInv'
    BY DEF MiningInv
  <2>1. CASE MineAndScore
    BY <2>1 DEF MineAndScore, Ready, MiningInv
  <2>2. CASE UNCHANGED <<input, output>>
    BY <2>2 DEF MiningInv
  <2> QED BY <2>1, <2>2 DEF FlowNext, CutLog, BuildScenes, IngestAndBuild, PredictAndEvaluate, RunPipeline,
                            ServeViews, Ready
<1> QED BY <1>1, <1>2, PTL DEF FlowSpec

\* Whatever scenes a catalogue holds and whatever a mining asks for, what the
\* scoring calls ready is fit, and what the default profile selects is ready.
THEOREM ReadinessIsFit == FlowSpec => []ReadyMeansFit
<1>1. MiningInv => ReadyMeansFit
  <2> SUFFICES ASSUME MiningInv, Done("mine") PROVE ReadyMeansFit
    BY DEF ReadyMeansFit
  <2> DEFINE scenes == input.scenes
             params == input.params
             mined == Mining!Mine(scenes, params)
             scored == Mining!Readiness(mined, {})
             most == Mining!MostAnnotations(mined.candidates)
             cs == mined.candidates
             Passing == {x \in Elements(scenes) : Mining!PassesMining(x, params)}
             scene(id) == CHOOSE s \in Elements(scenes) : s.id = id
  <2>1. /\ Mining!ValidMining(scenes, params)
        /\ output = [mined |-> mined, scored |-> scored, result |-> Mining!MiningResult(mined)]
    BY DEF MiningInv, Done, ScoreMined
  <2>2. /\ \A s \in Elements(scenes) : s.annotations \in Nat
        /\ \A s, t \in Elements(scenes) : s.id = t.id => s = t
    BY <2>1, MiningLists DEF Mining!ValidMining, Elements
  <2>3. /\ cs \in Seq({Candidate(s) : s \in Passing})
        /\ mined.required = params.required
        /\ mined.selected + mined.rejected <= mined.input
    BY <2>1, MineFacts
  <2>4. \A c \in {Candidate(s) : s \in Passing} : c.annotations \in Nat
    BY <2>2 DEF Candidate
  <2> HIDE DEF scenes, params, mined, Passing
  <2>5. /\ scored.scenes = [k \in DOMAIN cs |-> Mining!Scored(cs[k], mined.required, most)]
        /\ scored.ready + scored.warning + scored.blocked = Len(cs)
        /\ \A id \in Elements(scored.top) : \E c \in Elements(scored.scenes) : c.id = id /\ c.bucket = "ready"
    BY <2>3, <2>4, ReadinessFacts
  <2>6. most \in Nat /\ \A c \in Elements(cs) : c.annotations <= most
    BY <2>3, <2>4, MostFacts
  <2> HIDE DEF scored, most
  <2>7. ASSUME NEW c \in Elements(scored.scenes)
        PROVE  \E x \in Passing :
                 /\ x \in Elements(scenes) /\ Candidate(x) \in Elements(cs)
                 /\ c = Mining!Scored(Candidate(x), params.required, most)
                 /\ c.id = x.id /\ scene(c.id) = x
    <3>1. PICK k \in DOMAIN cs : c = Mining!Scored(cs[k], mined.required, most)
      BY <2>5 DEF Elements
    <3>2. PICK x \in Passing : cs[k] = Candidate(x)
      BY <2>3
    <3>3. x \in Elements(scenes) /\ Candidate(x) \in Elements(cs)
      BY <3>2 DEF Elements, Passing
    <3>4. c.id = x.id
      BY <3>1, <3>2 DEF Mining!Scored, Candidate
    <3>5. scene(x.id) = x
      BY <3>3, <2>2
    <3> QED BY <2>3, <3>1, <3>2, <3>3, <3>4, <3>5
  <2>8. ASSUME NEW x \in Passing, Candidate(x) \in Elements(cs), x \in Elements(scenes)
        PROVE  LET score == Mining!Score(Candidate(x), params.required, most)
                   s == Mining!ValidationStatus(x)
               IN /\ x.annotations \in Nat /\ x.annotations <= most
                  /\ s \in {"ready", "blocked", "unknown"}
                  /\ s = "ready" <=> x.status \in {"validated", "profiled"}
                  /\ score \in Nat
                  /\ score >= 7500 => x.groundTruth /\ x.annotations > 0
                  /\ score >= 7500 /\ s \notin {"ready", "warning"} =>
                       /\ params.required \subseteq x.channels /\ x.samples > 0 /\ x.frames > 0
                       /\ 3000 * (most - x.annotations) <= most
                  /\ /\ x.groundTruth /\ x.annotations > 0 /\ s = "ready"
                     /\ params.required \subseteq x.channels /\ x.samples > 0 /\ x.frames > 0
                     => score >= 7500
    <3> DEFINE c == Candidate(x)
    <3>1. /\ c.annotations = x.annotations /\ c.samples = x.samples /\ c.frames = x.frames
          /\ c.groundTruth = x.groundTruth /\ c.channels = x.channels
          /\ c.validation = Mining!ValidationStatus(x)
      BY DEF Candidate
    <3>2. c.annotations \in Nat /\ c.annotations <= most
      BY <2>2, <2>6, <2>8, <3>1
    <3> HIDE DEF c
    <3>3. LET score == Mining!Score(c, params.required, most)
          IN /\ score \in Nat
             /\ score >= 7500 => c.groundTruth /\ c.annotations > 0
             /\ score >= 7500 /\ c.validation \notin {"ready", "warning"} =>
                  /\ params.required \subseteq c.channels /\ c.samples > 0 /\ c.frames > 0
                  /\ 3000 * (most - c.annotations) <= most
             /\ /\ c.groundTruth /\ c.annotations > 0 /\ c.validation = "ready"
                /\ params.required \subseteq c.channels /\ c.samples > 0 /\ c.frames > 0
                => score >= 7500
      BY <2>6, <3>2, ScoreFacts
    <3>4. LET s == Mining!ValidationStatus(x)
          IN s \in {"ready", "blocked", "unknown"} /\ (s = "ready" <=> x.status \in {"validated", "profiled"})
      BY DEF Mining!ValidationStatus
    <3> QED BY <3>1, <3>2, <3>3, <3>4 DEF c
  <2>9. ASSUME NEW c \in Elements(scored.scenes)
        PROVE  /\ c.bucket = "ready" =>
                    LET s == scene(c.id)
                    IN /\ s.groundTruth /\ s.annotations > 0
                       /\ \/ s.status \in {"validated", "profiled"}
                          \/ /\ s.samples > 0 /\ s.frames > 0 /\ params.required \subseteq s.channels
                             /\ \A d \in Elements(cs) : 3000 * (d.annotations - s.annotations) <= d.annotations
               /\ params.profile = "detection_ready" /\ params.groundTruth = None =>
                    LET s == scene(c.id)
                    IN /\ params.minAnnotations = None => s.annotations > 0
                       /\ s.samples > 0 /\ s.frames > 0 /\ s.annotations > 0 => c.bucket = "ready"
    <3>1. PICK x \in Passing :
            /\ x \in Elements(scenes) /\ Candidate(x) \in Elements(cs)
            /\ c = Mining!Scored(Candidate(x), params.required, most)
            /\ c.id = x.id /\ scene(c.id) = x
      BY <2>7
    <3> DEFINE score == Mining!Score(Candidate(x), params.required, most)
               s == Mining!ValidationStatus(x)
    <3>2. /\ x.annotations \in Nat /\ x.annotations <= most
          /\ s \in {"ready", "blocked", "unknown"}
          /\ s = "ready" <=> x.status \in {"validated", "profiled"}
          /\ score \in Nat
          /\ score >= 7500 => x.groundTruth /\ x.annotations > 0
          /\ score >= 7500 /\ s \notin {"ready", "warning"} =>
               /\ params.required \subseteq x.channels /\ x.samples > 0 /\ x.frames > 0
               /\ 3000 * (most - x.annotations) <= most
          /\ /\ x.groundTruth /\ x.annotations > 0 /\ s = "ready"
             /\ params.required \subseteq x.channels /\ x.samples > 0 /\ x.frames > 0
             => score >= 7500
      BY <2>8, <3>1
    <3>3. c.bucket = "ready" <=> score >= 7500
      BY <3>1, <3>2 DEF Mining!Scored, Mining!Bucket
    <3> HIDE DEF score, s, scene
    <3>4. 3000 * (most - x.annotations) <= most =>
            \A d \in Elements(cs) : 3000 * (d.annotations - x.annotations) <= d.annotations
      <4> SUFFICES ASSUME 3000 * (most - x.annotations) <= most, NEW d \in Elements(cs)
                   PROVE  3000 * (d.annotations - x.annotations) <= d.annotations
        OBVIOUS
      <4>1. d.annotations \in Nat /\ d.annotations <= most
        BY <2>3, <2>4, <2>6 DEF Elements
      <4> QED BY <4>1, <2>6, <3>2
    <3>5. params.profile = "detection_ready" /\ params.groundTruth = None =>
            /\ x.groundTruth /\ x.status \in {"validated", "profiled"}
            /\ params.required \subseteq x.channels
            /\ params.minAnnotations = None => x.annotations > 0
      <4>1. Mining!PassesMining(x, params)
        BY DEF Passing
      <4> DEFINE profile == Mining!ProfileOf(params.profile)
                 truth == Mining!OrElse(params.groundTruth, profile.groundTruth)
                 least == Mining!OrElse(params.minAnnotations, profile.minAnnotations)
      <4>2. /\ truth # None => x.groundTruth = truth
            /\ least # None => x.annotations >= least
            /\ profile.validated => x.status \in {"validated", "profiled"}
            /\ params.required \subseteq x.channels
        BY <4>1, Zenon DEF Mining!PassesMining
      <4>3. params.profile = "detection_ready" =>
              profile.groundTruth = TRUE /\ profile.minAnnotations = 1 /\ profile.validated = TRUE
        BY Zenon DEF Mining!ProfileOf
      <4> HIDE DEF profile
      <4>4. params.profile = "detection_ready" /\ params.groundTruth = None => truth = TRUE /\ truth # None
        BY <4>3, NoneIsNoValue, Zenon DEF Mining!OrElse
      <4>5. params.profile = "detection_ready" /\ params.minAnnotations = None => least = 1 /\ least # None
        BY <4>3, NoneIsNoValue DEF Mining!OrElse
      <4> HIDE DEF truth, least
      <4>6. params.profile = "detection_ready" /\ params.groundTruth = None =>
              x.groundTruth /\ x.status \in {"validated", "profiled"}
        BY <4>2, <4>3, <4>4, Zenon
      <4>7. params.profile = "detection_ready" /\ params.minAnnotations = None => x.annotations > 0
        BY <4>2, <4>5, <3>2
      <4> QED BY <4>2, <4>6, <4>7
    <3>6. c.bucket = "ready" => x.groundTruth /\ x.annotations > 0
      BY <3>2, <3>3
    <3>7. c.bucket = "ready" /\ x.status \notin {"validated", "profiled"} =>
            /\ x.samples > 0 /\ x.frames > 0 /\ params.required \subseteq x.channels
            /\ \A d \in Elements(cs) : 3000 * (d.annotations - x.annotations) <= d.annotations
      BY <3>2, <3>3, <3>4
    <3>8. params.profile = "detection_ready" /\ params.groundTruth = None =>
            /\ params.minAnnotations = None => x.annotations > 0
            /\ x.samples > 0 /\ x.frames > 0 /\ x.annotations > 0 => c.bucket = "ready"
      BY <3>2, <3>3, <3>5
    <3> QED BY <3>1, <3>6, <3>7, <3>8
  <2>10. scored.ready + scored.warning + scored.blocked = Mining!MiningResult(mined).candidates
    BY <2>5 DEF Mining!MiningResult
  <2> HIDE DEF scene
  <2> QED BY <2>1, <2>3, <2>5, <2>9, <2>10 DEF ReadyMeansFit, scenes, params, scene
<1> QED BY <1>1, MiningInvHolds, PTL
-----------------------------------------------------------------------------
(* Lists of lists that share out the elements of a set *)

\* The lists of L are good and hold elements of S only; none holds an element of
\* another; each element of S is in one.
Within(L, S, Good) == L \in Seq(Good) /\ \A c \in DOMAIN L : Elements(L[c]) \subseteq S
Apart(L) == \A c, d \in DOMAIN L : c # d => Elements(L[c]) \intersect Elements(L[d]) = {}
Whole(L, S) == \A x \in S : \E c \in DOMAIN L : x \in Elements(L[c])

\* One turn of the loops that cut a list, which cut it by gaps or by limits.
CutsNow(env, chunk, f) ==
  IF env[1] THEN f.ts - chunk[Len(chunk)].ts > Scene!Us(env[2].maxGap)
  ELSE \/ env[2].maxCount # None /\ Len(chunk) + 1 > env[2].maxCount
       \/ env[2].maxDuration # None /\ f.ts - chunk[1].ts > Scene!Us(env[2].maxDuration)

CutOne(env, chunks, f) ==
  IF chunks = <<>> \/ CutsNow(env, chunks[Len(chunks)], f) THEN Append(chunks, <<f>>)
  ELSE [chunks EXCEPT ![Len(chunks)] = Append(@, f)]

CutLoop == INSTANCE ListsProofs WITH Step <- CutOne

\* The lists of L share out E, and the last of them ends with last.
Shares(L, E, Good, last) ==
  Within(L, E, Good) /\ Apart(L) /\ Whole(L, E)
  /\ L # <<>> /\ L[Len(L)][Len(L[Len(L)])] = last

\* A list of its own for one element more.
LEMMA OwnList ==
  ASSUME NEW T, NEW Good \in SUBSET Seq(T), NEW E, NEW x, x \notin E, <<x>> \in Good, NEW L,
         Within(L, E, Good) /\ Apart(L) /\ Whole(L, E)
  PROVE  Shares(Append(L, <<x>>), E \union {x}, Good, x)
<1> DEFINE M == Append(L, <<x>>)
           n == Len(L)
<1>1. L \in Seq(Good) /\ n \in Nat /\ DOMAIN L = 1..n
  BY DEF Within
<1>2. M \in Seq(Good) /\ DOMAIN M = 1..(n + 1) /\ Len(M) = n + 1 /\ M[n + 1] = <<x>> /\ \A c \in 1..n : M[c] = L[c]
  BY <1>1
<1>3. Elements(<<x>>) = {x}
  BY DEF Elements
<1> HIDE DEF M, n
<1>4. \A c \in 1..n : Elements(M[c]) \subseteq E
  BY <1>1, <1>2 DEF Within
<1>5. Within(M, E \union {x}, Good)
  BY <1>1, <1>2, <1>3, <1>4 DEF Within
<1>6. Apart(M)
  <2> SUFFICES ASSUME NEW c \in 1..(n + 1), NEW d \in 1..(n + 1), c # d
               PROVE  Elements(M[c]) \intersect Elements(M[d]) = {}
    BY <1>2 DEF Apart
  <2>1. CASE c \in 1..n /\ d \in 1..n
    BY <2>1, <1>1, <1>2 DEF Apart
  <2>2. CASE c = n + 1 /\ d \in 1..n
    BY <2>2, <1>2, <1>3, <1>4
  <2>3. CASE d = n + 1 /\ c \in 1..n
    BY <2>3, <1>2, <1>3, <1>4
  <2> QED BY <2>1, <2>2, <2>3, <1>1
<1>7. Whole(M, E \union {x})
  <2> SUFFICES ASSUME NEW y \in E \union {x} PROVE \E c \in DOMAIN M : y \in Elements(M[c])
    BY DEF Whole
  <2>1. CASE y = x
    BY <2>1, <1>1, <1>2, <1>3
  <2>2. CASE y \in E
    <3>1. PICK c \in 1..n : y \in Elements(L[c])
      BY <2>2, <1>1 DEF Whole
    <3>2. c \in DOMAIN M /\ M[c] = L[c]
      BY <1>1, <1>2
    <3> QED BY <3>1, <3>2
  <2> QED BY <2>1, <2>2
<1>8. M # <<>> /\ M[Len(M)][Len(M[Len(M)])] = x
  <2>1. Len(<<x>>) = 1 /\ <<x>>[1] = x
    OBVIOUS
  <2>2. Len(M) # 0
    BY <1>1, <1>2
  <2> QED BY <2>1, <2>2, <1>2
<1>9. Shares(M, E \union {x}, Good, x)
  BY <1>5, <1>6, <1>7, <1>8 DEF Shares
<1> QED BY <1>9 DEF M

\* One element more for the last list.
LEMMA LastList ==
  ASSUME NEW T, NEW Good \in SUBSET Seq(T), NEW E, NEW x, x \notin E, NEW L, NEW last, Shares(L, E, Good, last),
         Append(L[Len(L)], x) \in Good
  PROVE  Shares([L EXCEPT ![Len(L)] = Append(@, x)], E \union {x}, Good, x)
<1> DEFINE M == [L EXCEPT ![Len(L)] = Append(@, x)]
           n == Len(L)
           l == L[n]
<1>1. L \in Seq(Good) /\ n \in Nat /\ DOMAIN L = 1..n /\ n \in 1..n
  BY DEF Within, Shares
<1>2. DOMAIN M = 1..n /\ M[n] = Append(l, x) /\ \A c \in 1..n : c # n => M[c] = L[c]
  BY <1>1
<1>3. M \in Seq(Good) /\ Len(M) = n
  <2>1. \A c \in 1..n : M[c] \in Good
    <3> SUFFICES ASSUME NEW c \in 1..n PROVE M[c] \in Good
      OBVIOUS
    <3>1. L[c] \in Good
      BY <1>1
    <3> QED BY <3>1, <1>2
  <2>2. M = [c \in 1..n |-> M[c]]
    BY <1>1
  <2>3. M \in [1..n -> Good]
    BY <2>1, <2>2, Zenon
  <2> QED BY <2>3, <1>1
<1>4. l \in Seq(T) /\ Len(l) \in Nat /\ DOMAIN l = 1..Len(l)
  BY <1>1
<1>5. Elements(Append(l, x)) = Elements(l) \union {x} /\ Append(l, x)[Len(Append(l, x))] = x
  <2> HIDE DEF M, n, l
  <2> QED BY <1>4, ElementsAppend
<1> HIDE DEF M, n, l
<1>6. \A c \in 1..n : Elements(L[c]) \subseteq E
  BY <1>1 DEF Within, Shares
<1>7. \A c \in 1..n : Elements(M[c]) = IF c = n THEN Elements(L[c]) \union {x} ELSE Elements(L[c])
  BY <1>2, <1>5 DEF l
<1>8. Within(M, E \union {x}, Good)
  BY <1>2, <1>3, <1>6, <1>7 DEF Within
<1>9. Apart(M)
  <2>1. \A c, d \in 1..n : c # d => Elements(L[c]) \intersect Elements(L[d]) = {}
    BY <1>1 DEF Apart, Shares
  <2> SUFFICES ASSUME NEW c \in 1..n, NEW d \in 1..n, c # d
               PROVE  Elements(M[c]) \intersect Elements(M[d]) = {}
    BY <1>2 DEF Apart
  <2>2. /\ Elements(L[c]) \intersect Elements(L[d]) = {}
        /\ x \notin Elements(L[c]) /\ x \notin Elements(L[d])
    BY <2>1, <1>6
  <2>3. /\ Elements(M[c]) = IF c = n THEN Elements(L[c]) \union {x} ELSE Elements(L[c])
        /\ Elements(M[d]) = IF d = n THEN Elements(L[d]) \union {x} ELSE Elements(L[d])
    BY <1>7
  <2>4. CASE c = n
    BY <2>2, <2>3, <2>4
  <2>5. CASE c # n
    BY <2>2, <2>3, <2>5
  <2> QED BY <2>4, <2>5
<1>10. Whole(M, E \union {x})
  <2> SUFFICES ASSUME NEW y \in E \union {x} PROVE \E c \in DOMAIN M : y \in Elements(M[c])
    BY DEF Whole
  <2>1. CASE y = x
    BY <2>1, <1>1, <1>2, <1>7
  <2>2. CASE y \in E
    <3>1. PICK c \in 1..n : y \in Elements(L[c])
      BY <2>2, <1>1 DEF Whole, Shares
    <3> QED BY <3>1, <1>2, <1>7
  <2> QED BY <2>1, <2>2
<1>11. M # <<>> /\ M[Len(M)][Len(M[Len(M)])] = x
  <2>1. Len(M) # 0
    BY <1>1, <1>3
  <2> QED BY <2>1, <1>2, <1>3, <1>5
<1>12. Shares(M, E \union {x}, Good, x)
  BY <1>8, <1>9, <1>10, <1>11 DEF Shares
<1> QED BY <1>12 DEF M

\* A loop that cuts a list shares out its elements, to chunks that are good if
\* cutting keeps them so.
LEMMA CutFacts ==
  ASSUME NEW env, NEW T, NEW s \in Seq(T), \A i, j \in DOMAIN s : s[i] = s[j] => i = j,
         NEW Good \in SUBSET Seq(T), \A p \in DOMAIN s : <<s[p]>> \in Good,
         \A p \in DOMAIN s \ {1} : \A l \in Good :
           /\ Elements(l) \subseteq {s[j] : j \in 1..(p - 1)} /\ l[Len(l)] = s[p - 1]
           /\ ~CutsNow(env, l, s[p])
           => Append(l, s[p]) \in Good
  PROVE  LET chunks == CutLoop!Turns(env, <<>>, s)
         IN Within(chunks, Elements(s), Good) /\ Apart(chunks) /\ Whole(chunks, Elements(s))
<1> DEFINE E(k) == {s[j] : j \in 1..k}
           n == Len(s)
<1>1. n \in Nat /\ DOMAIN s = 1..n
  OBVIOUS
<1>2. PICK state : CutLoop!StatesOf(state, env, <<>>, s)
  BY CutLoop!TurnsFacts
<1>3. /\ state[0] = <<>> /\ CutLoop!Turns(env, <<>>, s) = state[n]
      /\ \A k \in 1..n : state[k] = CutOne(env, state[k - 1], s[k])
  BY <1>2 DEF CutLoop!StatesOf
<1> DEFINE Inv(k) == IF k = 0 THEN Within(state[k], E(k), Good) /\ Apart(state[k]) /\ Whole(state[k], E(k))
                     ELSE Shares(state[k], E(k), Good, s[k])
           Holds == {k \in Nat : k <= n => Inv(k)}
<1>4. 0 \in Holds
  <2>1. Within(<<>>, E(0), Good) /\ Apart(<<>>) /\ Whole(<<>>, E(0))
    <3>1. E(0) = {} /\ <<>> \in Seq(Good) /\ DOMAIN <<>> = {}
      OBVIOUS
    <3> HIDE DEF E
    <3> QED BY <3>1 DEF Within, Apart, Whole
  <2> QED BY <2>1, <1>3
<1>5. \A k \in Nat : k \in Holds => k + 1 \in Holds
  <2> SUFFICES ASSUME NEW k \in Nat, k \in Holds, k + 1 <= n
               PROVE  Inv(k + 1)
    <3> HIDE DEF Inv
    <3> QED OBVIOUS
  <2> SUFFICES Shares(state[k + 1], E(k + 1), Good, s[k + 1])
    <3>1. k + 1 # 0
      OBVIOUS
    <3> QED BY <3>1
  <2> DEFINE L == state[k]
             x == s[k + 1]
  <2>1. k + 1 \in 1..n /\ (k + 1) - 1 = k /\ k <= n /\ k + 1 \in DOMAIN s
    BY <1>1
  <2>2. state[k + 1] = CutOne(env, L, x)
    <3>1. state[k + 1] = CutOne(env, state[(k + 1) - 1], s[k + 1])
      BY <1>3, <2>1
    <3> QED BY <3>1, <2>1
  <2>3. E(k + 1) = E(k) \union {x}
    <3>1. 1..(k + 1) = 1..k \union {k + 1}
      OBVIOUS
    <3> QED BY <3>1
  <2>4. x \notin E(k)
    <3>1. \A j \in 1..k : j \in DOMAIN s /\ j # k + 1
      BY <1>1, <2>1
    <3> QED BY <3>1, <2>1
  <2>5. <<x>> \in Good
    BY <2>1
  <2>6. Inv(k)
    <3> HIDE DEF Inv
    <3> QED BY <2>1
  <2>7. Within(L, E(k), Good) /\ Apart(L) /\ Whole(L, E(k))
    BY <2>6 DEF Shares
  <2>8. CASE L = <<>> \/ CutsNow(env, L[Len(L)], x)
    <3>1. state[k + 1] = Append(L, <<x>>)
      BY <2>2, <2>8 DEF CutOne
    <3> HIDE DEF E, x, L
    <3>2. Shares(Append(L, <<x>>), E(k) \union {x}, Good, x)
      BY <2>4, <2>5, <2>7, OwnList
    <3> QED BY <3>1, <3>2, <2>3 DEF x
  <2>9. CASE ~(L = <<>> \/ CutsNow(env, L[Len(L)], x))
    <3>1. state[k + 1] = [L EXCEPT ![Len(L)] = Append(@, x)]
      BY <2>2, <2>9 DEF CutOne
    <3>2. k # 0
      BY <2>9, <1>3
    <3>3. Shares(L, E(k), Good, s[k])
      BY <3>2, <2>6
    <3>4. Append(L[Len(L)], x) \in Good
      <4>1. L \in Seq(Good) /\ Len(L) \in DOMAIN L
        BY <2>7, <2>9 DEF Within
      <4>2. L[Len(L)] \in Good /\ Elements(L[Len(L)]) \subseteq E(k)
        <5> HIDE DEF E
        <5> QED BY <4>1, <2>7 DEF Within
      <4>3. L[Len(L)][Len(L[Len(L)])] = s[k]
        BY <3>3 DEF Shares
      <4>4. k + 1 \in DOMAIN s \ {1}
        BY <3>2, <2>1
      <4> DEFINE l == L[Len(L)]
                 p == k + 1
      <4>5. /\ l \in Good /\ Elements(l) \subseteq {s[j] : j \in 1..(p - 1)} /\ l[Len(l)] = s[p - 1]
            /\ ~CutsNow(env, l, s[p])
        BY <4>2, <4>3, <2>1, <2>9
      <4>6. p \in DOMAIN s \ {1}
        BY <4>4
      <4> HIDE DEF l, p
      <4>7. Append(l, s[p]) \in Good
        BY <4>5, <4>6
      <4> QED BY <4>7 DEF l, p
    <3> HIDE DEF E, x, L
    <3>5. Shares([L EXCEPT ![Len(L)] = Append(@, x)], E(k) \union {x}, Good, x)
      BY <2>4, <3>3, <3>4, LastList
    <3> QED BY <3>1, <3>5, <2>3 DEF x
  <2> QED BY <2>8, <2>9
<1>6. Nat \subseteq Holds
  <2> HIDE DEF Holds
  <2> QED BY ONLY <1>4, <1>5, Induction
<1>7. Inv(n)
  <2> HIDE DEF Inv
  <2> QED BY <1>1, <1>6
<1>8. E(n) = Elements(s)
  BY <1>1 DEF Elements
<1>9. Within(state[n], E(n), Good) /\ Apart(state[n]) /\ Whole(state[n], E(n))
  <2> HIDE DEF E
  <2> QED BY <1>7 DEF Shares
<1> HIDE DEF E
<1> QED BY <1>3, <1>8, <1>9
-----------------------------------------------------------------------------
\* An instance has list operators of its own: they are the ones of Lists.
LEMMA SceneLists ==
  /\ \A S : Scene!Cardinality(S) = Cardinality(S)
  /\ \A S : Scene!SortedSet(S) = SortedSet(S)
  /\ \A s, I : Scene!Picked(s, I) = Picked(s, I)
  /\ \A keys, k : Scene!PlaceOf(keys, k) = PlaceOf(keys, k)
  /\ \A s : Scene!Elements(s) = Elements(s)
  /\ \A t : Scene!Joined(t) = Joined(t)
<1>1. \A S : Scene!Cardinality(S) = Cardinality(S)
  BY DEF Scene!Cardinality, Cardinality
<1>2. \A S : Scene!SortedSet(S) = SortedSet(S)
  <2> SUFFICES ASSUME NEW S PROVE Scene!SortedSet(S) = SortedSet(S)
    OBVIOUS
  <2> DEFINE At(k) == CHOOSE x \in S : Cardinality({y \in S : y <= x}) = k
             SceneAt(k) == CHOOSE x \in S : Scene!Cardinality({y \in S : y <= x}) = k
  <2>1. \A k : SceneAt(k) = At(k)
    BY <1>1
  <2>2. Scene!SortedSet(S) = [k \in 1..Cardinality(S) |-> SceneAt(k)]
    BY <1>1 DEF Scene!SortedSet
  <2>3. SortedSet(S) = [k \in 1..Cardinality(S) |-> At(k)]
    BY DEF SortedSet
  <2> HIDE DEF At, SceneAt
  <2> QED BY <2>1, <2>2, <2>3
<1>3. \A s, I : Scene!Picked(s, I) = Picked(s, I)
  BY <1>2 DEF Scene!Picked, Picked
<1>4. \A keys, k : Scene!PlaceOf(keys, k) = PlaceOf(keys, k)
  BY <1>1 DEF Scene!PlaceOf, PlaceOf
<1>5. \A s : Scene!Elements(s) = Elements(s)
  BY DEF Scene!Elements, Elements
<1>6. \A t : Scene!Joined(t) = Joined(t)
  BY DEF Scene!Joined, Joined
<1> QED BY <1>1, <1>2, <1>3, <1>4, <1>5, <1>6

\* The folds of the segmenter are these loops.
LEMMA CutLoops ==
  /\ \A s, cfg : Scene!SplitByGap(s, cfg) = CutLoop!Turns(<<TRUE, cfg>>, <<>>, s)
  /\ \A s, cfg : Scene!SplitByLimits(s, cfg) = CutLoop!Turns(<<FALSE, cfg>>, <<>>, s)
<1>1. \A s, cfg : Scene!SplitByGap(s, cfg) = CutLoop!Turns(<<TRUE, cfg>>, <<>>, s)
  BY DEF Scene!SplitByGap, Scene!Chunked, Scene!FoldLeft, Scene!MapThenFoldSet, Scene!Max, CutLoop!Turns,
         CutLoop!Max, CutOne, CutsNow, Scene!Last, Scene!ReplaceAt
<1>2. \A s, cfg : Scene!SplitByLimits(s, cfg) = CutLoop!Turns(<<FALSE, cfg>>, <<>>, s)
  BY DEF Scene!SplitByLimits, Scene!Chunked, Scene!FoldLeft, Scene!MapThenFoldSet, Scene!Max, CutLoop!Turns,
         CutLoop!Max, CutOne, CutsNow, Scene!Last, Scene!ReplaceAt
<1> QED BY <1>1, <1>2
-----------------------------------------------------------------------------
(* Frames in the order of their times *)

\* The frames of l are of F, each once, in the order of their times.
Ordered(l, F) ==
  /\ l \in Seq(F) /\ Len(l) >= 1
  /\ \A i, j \in DOMAIN l : i < j => l[i].ts <= l[j].ts /\ l[i] # l[j]

\* What a strategy leaves together.
Close(l, cfg) ==
  /\ cfg.strategy = "gap_based" => \A q \in 2..Len(l) : l[q].ts - l[q - 1].ts <= Scene!Us(cfg.maxGap)
  /\ cfg.strategy = "fixed_window" => \A i, j \in DOMAIN l : l[j].ts - l[i].ts < Scene!Us(cfg.window)

\* What the limits leave together.
Limited(l, cfg) ==
  /\ cfg.maxCount # None => Len(l) <= cfg.maxCount
  /\ cfg.maxDuration # None => l[Len(l)].ts - l[1].ts <= Scene!Us(cfg.maxDuration)

Candidates(F, cfg) == {l \in Seq(F) : Ordered(l, F) /\ Close(l, cfg)}
Pieces(F, cfg) == {l \in Candidates(F, cfg) : Limited(l, cfg)}
Chunks(F, cfg) == {l \in Pieces(F, cfg) : Len(l) >= cfg.minCount}

\* A list of frames that have times.
Timed(F) == \A f \in F : f.ts \in Int

\* What is picked from frames in order is in order.
LEMMA OrderedPicked ==
  ASSUME NEW F, NEW l, Ordered(l, F), NEW I \in SUBSET DOMAIN l, I # {}
  PROVE  Ordered(Picked(l, I), F) /\ Elements(Picked(l, I)) = {l[i] : i \in I}
<1> DEFINE p == Picked(l, I)
           n == Cardinality(I)
           at == SortedSet(I)
<1>1. /\ IsFiniteSet(I) /\ n \in Nat /\ p \in Seq(F) /\ Len(p) = n
      /\ \A k \in 1..n : at[k] \in I /\ p[k] = l[at[k]]
      /\ \A j, k \in 1..n : j < k => at[j] < at[k]
      /\ \A i \in I : \E k \in 1..n : at[k] = i
  BY PickedFacts DEF Ordered
<1>2. DOMAIN p = 1..n /\ Elements(p) = {l[i] : i \in I}
  BY PickedElements DEF Ordered
<1> HIDE DEF p, n, at
<1>3. n >= 1
  BY <1>1
<1>4. \A j, k \in 1..n : j < k => p[j].ts <= p[k].ts /\ p[j] # p[k]
  <2> SUFFICES ASSUME NEW j \in 1..n, NEW k \in 1..n, j < k PROVE p[j].ts <= p[k].ts /\ p[j] # p[k]
    OBVIOUS
  <2>1. at[j] \in DOMAIN l /\ at[k] \in DOMAIN l /\ at[j] < at[k] /\ p[j] = l[at[j]] /\ p[k] = l[at[k]]
    BY <1>1
  <2> QED BY <2>1 DEF Ordered
<1>6. Ordered(p, F)
  BY <1>1, <1>2, <1>3, <1>4 DEF Ordered
<1> QED BY <1>2, <1>6 DEF p

\* The next frame of a list in order may follow what holds only earlier ones.
LEMMA OrderedAppend ==
  ASSUME NEW F, Timed(F), NEW s, Ordered(s, F), NEW p \in DOMAIN s, NEW l, Ordered(l, F),
         Elements(l) \subseteq {s[j] : j \in 1..(p - 1)}
  PROVE  Ordered(Append(l, s[p]), F)
<1> DEFINE x == s[p]
           a == Append(l, x)
           n == Len(l)
<1>1. s \in Seq(F) /\ x \in F /\ p \in Nat /\ DOMAIN s = 1..Len(s) /\ Len(s) \in Nat
  BY DEF Ordered
<1>2. n \in Nat /\ n >= 1 /\ DOMAIN l = 1..n /\ l \in Seq(F)
  BY DEF Ordered
<1>3. DOMAIN a = 1..(n + 1) /\ Len(a) = n + 1 /\ a[n + 1] = x /\ \A i \in 1..n : a[i] = l[i]
  BY <1>2, ElementsAppend
<1>4. a \in Seq(F)
  BY <1>1, <1>2
<1> HIDE DEF a
<1>5. ASSUME NEW i \in 1..n PROVE l[i].ts <= x.ts /\ l[i] # x
  <2>1. PICK j \in 1..(p - 1) : l[i] = s[j]
    BY <1>2 DEF Elements
  <2>2. j \in DOMAIN s /\ j < p
    BY <1>1
  <2> QED BY <2>1, <2>2 DEF Ordered
<1> HIDE DEF x, n
<1>6. ASSUME NEW i \in 1..(n + 1), NEW j \in 1..(n + 1), i < j PROVE a[i].ts <= a[j].ts /\ a[i] # a[j]
  <2>1. i \in 1..n
    BY <1>2, <1>6
  <2>2. CASE j = n + 1
    BY <2>1, <2>2, <1>3, <1>5
  <2>3. CASE j \in 1..n
    <3>1. l[i].ts <= l[j].ts /\ l[i] # l[j]
      BY <2>1, <2>3, <1>2, <1>6 DEF Ordered
    <3> QED BY <3>1, <2>1, <2>3, <1>3
  <2> QED BY <2>2, <2>3, <1>2
<1>7. Ordered(a, F)
  BY <1>2, <1>3, <1>4, <1>6 DEF Ordered
<1> QED BY <1>7 DEF a, x

\* A frame alone is in order.
LEMMA OrderedAlone ==
  ASSUME NEW F, NEW x \in F
  PROVE  Ordered(<<x>>, F) /\ Len(<<x>>) = 1 /\ <<x>>[1] = x /\ DOMAIN <<x>> = {1}
<1>1. <<x>> \in Seq(F) /\ Len(<<x>>) = 1 /\ <<x>>[1] = x /\ DOMAIN <<x>> = {1}
  OBVIOUS
<1> QED BY <1>1 DEF Ordered
-----------------------------------------------------------------------------
(* The strategies *)

\* Numbers and types of a configuration that is accepted.
LEMMA ConfigFacts ==
  ASSUME NEW frames, NEW cfg, Scene!ValidSegmentation(cfg), Scene!ValidLog(frames, cfg, Log)
  PROVE  /\ Timed(Elements(frames)) /\ frames \in Seq(Elements(frames))
         /\ cfg.minCount \in Nat /\ cfg.minCount >= 1
         /\ cfg.maxCount # None => cfg.maxCount \in Int /\ cfg.maxCount >= 1
         /\ cfg.maxDuration # None => Scene!Us(cfg.maxDuration) \in Int /\ Scene!Us(cfg.maxDuration) > 0
         /\ cfg.strategy = "gap_based" => Scene!Us(cfg.maxGap) \in Int /\ Scene!Us(cfg.maxGap) > 0
         /\ cfg.strategy = "fixed_window" =>
              /\ cfg.window \in Int /\ Scene!Us(cfg.window) \in Int /\ Scene!Us(cfg.window) > 0
              /\ cfg.stride # None => cfg.stride \in Int /\ Scene!Us(cfg.stride) \in Int /\ Scene!Us(cfg.stride) > 0
         /\ cfg.strategy \in {"sequence", "gap_based", "fixed_window"}
<1>1. /\ frames \in Seq(Elements(frames))
      /\ \A i \in DOMAIN frames : frames[i].ts \in Int
      /\ cfg.strategy \in {"sequence", "gap_based", "fixed_window"}
      /\ cfg.minCount \in Int
      /\ {cfg.minDuration, cfg.maxDuration, cfg.maxCount, cfg.maxGap, cfg.window, cfg.stride}
           \subseteq Int \union {None}
  BY SceneLists DEF Scene!ValidLog
<1>2. Timed(Elements(frames))
  BY <1>1 DEF Timed, Elements
<1> QED BY <1>1, <1>2 DEF Scene!ValidSegmentation, Scene!Us

\* Cutting by gaps leaves candidates, cutting by limits pieces.
LEMMA GapFacts ==
  ASSUME NEW frames, NEW cfg, Scene!ValidSegmentation(cfg), Scene!ValidLog(frames, cfg, Log),
         cfg.strategy = "gap_based", NEW g, Ordered(g, Elements(frames))
  PROVE  LET L == Scene!SplitByGap(g, cfg)
         IN Within(L, Elements(g), Candidates(Elements(frames), cfg)) /\ Apart(L) /\ Whole(L, Elements(g))
<1> DEFINE F == Elements(frames)
           Good == Candidates(F, cfg)
           env == <<TRUE, cfg>>
           gap == Scene!Us(cfg.maxGap)
<1>1. Timed(F) /\ gap \in Int
  BY ConfigFacts
<1>2. g \in Seq(F) /\ DOMAIN g = 1..Len(g) /\ Len(g) \in Nat /\ \A i, j \in DOMAIN g : g[i] = g[j] => i = j
  <2>1. g \in Seq(F) /\ DOMAIN g = 1..Len(g) /\ Len(g) \in Nat
    BY DEF Ordered
  <2>2. \A i, j \in DOMAIN g : i < j => g[i] # g[j]
    BY DEF Ordered
  <2>3. \A i, j \in 1..Len(g) : i = j \/ i < j \/ j < i
    BY <2>1
  <2> QED BY <2>1, <2>2, <2>3
<1>3. Good \in SUBSET Seq(F)
  BY DEF Candidates
<1>4. \A p \in DOMAIN g : <<g[p]>> \in Good
  <2> SUFFICES ASSUME NEW p \in DOMAIN g PROVE <<g[p]>> \in Good
    OBVIOUS
  <2>1. g[p] \in F
    BY <1>2
  <2> DEFINE one == <<g[p]>>
  <2>2. Ordered(one, F) /\ Len(one) = 1
    BY <2>1, OrderedAlone
  <2> HIDE DEF one, F
  <2>3. Close(one, cfg)
    BY <2>2 DEF Close
  <2> QED BY <2>2, <2>3 DEF Candidates, Ordered, one
<1>5. \A p \in DOMAIN g \ {1} : \A l \in Good :
        /\ Elements(l) \subseteq {g[j] : j \in 1..(p - 1)} /\ l[Len(l)] = g[p - 1]
        /\ ~CutsNow(env, l, g[p])
        => Append(l, g[p]) \in Good
  <2> SUFFICES ASSUME NEW p \in DOMAIN g \ {1}, NEW l \in Good,
                      Elements(l) \subseteq {g[j] : j \in 1..(p - 1)} /\ l[Len(l)] = g[p - 1],
                      ~CutsNow(env, l, g[p])
               PROVE  Append(l, g[p]) \in Good
    OBVIOUS
  <2> HIDE DEF F
  <2>1. Ordered(l, F) /\ Close(l, cfg)
    BY DEF Candidates
  <2>2. Ordered(Append(l, g[p]), F)
    BY <1>1, <2>1, OrderedAppend DEF F
  <2>3. g[p].ts - l[Len(l)].ts <= gap
    <3>1. env[1] = TRUE /\ env[2] = cfg
      OBVIOUS
    <3>2. ~(g[p].ts - l[Len(l)].ts > gap)
      BY <3>1 DEF CutsNow
    <3>3. g[p].ts \in Int /\ l[Len(l)].ts \in Int
      <4>1. g[p] \in F /\ l[Len(l)] \in F
        BY <1>2, <2>1 DEF Ordered
      <4> QED BY <4>1, <1>1 DEF Timed
    <3> QED BY <3>2, <3>3, <1>1
  <2> DEFINE a == Append(l, g[p])
             n == Len(l)
  <2>4. n \in Nat /\ Len(a) = n + 1 /\ a[n + 1] = g[p] /\ \A i \in 1..n : a[i] = l[i]
    <3>1. l \in Seq(F)
      BY <2>1 DEF Ordered
    <3> QED BY <3>1, ElementsAppend
  <2> HIDE DEF a
  <2>5. Close(a, cfg)
    <3>1. ASSUME NEW q \in 2..Len(a) PROVE a[q].ts - a[q - 1].ts <= Scene!Us(cfg.maxGap)
      <4>1. CASE q = n + 1
        <5>1. n \in 1..n /\ q - 1 = n
          BY <4>1, <2>4
        <5>2. a[q] = g[p] /\ a[q - 1] = l[n]
          BY <5>1, <4>1, <2>4
        <5> QED BY <5>2, <2>3
      <4>2. CASE q \in 2..n
        <5>1. a[q] = l[q] /\ a[q - 1] = l[q - 1]
          BY <4>2, <2>4
        <5> QED BY <5>1, <4>2, <2>1 DEF Close
      <4> QED BY <4>1, <4>2, <2>4
    <3> QED BY <3>1 DEF Close
  <2> QED BY <2>2, <2>5 DEF Candidates, Ordered, a
<1>6. Scene!SplitByGap(g, cfg) = CutLoop!Turns(env, <<>>, g)
  BY CutLoops
<1> HIDE DEF F, Good, env
<1>7. LET L == CutLoop!Turns(env, <<>>, g) IN Within(L, Elements(g), Good) /\ Apart(L) /\ Whole(L, Elements(g))
  BY ONLY <1>2, <1>3, <1>4, <1>5, CutFacts
<1> QED BY <1>6, <1>7 DEF Good, F

\* The limits cut a candidate into pieces that share out its frames.
LEMMA LimitFacts ==
  ASSUME NEW frames, NEW cfg, Scene!ValidSegmentation(cfg), Scene!ValidLog(frames, cfg, Log),
         NEW g \in Candidates(Elements(frames), cfg)
  PROVE  LET L == Scene!SplitByLimits(g, cfg)
         IN Within(L, Elements(g), Pieces(Elements(frames), cfg)) /\ Apart(L) /\ Whole(L, Elements(g))
<1> DEFINE F == Elements(frames)
           Good == Pieces(F, cfg)
           env == <<FALSE, cfg>>
<1>1. /\ Timed(F)
      /\ cfg.maxCount # None => cfg.maxCount \in Int /\ cfg.maxCount >= 1
      /\ cfg.maxDuration # None => Scene!Us(cfg.maxDuration) \in Int /\ Scene!Us(cfg.maxDuration) > 0
      /\ cfg.strategy = "gap_based" => Scene!Us(cfg.maxGap) \in Int
      /\ cfg.strategy = "fixed_window" => Scene!Us(cfg.window) \in Int /\ Scene!Us(cfg.window) > 0
  BY ConfigFacts
<1>2. Ordered(g, F) /\ Close(g, cfg)
  BY DEF Candidates
<1>3. g \in Seq(F) /\ DOMAIN g = 1..Len(g) /\ Len(g) \in Nat /\ \A i, j \in DOMAIN g : g[i] = g[j] => i = j
  <2>1. g \in Seq(F) /\ DOMAIN g = 1..Len(g) /\ Len(g) \in Nat
    BY <1>2 DEF Ordered
  <2>2. \A i, j \in DOMAIN g : i < j => g[i] # g[j]
    BY <1>2 DEF Ordered
  <2>3. \A i, j \in 1..Len(g) : i = j \/ i < j \/ j < i
    BY <2>1
  <2> QED BY <2>1, <2>2, <2>3
<1>4. Good \in SUBSET Seq(F)
  BY DEF Candidates, Pieces
<1>5. \A p \in DOMAIN g : <<g[p]>> \in Good
  <2> SUFFICES ASSUME NEW p \in DOMAIN g PROVE <<g[p]>> \in Good
    OBVIOUS
  <2>1. g[p] \in F
    BY <1>3
  <2> DEFINE one == <<g[p]>>
  <2>2. Ordered(one, F) /\ Len(one) = 1 /\ one[1].ts \in Int /\ DOMAIN one = {1}
    BY <2>1, <1>1, OrderedAlone DEF Timed
  <2> HIDE DEF one, F
  <2>3. Close(one, cfg) /\ Limited(one, cfg)
    BY <1>1, <2>2 DEF Close, Limited
  <2> QED BY <2>2, <2>3 DEF Candidates, Pieces, Ordered, one
<1>6. \A p \in DOMAIN g \ {1} : \A l \in Good :
        /\ Elements(l) \subseteq {g[j] : j \in 1..(p - 1)} /\ l[Len(l)] = g[p - 1]
        /\ ~CutsNow(env, l, g[p])
        => Append(l, g[p]) \in Good
  <2> SUFFICES ASSUME NEW p \in DOMAIN g \ {1}, NEW l \in Good,
                      Elements(l) \subseteq {g[j] : j \in 1..(p - 1)} /\ l[Len(l)] = g[p - 1],
                      ~CutsNow(env, l, g[p])
               PROVE  Append(l, g[p]) \in Good
    OBVIOUS
  <2> HIDE DEF F
  <2>1. Ordered(l, F) /\ Close(l, cfg) /\ Limited(l, cfg)
    BY DEF Candidates, Pieces
  <2>2. Ordered(Append(l, g[p]), F)
    BY <1>1, <1>2, <2>1, OrderedAppend DEF F
  <2> DEFINE a == Append(l, g[p])
             n == Len(l)
  <2>3. n \in Nat /\ n >= 1 /\ DOMAIN l = 1..n /\ Len(a) = n + 1 /\ a[n + 1] = g[p] /\ \A i \in 1..n : a[i] = l[i]
    <3>1. l \in Seq(F) /\ Len(l) >= 1
      BY <2>1 DEF Ordered
    <3> QED BY <3>1, ElementsAppend
  <2>4. DOMAIN a = 1..(n + 1)
    BY <2>2, <2>3 DEF Ordered
  <2> HIDE DEF a
  <2>5. p \in DOMAIN g /\ p - 1 \in DOMAIN g /\ p \in 2..Len(g) /\ l[n] = g[p - 1]
    BY <1>3
  <2>6. \A i \in 1..(n + 1) : \E j \in DOMAIN g : a[i] = g[j]
    <3> SUFFICES ASSUME NEW i \in 1..(n + 1) PROVE \E j \in DOMAIN g : a[i] = g[j]
      OBVIOUS
    <3>1. CASE i = n + 1
      BY <3>1, <2>3, <2>5
    <3>2. CASE i \in 1..n
      <4>1. l[i] \in Elements(l)
        BY <3>2, <2>3 DEF Elements
      <4>2. PICK j \in 1..(p - 1) : l[i] = g[j]
        BY <4>1
      <4>3. j \in DOMAIN g
        BY <1>3, <2>5
      <4> QED BY <4>2, <4>3, <3>2, <2>3
    <3> QED BY <3>1, <3>2, <2>3
  <2>7. Close(a, cfg)
    <3>1. ASSUME cfg.strategy = "gap_based", NEW q \in 2..Len(a)
          PROVE  a[q].ts - a[q - 1].ts <= Scene!Us(cfg.maxGap)
      <4>1. CASE q = n + 1
        <5>1. n \in 1..n /\ q - 1 = n
          BY <4>1, <2>3
        <5>2. a[q] = g[p] /\ a[q - 1] = g[p - 1]
          BY <5>1, <4>1, <2>3, <2>5
        <5> QED BY <5>2, <3>1, <1>2, <2>5 DEF Close
      <4>2. CASE q \in 2..n
        <5>1. a[q] = l[q] /\ a[q - 1] = l[q - 1]
          BY <4>2, <2>3
        <5> QED BY <5>1, <4>2, <3>1, <2>1 DEF Close
      <4> QED BY <4>1, <4>2, <2>3
    <3>2. ASSUME cfg.strategy = "fixed_window", NEW i \in 1..(n + 1), NEW j \in 1..(n + 1)
          PROVE  a[j].ts - a[i].ts < Scene!Us(cfg.window)
      <4>1. PICK h \in DOMAIN g, k \in DOMAIN g : a[i] = g[h] /\ a[j] = g[k]
        BY <2>6
      <4> QED BY <4>1, <3>2, <1>2 DEF Close
    <3> QED BY <3>1, <3>2, <2>4 DEF Close
  <2>8. Limited(a, cfg)
    <3>1. env[1] = FALSE /\ env[2] = cfg
      OBVIOUS
    <3>2. ~(cfg.maxCount # None /\ n + 1 > cfg.maxCount)
      BY <3>1 DEF CutsNow
    <3>3. ~(cfg.maxDuration # None /\ g[p].ts - l[1].ts > Scene!Us(cfg.maxDuration))
      BY <3>1 DEF CutsNow
    <3>4. a[1] = l[1] /\ a[Len(a)] = g[p] /\ Len(a) = n + 1
      BY <2>3
    <3>5. g[p].ts \in Int /\ l[1].ts \in Int
      <4>1. g[p] \in F /\ l[1] \in F
        BY <1>3, <2>1, <2>3 DEF Ordered
      <4> QED BY <4>1, <1>1 DEF Timed
    <3> HIDE DEF n
    <3> QED BY <3>2, <3>3, <3>4, <3>5, <1>1, <2>3 DEF Limited
  <2> QED BY <2>2, <2>7, <2>8 DEF Candidates, Pieces, Ordered, a
<1>7. Scene!SplitByLimits(g, cfg) = CutLoop!Turns(env, <<>>, g)
  BY CutLoops
<1> HIDE DEF F, Good, env
<1>8. LET L == CutLoop!Turns(env, <<>>, g) IN Within(L, Elements(g), Good) /\ Apart(L) /\ Whole(L, Elements(g))
  BY ONLY <1>3, <1>4, <1>5, <1>6, CutFacts
<1> QED BY <1>7, <1>8 DEF Good, F

\* Windows: apart unless they overlap, and whole unless they leave gaps.
Overlap(cfg) == cfg.strategy = "fixed_window" /\ cfg.stride # None /\ cfg.stride < cfg.window
Gaps(cfg) == cfg.strategy = "fixed_window" /\ cfg.stride # None /\ cfg.stride > cfg.window

\* Of the windows that open every stride, those that hold a moment t.
LEMMA WindowOf ==
  ASSUME NEW stride \in Nat \ {0}, NEW width \in Nat \ {0}, NEW t \in Nat
  PROVE  /\ t \div stride \in Nat /\ (t \div stride) * stride <= t /\ t < (t \div stride) * stride + stride
         /\ width <= stride => \A a, b \in Nat :
              a * stride <= t /\ t < a * stride + width /\ b * stride <= t /\ t < b * stride + width => a = b
<1> DEFINE d == t \div stride
<1>1. d \in Int /\ 0 <= t - d * stride /\ t - d * stride < stride
  OBVIOUS
<1>2. d \in Nat /\ d * stride <= t /\ t < d * stride + stride
  BY <1>1
<1>3. ASSUME width <= stride, NEW a \in Nat, NEW b \in Nat,
             a * stride <= t, t < a * stride + width, b * stride <= t, t < b * stride + width
      PROVE  a = b
  <2>1. \A m \in Nat : \A n \in Nat : m < n => m * stride + stride <= n * stride
    <3> SUFFICES ASSUME NEW m \in Nat, NEW n \in Nat, m < n PROVE m * stride + stride <= n * stride
      OBVIOUS
    <3>1. n - m - 1 \in Nat
      OBVIOUS
    <3>2. (n - m - 1) * stride >= 0
      BY <3>1
    <3>3. (n - m - 1) * stride = n * stride - m * stride - stride
      OBVIOUS
    <3>4. n * stride \in Int /\ m * stride \in Int
      OBVIOUS
    <3> QED BY <3>2, <3>3, <3>4
  <2>2. a * stride \in Int /\ b * stride \in Int
    OBVIOUS
  <2>3. ~(a < b)
    <3> SUFFICES ASSUME a < b PROVE FALSE
      OBVIOUS
    <3>1. a * stride + stride <= b * stride
      BY <2>1
    <3> QED BY <3>1, <2>2, <1>3
  <2>4. ~(b < a)
    <3> SUFFICES ASSUME b < a PROVE FALSE
      OBVIOUS
    <3>1. b * stride + stride <= a * stride
      BY <2>1
    <3> QED BY <3>1, <2>2, <1>3
  <2> QED BY <2>3, <2>4
<1> QED BY <1>2, <1>3

\* A quotient grows with the dividend.
LEMMA QuotientGrows ==
  ASSUME NEW a \in Nat, NEW b \in Nat, a <= b, NEW d \in Nat \ {0}
  PROVE  a \div d <= b \div d
<1> DEFINE x == a \div d
           y == b \div d
<1>1. x \in Int /\ 0 <= a - x * d /\ a - x * d < d /\ y \in Int /\ 0 <= b - y * d /\ b - y * d < d
  OBVIOUS
<1> SUFFICES ASSUME y < x PROVE FALSE
  BY <1>1
<1> HIDE DEF x, y
<1>2. x - y - 1 \in Nat /\ x * d \in Int /\ y * d \in Int
  BY <1>1
<1>3. (x - y - 1) * d >= 0
  BY <1>2
<1>4. (x - y - 1) * d = x * d - y * d - d
  BY <1>1
<1> QED BY <1>1, <1>2, <1>3, <1>4

\* The windows of a group are candidates, apart unless they overlap and whole
\* unless there are gaps between them.
LEMMA WindowFacts ==
  ASSUME NEW frames, NEW cfg, Scene!ValidSegmentation(cfg), Scene!ValidLog(frames, cfg, Log),
         cfg.strategy = "fixed_window", NEW g, Ordered(g, Elements(frames))
  PROVE  LET L == Scene!SplitByWindow(g, cfg)
         IN /\ Within(L, Elements(g), Candidates(Elements(frames), cfg))
            /\ ~Overlap(cfg) => Apart(L)
            /\ ~Gaps(cfg) => Whole(L, Elements(g))
<1> DEFINE F == Elements(frames)
           width == Scene!Us(cfg.window)
           stride == Scene!Us(IF cfg.stride = None THEN cfg.window ELSE cfg.stride)
           start == g[1].ts
           n == (g[Len(g)].ts - start) \div stride + 1
           In(k) == {i \in DOMAIN g : start + (k - 1) * stride <= g[i].ts /\ g[i].ts < start + (k - 1) * stride + width}
           windows == [k \in 1..n |-> Picked(g, In(k))]
           Full == {k \in DOMAIN windows : windows[k] # <<>>}
           at == SortedSet(Full)
           c == Cardinality(Full)
           L == Picked(windows, Full)
<1>1. /\ Timed(F) /\ width \in Nat \ {0} /\ stride \in Nat \ {0}
      /\ ~Overlap(cfg) => width <= stride
      /\ ~Gaps(cfg) => stride <= width
  <2>1. /\ Timed(F) /\ cfg.window \in Int /\ width \in Int /\ width > 0
        /\ cfg.stride # None => cfg.stride \in Int /\ Scene!Us(cfg.stride) \in Int /\ Scene!Us(cfg.stride) > 0
    BY ConfigFacts
  <2>2. CASE cfg.stride = None
    <3>1. stride = width
      BY <2>2
    <3> HIDE DEF stride, width
    <3> QED BY <2>1, <3>1
  <2>3. CASE cfg.stride # None
    <3>1. stride = cfg.stride * 1000 /\ width = cfg.window * 1000 /\ stride = Scene!Us(cfg.stride)
      BY <2>3 DEF Scene!Us
    <3> HIDE DEF stride, width
    <3>2. stride \in Nat \ {0} /\ width \in Nat \ {0} /\ cfg.stride \in Int /\ cfg.window \in Int
      BY <2>1, <2>3, <3>1
    <3> QED BY <2>1, <2>3, <3>1, <3>2 DEF Overlap, Gaps
  <2> QED BY <2>2, <2>3
<1>2. /\ g \in Seq(F) /\ DOMAIN g = 1..Len(g) /\ Len(g) \in Nat /\ Len(g) \in 1..Len(g) /\ 1 \in 1..Len(g)
      /\ \A i, j \in DOMAIN g : i < j => g[i].ts <= g[j].ts /\ g[i] # g[j]
  BY DEF Ordered
<1>3. \A i \in DOMAIN g : g[i] \in F /\ g[i].ts \in Int
  BY <1>1, <1>2 DEF Timed
<1>4. start \in Int /\ g[Len(g)].ts \in Int
  BY <1>2, <1>3
<1>5. \A i \in DOMAIN g : start <= g[i].ts /\ g[i].ts <= g[Len(g)].ts
  <2> SUFFICES ASSUME NEW i \in DOMAIN g PROVE start <= g[i].ts /\ g[i].ts <= g[Len(g)].ts
    OBVIOUS
  <2>1. (i = 1 \/ 1 < i) /\ (i = Len(g) \/ i < Len(g))
    BY <1>2
  <2> QED BY <2>1, <1>2, <1>3, <1>4
<1> HIDE DEF F, width, stride, start
<1>6. n \in Nat /\ n >= 1 /\ \A i \in DOMAIN g : g[i].ts - start \in Nat /\ (g[i].ts - start) \div stride + 1 \in 1..n
  <2> DEFINE last == g[Len(g)].ts - start
             Quot(t) == t \div stride
  <2>1. last \in Nat
    BY <1>2, <1>4, <1>5
  <2>2. \A t \in Nat : Quot(t) \in Nat
    BY <1>1, WindowOf
  <2>3. ASSUME NEW i \in DOMAIN g PROVE g[i].ts - start \in Nat /\ Quot(g[i].ts - start) <= Quot(last)
    <3> DEFINE t == g[i].ts - start
    <3>1. t \in Nat /\ t <= last
      BY <1>3, <1>4, <1>5
    <3> HIDE DEF t, last
    <3>2. Quot(t) <= Quot(last)
      BY ONLY <3>1, <2>1, <1>1, QuotientGrows
    <3> QED BY <3>1, <3>2 DEF t
  <2>4. n = Quot(last) + 1
    OBVIOUS
  <2> HIDE DEF Quot, last, n
  <2>5. Quot(last) \in Nat
    BY <2>1, <2>2
  <2>6. ASSUME NEW i \in DOMAIN g PROVE Quot(g[i].ts - start) + 1 \in 1..n
    <3>1. Quot(g[i].ts - start) \in Nat /\ Quot(g[i].ts - start) <= Quot(last)
      BY <2>2, <2>3
    <3> QED BY <3>1, <2>4, <2>5
  <2> QED BY <2>3, <2>4, <2>5, <2>6 DEF Quot
<1> HIDE DEF n
<1>7. \A k \in 1..n : In(k) \in SUBSET DOMAIN g
  OBVIOUS
<1>8. ASSUME NEW k \in 1..n
      PROVE  /\ windows[k] = Picked(g, In(k)) /\ windows[k] \in Seq(F)
             /\ In(k) # {} => Ordered(windows[k], F) /\ Elements(windows[k]) = {g[i] : i \in In(k)}
             /\ In(k) # {} <=> windows[k] # <<>>
  <2>1. windows[k] = Picked(g, In(k))
    OBVIOUS
  <2> DEFINE I == In(k)
  <2>2. I \in SUBSET DOMAIN g /\ Ordered(g, F) /\ g \in Seq(F)
    BY <1>2 DEF F
  <2> HIDE DEF I, windows
  <2>3. Picked(g, I) \in Seq(F) /\ Len(Picked(g, I)) = Cardinality(I) /\ IsFiniteSet(I)
    BY ONLY <2>2, PickedFacts
  <2>4. I # {} => Ordered(Picked(g, I), F) /\ Elements(Picked(g, I)) = {g[i] : i \in I}
    <3> SUFFICES ASSUME I # {} PROVE Ordered(Picked(g, I), F) /\ Elements(Picked(g, I)) = {g[i] : i \in I}
      OBVIOUS
    <3> QED BY ONLY <2>2, I # {}, OrderedPicked
  <2>5. I # {} => Picked(g, I) # <<>>
    BY <2>4 DEF Ordered
  <2>6. I = {} => Picked(g, I) = <<>>
    <3> SUFFICES ASSUME I = {} PROVE Picked(g, I) = <<>>
      OBVIOUS
    <3>1. Len(Picked(g, I)) = 0
      BY <2>3, FS_EmptySet
    <3> QED BY <3>1, <2>3
  <2> QED BY <2>1, <2>3, <2>4, <2>5, <2>6 DEF I
<1>9. windows \in Seq(Seq(F)) /\ DOMAIN windows = 1..n
  <2>1. \A k \in 1..n : windows[k] \in Seq(F)
    BY <1>8
  <2>2. windows = [k \in 1..n |-> windows[k]] /\ DOMAIN windows = 1..n
    OBVIOUS
  <2> HIDE DEF windows
  <2>3. windows \in [1..n -> Seq(F)]
    BY <2>1, <2>2, Zenon
  <2> QED BY <2>2, <2>3, <1>6
<1>10. /\ IsFiniteSet(Full) /\ c \in Nat /\ Len(L) = c /\ L \in Seq(Seq(F))
       /\ \A k \in 1..c : at[k] \in Full /\ L[k] = windows[at[k]]
       /\ \A j, k \in 1..c : j < k => at[j] < at[k]
       /\ \A i \in Full : \E k \in 1..c : at[k] = i
  <2> DEFINE T == Seq(F)
  <2>1. windows \in Seq(T) /\ Full \in SUBSET DOMAIN windows
    BY <1>9
  <2> HIDE DEF windows, Full, at, c, T
  <2>2. IsFiniteSet(Full) /\ Cardinality(Full) \in Nat
    BY ONLY <2>1, PickedFacts
  <2>3. Picked(windows, Full) \in Seq(T) /\ Len(Picked(windows, Full)) = Cardinality(Full)
    BY ONLY <2>1, PickedFacts
  <2>4. \A k \in 1..Cardinality(Full) :
          SortedSet(Full)[k] \in Full /\ Picked(windows, Full)[k] = windows[SortedSet(Full)[k]]
    BY ONLY <2>1, PickedFacts
  <2>5. \A j, k \in 1..Cardinality(Full) : j < k => SortedSet(Full)[j] < SortedSet(Full)[k]
    BY ONLY <2>1, PickedFacts
  <2>6. \A i \in Full : \E k \in 1..Cardinality(Full) : SortedSet(Full)[k] = i
    BY ONLY <2>1, PickedFacts
  <2> QED BY <2>2, <2>3, <2>4, <2>5, <2>6 DEF at, c, T
<1>11. \A k \in 1..n : k \in Full <=> In(k) # {}
  BY <1>8, <1>9
<1> HIDE DEF at, c, L, Full
<1>12. DOMAIN L = 1..c
  BY <1>10
<1>13. ASSUME NEW k \in 1..c
       PROVE  /\ at[k] \in 1..n /\ In(at[k]) # {} /\ Ordered(L[k], F)
              /\ Elements(L[k]) = {g[i] : i \in In(at[k])}
  <2>1. at[k] \in Full /\ at[k] \in 1..n /\ L[k] = windows[at[k]]
    BY <1>10, <1>9 DEF Full
  <2>2. In(at[k]) # {}
    BY <2>1, <1>11
  <2> QED BY <2>1, <2>2, <1>8
<1> HIDE DEF windows
<1>14. ASSUME NEW k \in 1..c PROVE L[k] \in Candidates(F, cfg) /\ Elements(L[k]) \subseteq Elements(g)
  <2>1. ASSUME NEW i \in DOMAIN L[k], NEW j \in DOMAIN L[k] PROVE L[k][j].ts - L[k][i].ts < width
    <3>1. L[k][i] \in Elements(L[k]) /\ L[k][j] \in Elements(L[k])
      BY DEF Elements
    <3>2. PICK a \in In(at[k]), b \in In(at[k]) : L[k][i] = g[a] /\ L[k][j] = g[b]
      <4> HIDE DEF In
      <4> QED BY <3>1, <1>13
    <3> DEFINE o == start + (at[k] - 1) * stride
    <3>3. o \in Int
      <4>1. at[k] \in Int /\ stride \in Int
        BY <1>1, <1>6, <1>13
      <4>2. (at[k] - 1) * stride \in Int
        BY <4>1
      <4> QED BY <4>2, <1>4
    <3>4. o <= g[a].ts /\ g[b].ts < o + width /\ g[a].ts \in Int /\ g[b].ts \in Int
      BY <3>2, <1>3
    <3> HIDE DEF o
    <3>5. g[b].ts - g[a].ts < width
      BY <3>3, <3>4, <1>1
    <3> QED BY <3>2, <3>5
  <2>2. Close(L[k], cfg)
    BY <2>1 DEF Close, width
  <2>3. Elements(L[k]) \subseteq Elements(g)
    BY <1>13 DEF Elements
  <2> QED BY <2>2, <2>3, <1>13 DEF Candidates, Ordered
<1>15. Within(L, Elements(g), Candidates(F, cfg))
  <2>1. L \in Seq(Candidates(F, cfg))
    <3>1. \A k \in 1..c : L[k] \in Candidates(F, cfg)
      BY <1>14
    <3>2. L = [k \in 1..c |-> L[k]]
      BY <1>10, <1>12
    <3>3. L \in [1..c -> Candidates(F, cfg)]
      BY <3>1, <3>2, Zenon
    <3> QED BY <3>3, <1>10
  <2> QED BY <2>1, <1>12, <1>14 DEF Within
<1>16. ASSUME NEW i \in DOMAIN g, NEW k \in 1..c
       PROVE  g[i] \in Elements(L[k]) <=> i \in In(at[k])
  <2>1. \A j \in DOMAIN g : g[i] = g[j] => i = j
    <3>1. \A j \in DOMAIN g : i = j \/ i < j \/ j < i
      BY <1>2
    <3> QED BY <3>1, <1>2
  <2>2. Elements(L[k]) = {g[j] : j \in In(at[k])} /\ In(at[k]) \in SUBSET DOMAIN g
    BY <1>7, <1>13
  <2> HIDE DEF In
  <2> QED BY <2>1, <2>2
<1>17. ASSUME ~Overlap(cfg) PROVE Apart(L)
  <2> SUFFICES ASSUME NEW a \in 1..c, NEW b \in 1..c, a # b, NEW x, x \in Elements(L[a]), x \in Elements(L[b]) PROVE FALSE
    BY <1>12 DEF Apart
  <2>1. PICK i \in DOMAIN g : x = g[i]
    BY <1>14 DEF Elements
  <2>2. i \in In(at[a]) /\ i \in In(at[b])
    BY <2>1, <1>16
  <2> DEFINE t == g[i].ts - start
             A == at[a] - 1
             B == at[b] - 1
  <2>3. t \in Nat /\ A \in Nat /\ B \in Nat
    BY <1>6, <1>13
  <2>4. A * stride <= t /\ t < A * stride + width /\ B * stride <= t /\ t < B * stride + width
    <3>1. /\ start + A * stride <= g[i].ts /\ g[i].ts < start + A * stride + width
          /\ start + B * stride <= g[i].ts /\ g[i].ts < start + B * stride + width
      BY <2>2
    <3>2. A * stride \in Int /\ B * stride \in Int /\ g[i].ts \in Int
      BY <2>3, <1>1, <1>3
    <3> HIDE DEF A, B
    <3> QED BY <3>1, <3>2, <1>1, <1>4
  <2> HIDE DEF t, A, B
  <2>5. A = B
    <3>1. width <= stride
      BY <1>1, <1>17
    <3> QED BY <2>3, <2>4, <3>1, <1>1, WindowOf
  <2>6. at[a] = at[b]
    BY <2>5, <1>13 DEF A, B
  <2>7. a < b \/ b < a
    BY <1>10
  <2> QED BY <2>6, <2>7, <1>10, <1>13
<1>18. ASSUME ~Gaps(cfg) PROVE Whole(L, Elements(g))
  <2> SUFFICES ASSUME NEW i \in DOMAIN g PROVE \E k \in 1..c : g[i] \in Elements(L[k])
    BY <1>12 DEF Whole, Elements
  <2> DEFINE t == g[i].ts - start
             d == t \div stride
  <2>1. t \in Nat /\ d + 1 \in 1..n
    BY <1>6
  <2>2. d \in Nat /\ d * stride <= t /\ t < d * stride + stride
    BY <2>1, <1>1, WindowOf
  <2>3. d * stride \in Int /\ g[i].ts \in Int /\ t = g[i].ts - start
    BY <2>2, <1>1, <1>3
  <2> HIDE DEF t, d
  <2>4. (d + 1) - 1 = d
    BY <2>2
  <2>5. start + d * stride <= g[i].ts /\ g[i].ts < start + d * stride + width
    BY <2>2, <2>3, <1>1, <1>4, <1>18
  <2>6. i \in In(d + 1)
    BY <2>4, <2>5
  <2>7. d + 1 \in Full
    BY <2>1, <2>6, <1>11
  <2>8. PICK k \in 1..c : at[k] = d + 1
    BY <2>7, <1>10
  <2> QED BY <2>6, <2>8, <1>16
<1>19. Scene!SplitByWindow(g, cfg) = L
  BY SceneLists DEF Scene!SplitByWindow, Scene!Filter, Scene!Last, L, Full, windows, n, start, stride, width
<1> QED BY <1>15, <1>17, <1>18, <1>19 DEF F

\* The candidates of a strategy.
CandidatesOf(g, cfg) ==
  CASE cfg.strategy = "sequence"     -> <<g>>
    [] cfg.strategy = "gap_based"    -> Scene!SplitByGap(g, cfg)
    [] cfg.strategy = "fixed_window" -> Scene!SplitByWindow(g, cfg)

\* What a strategy leaves of a group, whichever it is.
LEMMA CandidateFacts ==
  ASSUME NEW frames, NEW cfg, Scene!ValidSegmentation(cfg), Scene!ValidLog(frames, cfg, Log),
         NEW g, Ordered(g, Elements(frames))
  PROVE  LET L == CandidatesOf(g, cfg)
         IN /\ Within(L, Elements(g), Candidates(Elements(frames), cfg))
            /\ ~Overlap(cfg) => Apart(L)
            /\ ~Gaps(cfg) => Whole(L, Elements(g))
<1> DEFINE F == Elements(frames)
<1>1. CASE cfg.strategy = "sequence"
  <2> DEFINE L == <<g>>
  <2>1. CandidatesOf(g, cfg) = L
    BY <1>1 DEF CandidatesOf
  <2>2. g \in Candidates(F, cfg)
    BY <1>1 DEF Candidates, Ordered, Close
  <2>3. L \in Seq(Candidates(F, cfg)) /\ DOMAIN L = {1} /\ L[1] = g
    BY <2>2
  <2> HIDE DEF L, F
  <2>4. Within(L, Elements(g), Candidates(F, cfg)) /\ Apart(L) /\ Whole(L, Elements(g))
    BY <2>3 DEF Within, Apart, Whole
  <2> QED BY <2>1, <2>4 DEF F
<1>2. CASE cfg.strategy = "gap_based"
  <2>1. CandidatesOf(g, cfg) = Scene!SplitByGap(g, cfg)
    BY <1>2 DEF CandidatesOf
  <2> QED BY <1>2, <2>1, GapFacts
<1>3. CASE cfg.strategy = "fixed_window"
  <2>1. CandidatesOf(g, cfg) = Scene!SplitByWindow(g, cfg)
    BY <1>3 DEF CandidatesOf
  <2> QED BY <1>3, <2>1, WindowFacts
<1> QED BY <1>1, <1>2, <1>3, ConfigFacts

\* Shares of shares, one after the other.
LEMMA JoinedShares ==
  ASSUME NEW Good, NEW t \in Seq(Seq(Good)), NEW cands, DOMAIN cands = DOMAIN t, NEW S,
         \A c \in DOMAIN t : Within(t[c], Elements(cands[c]), Good) /\ Apart(t[c]) /\ Whole(t[c], Elements(cands[c])),
         \A c \in DOMAIN t : Elements(cands[c]) \subseteq S
  PROVE  /\ Within(Joined(t), S, Good)
         /\ Apart(cands) => Apart(Joined(t))
         /\ Whole(cands, S) => Whole(Joined(t), S)
<1> DEFINE J == Joined(t)
<1>1. J \in Seq(Good) /\ \E row, col : IsJoined(J, t, row, col)
  BY JoinedFacts
<1> HIDE DEF J
<1>2. PICK row, col : IsJoined(J, t, row, col)
  BY <1>1
<1>3. /\ \A k \in DOMAIN J : row[k] \in DOMAIN t /\ col[k] \in DOMAIN t[row[k]] /\ J[k] = t[row[k]][col[k]]
      /\ \A k, l \in DOMAIN J : row[k] = row[l] /\ col[k] = col[l] => k = l
      /\ \A c \in DOMAIN t : \A d \in DOMAIN t[c] : \E k \in DOMAIN J : row[k] = c /\ col[k] = d
  BY <1>2 DEF IsJoined
<1>4. \A c \in DOMAIN t : \A d \in DOMAIN t[c] : Elements(t[c][d]) \subseteq Elements(cands[c])
  BY DEF Within
<1>5. ASSUME NEW k \in DOMAIN J
      PROVE  Elements(J[k]) \subseteq Elements(cands[row[k]]) /\ Elements(J[k]) \subseteq S
  <2> DEFINE c == row[k]
             d == col[k]
  <2>1. c \in DOMAIN t /\ d \in DOMAIN t[c] /\ J[k] = t[c][d]
    BY <1>3
  <2>2. row[k] = c
    OBVIOUS
  <2> HIDE DEF c, d
  <2>3. Elements(t[c][d]) \subseteq Elements(cands[c])
    BY ONLY <2>1, <1>4
  <2>4. Elements(cands[c]) \subseteq S
    BY <2>1
  <2>5. Elements(J[k]) = Elements(t[c][d])
    BY ONLY <2>1
  <2> HIDE DEF J
  <2> QED BY ONLY <2>2, <2>3, <2>4, <2>5
<1>6. Within(J, S, Good)
  BY <1>1, <1>5 DEF Within
<1>7. ASSUME Apart(cands) PROVE Apart(J)
  <2> SUFFICES ASSUME NEW k \in DOMAIN J, NEW l \in DOMAIN J, k # l
               PROVE  Elements(J[k]) \intersect Elements(J[l]) = {}
    BY DEF Apart
  <2>1. CASE row[k] = row[l]
    <3>1. col[k] # col[l]
      BY <2>1, <1>3
    <3> DEFINE c == row[k]
               d == col[k]
               e == col[l]
    <3>2. c \in DOMAIN t /\ d \in DOMAIN t[c] /\ e \in DOMAIN t[c] /\ d # e /\ J[k] = t[c][d] /\ J[l] = t[c][e]
      BY <2>1, <3>1, <1>3
    <3> HIDE DEF c, d, e
    <3>3. Elements(t[c][d]) \intersect Elements(t[c][e]) = {}
      BY <3>2 DEF Apart
    <3> QED BY <3>2, <3>3
  <2>2. CASE row[k] # row[l]
    <3>1. row[k] \in DOMAIN cands /\ row[l] \in DOMAIN cands
      BY <1>3
    <3>2. Elements(cands[row[k]]) \intersect Elements(cands[row[l]]) = {}
      BY <3>1, <2>2, <1>7 DEF Apart
    <3> QED BY <3>2, <1>5
  <2> QED BY <2>1, <2>2
<1>8. ASSUME Whole(cands, S) PROVE Whole(J, S)
  <2> SUFFICES ASSUME NEW x \in S PROVE \E k \in DOMAIN J : x \in Elements(J[k])
    BY DEF Whole
  <2>1. PICK c \in DOMAIN t : x \in Elements(cands[c])
    BY <1>8 DEF Whole
  <2>2. PICK d \in DOMAIN t[c] : x \in Elements(t[c][d])
    BY <2>1 DEF Whole
  <2>3. PICK k \in DOMAIN J : row[k] = c /\ col[k] = d
    BY <1>3
  <2> QED BY <2>2, <2>3, <1>3
<1> QED BY <1>6, <1>7, <1>8 DEF J

\* What is left of shares.
LEMMA PickedShares ==
  ASSUME NEW Good, NEW L, NEW S, Within(L, S, Good), NEW I \in SUBSET DOMAIN L
  PROVE  /\ Within(Picked(L, I), S, {L[i] : i \in I})
         /\ Apart(L) => Apart(Picked(L, I))
         /\ Whole(L, S) /\ I = DOMAIN L => Whole(Picked(L, I), S)
<1> DEFINE P == Picked(L, I)
           n == Cardinality(I)
           at == SortedSet(I)
<1>1. /\ IsFiniteSet(I) /\ n \in Nat /\ Len(P) = n /\ P \in Seq(Good)
      /\ \A k \in 1..n : at[k] \in I /\ P[k] = L[at[k]]
      /\ \A j, k \in 1..n : j < k => at[j] < at[k]
      /\ \A i \in I : \E k \in 1..n : at[k] = i
  BY PickedFacts DEF Within
<1>2. DOMAIN P = 1..n
  BY PickedElements DEF Within
<1> HIDE DEF P, n, at
<1>3. \A k \in 1..n : P[k] \in {L[i] : i \in I} /\ Elements(P[k]) \subseteq S
  BY <1>1 DEF Within
<1>4. Within(P, S, {L[i] : i \in I})
  <2> DEFINE Left == {L[i] : i \in I}
  <2>1. \A k \in 1..n : P[k] \in Left
    BY <1>3
  <2> HIDE DEF Left
  <2>2. P = [k \in 1..n |-> P[k]]
    BY <1>1, <1>2
  <2>3. P \in [1..n -> Left]
    BY <2>1, <2>2, Zenon
  <2>4. P \in Seq(Left)
    BY <2>3, <1>1
  <2> QED BY <2>4, <1>2, <1>3 DEF Within, Left
<1>5. ASSUME Apart(L) PROVE Apart(P)
  <2> SUFFICES ASSUME NEW j \in 1..n, NEW k \in 1..n, j # k PROVE Elements(P[j]) \intersect Elements(P[k]) = {}
    BY <1>2 DEF Apart
  <2>1. j < k \/ k < j
    BY <1>1
  <2>2. at[j] \in DOMAIN L /\ at[k] \in DOMAIN L /\ P[j] = L[at[j]] /\ P[k] = L[at[k]]
    BY <1>1
  <2>3. at[j] # at[k]
    <3>1. DOMAIN L \subseteq Int
      BY DEF Within
    <3>2. at[j] \in Int /\ at[k] \in Int /\ (at[j] < at[k] \/ at[k] < at[j])
      BY <2>1, <2>2, <3>1, <1>1
    <3> QED BY <3>2
  <2> QED BY <2>2, <2>3, <1>5 DEF Apart
<1>6. ASSUME Whole(L, S), I = DOMAIN L PROVE Whole(P, S)
  <2> SUFFICES ASSUME NEW x \in S PROVE \E k \in 1..n : x \in Elements(P[k])
    BY <1>2 DEF Whole
  <2>1. PICK i \in I : x \in Elements(L[i])
    BY <1>6 DEF Whole
  <2>2. PICK k \in 1..n : at[k] = i
    BY <1>1
  <2> QED BY <2>1, <2>2, <1>1
<1> QED BY <1>4, <1>5, <1>6 DEF P

\* What the chunks of a group leave out, besides what windows do.
Leaves(cfg) == Gaps(cfg) \/ cfg.minCount > 1 \/ cfg.minDuration # None

\* The chunks of a group share out its frames, but where windows overlap or
\* leave gaps and where filters drop chunks.
LEMMA ChunkFacts ==
  ASSUME NEW frames, NEW cfg, Scene!ValidSegmentation(cfg), Scene!ValidLog(frames, cfg, Log),
         NEW g, Ordered(g, Elements(frames))
  PROVE  LET L == Scene!GroupChunks(g, cfg)
         IN /\ Within(L, Elements(g), Chunks(Elements(frames), cfg))
            /\ ~Overlap(cfg) => Apart(L)
            /\ ~Leaves(cfg) => Whole(L, Elements(g))
<1> DEFINE F == Elements(frames)
           cands == CandidatesOf(g, cfg)
           Good == Pieces(F, cfg)
           t == [i \in DOMAIN cands |-> Scene!SplitByLimits(cands[i], cfg)]
           J == Joined(t)
           I == {i \in DOMAIN J : Scene!PassesFilters(J[i], cfg)}
<1>1. /\ Within(cands, Elements(g), Candidates(F, cfg))
      /\ ~Overlap(cfg) => Apart(cands)
      /\ ~Gaps(cfg) => Whole(cands, Elements(g))
  BY CandidateFacts
<1> HIDE DEF cands, F
<1>2. cands \in Seq(Candidates(F, cfg)) /\ DOMAIN cands = 1..Len(cands) /\ Len(cands) \in Nat
  BY <1>1 DEF Within
<1>3. \A i \in DOMAIN t : /\ Within(t[i], Elements(cands[i]), Good)
                          /\ Apart(t[i]) /\ Whole(t[i], Elements(cands[i]))
                          /\ t[i] \in Seq(Good)
  <2> SUFFICES ASSUME NEW i \in DOMAIN cands
               PROVE  LET l == Scene!SplitByLimits(cands[i], cfg)
                      IN Within(l, Elements(cands[i]), Good) /\ Apart(l) /\ Whole(l, Elements(cands[i])) /\ l \in Seq(Good)
    OBVIOUS
  <2> DEFINE h == cands[i]
  <2>1. h \in Candidates(F, cfg)
    BY <1>2
  <2> HIDE DEF h
  <2>2. LET l == Scene!SplitByLimits(h, cfg)
        IN Within(l, Elements(h), Pieces(F, cfg)) /\ Apart(l) /\ Whole(l, Elements(h))
    BY <2>1, LimitFacts DEF F
  <2> QED BY <2>2 DEF h, Within
<1>4. DOMAIN t = DOMAIN cands /\ t \in Seq(Seq(Good))
  <2>1. t = [i \in 1..Len(cands) |-> t[i]] /\ DOMAIN t = 1..Len(cands)
    BY <1>2
  <2>2. \A i \in 1..Len(cands) : t[i] \in Seq(Good)
    BY <2>1, <1>3
  <2> HIDE DEF t, Good
  <2>3. t \in [1..Len(cands) -> Seq(Good)]
    BY <2>1, <2>2, Zenon
  <2> QED BY <2>1, <2>3, <1>2
<1>5. \A c \in DOMAIN t : Elements(cands[c]) \subseteq Elements(g)
  BY <1>1, <1>4 DEF Within
<1> HIDE DEF t, Good
<1>6. /\ Within(J, Elements(g), Good)
      /\ Apart(cands) => Apart(J)
      /\ Whole(cands, Elements(g)) => Whole(J, Elements(g))
  <2> DEFINE S == Elements(g)
  <2>1. \A c \in DOMAIN t : Elements(cands[c]) \subseteq S
    BY <1>5
  <2> HIDE DEF S
  <2>2. /\ Within(Joined(t), S, Good)
        /\ Apart(cands) => Apart(Joined(t))
        /\ Whole(cands, S) => Whole(Joined(t), S)
    <3>1. DOMAIN cands = DOMAIN t /\ t \in Seq(Seq(Good))
      BY <1>4
    <3>2. \A c \in DOMAIN t : Within(t[c], Elements(cands[c]), Good) /\ Apart(t[c]) /\ Whole(t[c], Elements(cands[c]))
      BY <1>3
    <3> QED BY ONLY <3>1, <3>2, <2>1, JoinedShares
  <2> QED BY <2>2 DEF S
<1> HIDE DEF J
<1>7. /\ Within(Picked(J, I), Elements(g), {J[i] : i \in I})
      /\ Apart(J) => Apart(Picked(J, I))
      /\ Whole(J, Elements(g)) /\ I = DOMAIN J => Whole(Picked(J, I), Elements(g))
  <2>1. I \in SUBSET DOMAIN J
    OBVIOUS
  <2> HIDE DEF I
  <2> QED BY <2>1, <1>6, PickedShares
<1>8. {J[i] : i \in I} \subseteq Chunks(F, cfg)
  <2> SUFFICES ASSUME NEW i \in I PROVE J[i] \in Chunks(F, cfg)
    OBVIOUS
  <2>1. J[i] \in Pieces(F, cfg)
    BY <1>6 DEF Within, Good
  <2> QED BY <2>1 DEF Chunks, Scene!PassesFilters
<1>9. Within(Picked(J, I), Elements(g), Chunks(F, cfg))
  <2> DEFINE Left == {J[i] : i \in I}
  <2>1. Within(Picked(J, I), Elements(g), Left) /\ Left \subseteq Chunks(F, cfg)
    BY <1>7, <1>8
  <2> HIDE DEF Left, I
  <2> QED BY <2>1 DEF Within
<1>10. ~Leaves(cfg) => I = DOMAIN J
  <2> SUFFICES ASSUME ~Leaves(cfg), NEW i \in DOMAIN J PROVE Scene!PassesFilters(J[i], cfg)
    OBVIOUS
  <2>1. J[i] \in Pieces(F, cfg)
    BY <1>6 DEF Within, Good
  <2>2. Len(J[i]) >= 1 /\ Len(J[i]) \in Nat
    BY <2>1 DEF Pieces, Candidates, Ordered
  <2>3. cfg.minCount \in Nat /\ ~(cfg.minCount > 1) /\ cfg.minDuration = None
    BY ConfigFacts DEF Leaves
  <2> QED BY <2>2, <2>3 DEF Scene!PassesFilters
<1>11. Scene!GroupChunks(g, cfg) = Picked(J, I)
  BY SceneLists DEF Scene!GroupChunks, Scene!Flattened, Scene!Mapped, Scene!Filter, J, t, cands, CandidatesOf
<1> HIDE DEF I
<1> QED BY <1>1, <1>6, <1>7, <1>9, <1>10, <1>11 DEF F, Leaves
-----------------------------------------------------------------------------
(* The groups *)

\* The frames of l are there once each.
Once(l) == \A i, j \in DOMAIN l : l[i] = l[j] => i = j

\* What is picked from elements that are there once is there once.
LEMMA OncePicked ==
  ASSUME NEW T, NEW s \in Seq(T), Once(s), NEW I \in SUBSET DOMAIN s
  PROVE  Once(Picked(s, I)) /\ Picked(s, I) \in Seq(T) /\ Elements(Picked(s, I)) = {s[i] : i \in I}
<1> DEFINE p == Picked(s, I)
           n == Cardinality(I)
           at == SortedSet(I)
<1>1. /\ n \in Nat /\ p \in Seq(T)
      /\ \A k \in 1..n : at[k] \in I /\ p[k] = s[at[k]]
      /\ \A j, k \in 1..n : j < k => at[j] < at[k]
  BY PickedFacts
<1>2. DOMAIN p = 1..n /\ Elements(p) = {s[i] : i \in I}
  BY PickedElements
<1>3. DOMAIN s \subseteq Int
  OBVIOUS
<1> HIDE DEF p, n, at
<1>4. Once(p)
  <2> SUFFICES ASSUME NEW j \in 1..n, NEW k \in 1..n, p[j] = p[k] PROVE j = k
    BY <1>2 DEF Once
  <2>1. at[j] = at[k]
    BY <1>1 DEF Once
  <2>2. at[j] \in Int /\ at[k] \in Int
    BY <1>1, <1>3
  <2>3. ~(j < k) /\ ~(k < j)
    BY <2>1, <2>2, <1>1
  <2> QED BY <2>3, <1>1
<1> QED BY <1>1, <1>2, <1>4 DEF p

\* Frames that are there once, sorted by their times, are in order.
LEMMA OrderedSorted ==
  ASSUME NEW F, Timed(F), NEW s \in Seq(F), Once(s), Len(s) >= 1,
         NEW keys, DOMAIN keys = DOMAIN s, \A i \in DOMAIN s : keys[i] = s[i].ts,
         NEW r, r = [k \in DOMAIN s |-> s[PlaceOf(keys, k)]]
  PROVE  Ordered(r, F) /\ Elements(r) = Elements(s)
<1>1. \A i \in DOMAIN s : s[i] \in F /\ keys[i] \in Int
  BY DEF Timed
<1>2. Elements(r) = Elements(s) /\ \E at : InKeyOrder(r, s, keys, at)
  <2>1. s \in Seq(F) /\ DOMAIN keys = DOMAIN s /\ \A i \in DOMAIN s : keys[i] \in Int
    BY <1>1
  <2>2. DOMAIN r = DOMAIN s /\ \A k \in DOMAIN s : r[k] = s[PlaceOf(keys, k)]
    OBVIOUS
  <2> QED BY ONLY <2>1, <2>2, SortFacts
<1>3. PICK at :
        /\ \A k \in DOMAIN s : at[k] \in DOMAIN s /\ r[k] = s[at[k]]
        /\ \A j, k \in DOMAIN s : j # k => at[j] # at[k]
        /\ \A j, k \in DOMAIN s : j < k => keys[at[j]] <= keys[at[k]]
  BY <1>2 DEF InKeyOrder
<1>4. r \in Seq(F) /\ DOMAIN r = DOMAIN s /\ Len(r) = Len(s)
  <2>1. DOMAIN s = 1..Len(s) /\ Len(s) \in Nat
    OBVIOUS
  <2>2. \A k \in 1..Len(s) : r[k] \in F
    BY <2>1, <1>1, <1>3
  <2>3. r = [k \in 1..Len(s) |-> r[k]] /\ DOMAIN r = 1..Len(s)
    BY <2>1
  <2>4. r \in [1..Len(s) -> F]
    BY <2>2, <2>3, Zenon
  <2> QED BY <2>1, <2>3, <2>4
<1>5. ASSUME NEW j \in DOMAIN r, NEW k \in DOMAIN r, j < k
      PROVE  r[j].ts <= r[k].ts /\ r[j] # r[k]
  <2>1. at[j] \in DOMAIN s /\ at[k] \in DOMAIN s /\ at[j] # at[k] /\ keys[at[j]] <= keys[at[k]]
    <3>1. j # k /\ j \in DOMAIN s /\ k \in DOMAIN s
      BY <1>2, <1>5
    <3> QED BY <3>1, <1>5, <1>3
  <2>2. keys[at[j]] = r[j].ts /\ keys[at[k]] = r[k].ts /\ r[j] = s[at[j]] /\ r[k] = s[at[k]]
    <3>1. j \in DOMAIN s /\ k \in DOMAIN s
      BY <1>4
    <3>2. r[j] = s[at[j]] /\ r[k] = s[at[k]]
      BY <3>1, <1>3
    <3>3. keys[at[j]] = s[at[j]].ts /\ keys[at[k]] = s[at[k]].ts
      BY <2>1
    <3> QED BY <3>2, <3>3
  <2> QED BY <2>1, <2>2 DEF Once
<1>6. Len(r) >= 1
  BY <1>4
<1> QED BY <1>2, <1>4, <1>5, <1>6 DEF Ordered

\* The frames that are kept, and those of them with one key.
Kept(frames, cfg) == {x \in Elements(frames) : ~Scene!DropsFrame(x, cfg)}

OfKey(frames, cfg, k) == {x \in Kept(frames, cfg) : Scene!GroupKey(x, cfg, Log) = k}

\* Each group holds, in order, the frames that are kept and have its key.
LEMMA GroupFacts ==
  ASSUME NEW frames, NEW cfg, Scene!ValidLog(frames, cfg, Log)
  PROVE  LET G == Scene!Groups(frames, cfg, Log)
         IN /\ DOMAIN G \in SUBSET Int /\ IsFiniteSet(DOMAIN G)
            /\ \A k \in DOMAIN G :
                 /\ Ordered(G[k], Elements(frames))
                 /\ Elements(G[k]) = OfKey(frames, cfg, k)
            /\ \A x \in Kept(frames, cfg) : Scene!GroupKey(x, cfg, Log) \in DOMAIN G
<1> DEFINE F == Elements(frames)
           Key(x) == Scene!GroupKey(x, cfg, Log)
           K == {i \in DOMAIN frames : ~Scene!DropsFrame(frames[i], cfg)}
           kept == Picked(frames, K)
           M(k) == {i \in DOMAIN kept : Key(kept[i]) = k}
           Group(k) == Picked(kept, M(k))
           times(k) == [i \in DOMAIN Group(k) |-> Group(k)[i].ts]
           S == {Key(x) : x \in Elements(kept)}
           G == [k \in S |-> [i \in DOMAIN Group(k) |-> Group(k)[PlaceOf(times(k), i)]]]
<1>1. /\ frames \in Seq(F)
      /\ \A i \in DOMAIN frames : frames[i].id = i /\ frames[i].ts \in Int /\ frames[i].seq \in Int \union {None}
      /\ cfg.defaultSequence \in Int
  BY SceneLists DEF Scene!ValidLog
<1>2. Timed(F) /\ Once(frames)
  BY <1>1 DEF Timed, Once, Elements
<1>3. \A x \in F : Key(x) \in Int
  <2> SUFFICES ASSUME NEW x \in F PROVE Key(x) \in Int
    OBVIOUS
  <2>1. x.seq \in Int \union {None}
    BY <1>1 DEF Elements
  <2> QED BY <2>1, <1>1 DEF Scene!GroupKey, Log
<1>4. Scene!Groups(frames, cfg, Log) = G
  BY SceneLists DEF Scene!Groups, Scene!Filter, Scene!StableSort, Scene!Mapped, Scene!FrameTime
<1>5. Once(kept) /\ kept \in Seq(F) /\ Elements(kept) = {frames[i] : i \in K}
  <2>1. K \in SUBSET DOMAIN frames
    OBVIOUS
  <2> HIDE DEF K, F
  <2> QED BY <1>1, <1>2, <2>1, OncePicked
<1>6. Elements(kept) = Kept(frames, cfg)
  BY <1>5 DEF Kept, Elements, K
<1> HIDE DEF kept, K
<1>7. S \in SUBSET Int /\ IsFiniteSet(S)
  <2>1. S \in SUBSET Int
    BY <1>3, <1>6 DEF Kept
  <2>2. S = {Key(kept[i]) : i \in DOMAIN kept}
    BY DEF Elements
  <2>3. IsFiniteSet(DOMAIN kept)
    BY <1>5, DomainFacts
  <2> DEFINE key == [i \in DOMAIN kept |-> Key(kept[i])]
  <2>4. key \in Surjection(DOMAIN kept, S)
    <3>1. \A k \in S : \E i \in DOMAIN kept : key[i] = k
      BY <2>2
    <3>2. \A i \in DOMAIN kept : key[i] \in S
      BY <2>2
    <3> HIDE DEF S
    <3> QED BY <3>1, <3>2 DEF Surjection
  <2>5. IsFiniteSet(S)
    <3> HIDE DEF S, key
    <3> QED BY <2>3, <2>4, FS_Surjection
  <2> QED BY <2>1, <2>5
<1>8. ASSUME NEW k \in S
      PROVE  Ordered(G[k], F) /\ Elements(G[k]) = {x \in Kept(frames, cfg) : Key(x) = k}
  <2>1. M(k) \in SUBSET DOMAIN kept
    OBVIOUS
  <2> DEFINE p == Group(k)
             I == M(k)
  <2>2. Once(p) /\ p \in Seq(F) /\ Elements(p) = {kept[i] : i \in I}
    <3> HIDE DEF I, F
    <3> QED BY <2>1, <1>5, OncePicked DEF I
  <2>3. Elements(p) = {x \in Kept(frames, cfg) : Key(x) = k}
    <3>1. \A x : x \in Elements(p) <=> \E i \in DOMAIN kept : Key(kept[i]) = k /\ x = kept[i]
      BY <2>2
    <3>2. \A x : x \in Kept(frames, cfg) <=> \E i \in DOMAIN kept : x = kept[i]
      BY <1>6 DEF Elements
    <3> HIDE DEF p, Key
    <3> QED BY <3>1, <3>2
  <2>4. Len(p) >= 1
    <3>1. PICK x \in Elements(kept) : Key(x) = k
      OBVIOUS
    <3>2. x \in Elements(p)
      BY <3>1, <2>3, <1>6
    <3> HIDE DEF p
    <3> QED BY <3>2, <2>2 DEF Elements
  <2> DEFINE t == times(k)
             r == [i \in DOMAIN p |-> p[PlaceOf(t, i)]]
  <2>5. DOMAIN t = DOMAIN p /\ \A i \in DOMAIN p : t[i] = p[i].ts
    OBVIOUS
  <2>6. G[k] = r
    OBVIOUS
  <2>7. Ordered(r, F) /\ Elements(r) = Elements(p)
    <3> DEFINE q == r
    <3>1. q = [i \in DOMAIN p |-> p[PlaceOf(t, i)]]
      OBVIOUS
    <3> HIDE DEF p, t, F, q
    <3>2. Ordered(q, F) /\ Elements(q) = Elements(p)
      BY ONLY <1>2, <2>2, <2>4, <2>5, <3>1, OrderedSorted
    <3> QED BY <3>2, <3>1
  <2> HIDE DEF G, r, p
  <2> QED BY <2>3, <2>6, <2>7
<1>9. DOMAIN G = S
  OBVIOUS
<1>10. \A x \in Kept(frames, cfg) : Key(x) \in S
  BY <1>6
<1> HIDE DEF G, S
<1> QED BY <1>4, <1>7, <1>8, <1>9, <1>10 DEF Key, F, OfKey
-----------------------------------------------------------------------------
(* The segments *)

\* The chunks of a group, and the segment made of one of them.
ChunksOf(frames, cfg, k) == Scene!GroupChunks(Scene!Groups(frames, cfg, Log)[k], cfg)
IdOf(cfg, k, i) == Scene!SegmentId(Log, k, cfg.strategy, i - 1)
SegmentOf(frames, cfg, k, i) == Scene!MakeSegment(IdOf(cfg, k, i), ChunksOf(frames, cfg, k)[i])
MadeOf(s, c) ==
  s.start = c[1].ts /\ s.end = c[Len(c)].ts /\ s.frames = [j \in DOMAIN c |-> c[j].id]

\* The segments in out are those of all chunks: key says of each the group, no
\* the number of the chunk in it.
IsCutting(out, frames, cfg, key, no) ==
  LET keys == DOMAIN Scene!Groups(frames, cfg, Log)
  IN /\ \A o \in DOMAIN out : /\ key[o] \in keys /\ no[o] \in DOMAIN ChunksOf(frames, cfg, key[o])
                              /\ out[o] = SegmentOf(frames, cfg, key[o], no[o])
     /\ \A o, p \in DOMAIN out : key[o] = key[p] /\ no[o] = no[p] => o = p
     /\ \A k \in keys : \A i \in DOMAIN ChunksOf(frames, cfg, k) : \E o \in DOMAIN out : key[o] = k /\ no[o] = i

\* What the chunks of a group are.
LEMMA ChunksOfFacts ==
  ASSUME NEW frames, NEW cfg, Scene!ValidSegmentation(cfg), Scene!ValidLog(frames, cfg, Log),
         NEW k \in DOMAIN Scene!Groups(frames, cfg, Log)
  PROVE  LET L == ChunksOf(frames, cfg, k)
             E == OfKey(frames, cfg, k)
         IN /\ Within(L, E, Chunks(Elements(frames), cfg))
            /\ ~Overlap(cfg) => Apart(L)
            /\ ~Leaves(cfg) => Whole(L, E)
            /\ E # {}
<1> DEFINE g == Scene!Groups(frames, cfg, Log)[k]
           E == OfKey(frames, cfg, k)
<1>1. Ordered(g, Elements(frames)) /\ Elements(g) = E
  <2> HIDE DEF E
  <2> QED BY GroupFacts DEF E
<1> HIDE DEF g, E
<1>2. LET L == Scene!GroupChunks(g, cfg)
      IN /\ Within(L, Elements(g), Chunks(Elements(frames), cfg))
         /\ ~Overlap(cfg) => Apart(L)
         /\ ~Leaves(cfg) => Whole(L, Elements(g))
  BY <1>1, ChunkFacts
<1>3. E # {}
  <2>1. 1 \in DOMAIN g
    BY <1>1 DEF Ordered
  <2> QED BY <2>1, <1>1 DEF Elements
<1> QED BY <1>1, <1>2, <1>3 DEF ChunksOf, g, E

\* What is made of a chunk.
LEMMA SegmentOfFacts ==
  ASSUME NEW frames, NEW cfg, NEW k, NEW i
  PROVE  /\ SegmentOf(frames, cfg, k, i).id = IdOf(cfg, k, i)
         /\ MadeOf(SegmentOf(frames, cfg, k, i), ChunksOf(frames, cfg, k)[i])
  BY DEF SegmentOf, Scene!MakeSegment, Scene!Mapped, Scene!FrameId, Scene!Last, MadeOf

\* Every chunk of every group is a segment, once.
LEMMA SegmentsFacts ==
  ASSUME NEW frames, NEW cfg, Scene!ValidSegmentation(cfg), Scene!ValidLog(frames, cfg, Log)
  PROVE  \E key, no : IsCutting(Scene!Segments(frames, cfg, Log), frames, cfg, key, no)
<1> DEFINE keys == DOMAIN Scene!Groups(frames, cfg, Log)
           n == Cardinality(keys)
           ks == SortedSet(keys)
           C(k) == ChunksOf(frames, cfg, k)
           All == {SegmentOf(frames, cfg, k, i) : k \in keys, i \in Nat}
           t == [c \in DOMAIN ks |-> [i \in DOMAIN C(ks[c]) |-> SegmentOf(frames, cfg, ks[c], i)]]
           J == Joined(t)
           starts == [i \in DOMAIN J |-> J[i].start]
           out == [i \in DOMAIN J |-> J[PlaceOf(starts, i)]]
<1>1. Scene!Segments(frames, cfg, Log) = out
  BY SceneLists DEF Scene!Segments, Scene!Flattened, Scene!Mapped, Scene!StableSort, ChunksOf, SegmentOf, IdOf
<1>2. /\ n \in Nat /\ DOMAIN ks = 1..n
      /\ \A c \in 1..n : ks[c] \in keys
      /\ \A c, d \in 1..n : c # d => ks[c] # ks[d]
      /\ \A k \in keys : \E c \in 1..n : ks[c] = k
  <2>1. keys \in SUBSET Int /\ IsFiniteSet(keys)
    BY GroupFacts
  <2> HIDE DEF keys
  <2>2. /\ n \in Nat /\ ks \in [1..n -> keys]
        /\ \A j, k \in 1..n : j < k => ks[j] < ks[k]
        /\ \A x \in keys : \E k \in 1..n : ks[k] = x
    BY <2>1, SortedSetFacts
  <2> HIDE DEF n, ks
  <2>3. ASSUME NEW c \in 1..n, NEW d \in 1..n, c # d PROVE ks[c] # ks[d]
    <3>1. c < d \/ d < c
      BY <2>2, <2>3
    <3>2. ks[c] \in Int /\ ks[d] \in Int
      BY <2>1, <2>2
    <3>3. ks[c] < ks[d] \/ ks[d] < ks[c]
      BY <3>1, <2>2
    <3> QED BY <3>2, <3>3
  <2> QED BY <2>2, <2>3
<1> HIDE DEF n, ks
<1>3. \A k \in keys : C(k) \in Seq(Chunks(Elements(frames), cfg)) /\ DOMAIN C(k) = 1..Len(C(k)) /\ Len(C(k)) \in Nat
  <2> SUFFICES ASSUME NEW k \in keys
               PROVE  C(k) \in Seq(Chunks(Elements(frames), cfg)) /\ DOMAIN C(k) = 1..Len(C(k)) /\ Len(C(k)) \in Nat
    OBVIOUS
  <2>1. C(k) \in Seq(Chunks(Elements(frames), cfg))
    BY ChunksOfFacts DEF Within
  <2> QED BY <2>1
<1>4. DOMAIN t = 1..n /\ t \in Seq(Seq(All))
  <2>1. ASSUME NEW c \in 1..n PROVE t[c] \in Seq(All)
    <3> DEFINE k == ks[c]
               m == Len(C(k))
               row == t[c]
    <3>1. k \in keys /\ m \in Nat /\ DOMAIN C(k) = 1..m
      BY <1>2, <1>3
    <3>2. row = [i \in 1..m |-> SegmentOf(frames, cfg, k, i)]
      BY <1>2, <3>1
    <3> HIDE DEF k, m, keys
    <3>3. \A i \in 1..m : SegmentOf(frames, cfg, k, i) \in All
      BY <3>1
    <3> HIDE DEF row, All
    <3>4. row \in [1..m -> All]
      BY <3>2, <3>3, Zenon
    <3> QED BY <3>1, <3>4 DEF row
  <2>2. t = [c \in 1..n |-> t[c]] /\ DOMAIN t = 1..n
    BY <1>2
  <2> HIDE DEF t, All
  <2>3. t \in [1..n -> Seq(All)]
    BY <2>1, <2>2, Zenon
  <2> QED BY <2>2, <2>3, <1>2
<1>5. \A c \in 1..n : DOMAIN t[c] = DOMAIN C(ks[c]) /\ \A i \in DOMAIN C(ks[c]) : t[c][i] = SegmentOf(frames, cfg, ks[c], i)
  BY <1>2
<1> HIDE DEF t
<1>6. J \in Seq(All) /\ \E row, col : IsJoined(J, t, row, col)
  <2> HIDE DEF All
  <2> QED BY <1>4, JoinedFacts
<1> HIDE DEF J
<1>7. PICK row, col : IsJoined(J, t, row, col)
  BY <1>6
<1>8. ASSUME NEW i \in DOMAIN J
      PROVE  /\ row[i] \in 1..n /\ ks[row[i]] \in keys /\ col[i] \in DOMAIN C(ks[row[i]])
             /\ J[i] = SegmentOf(frames, cfg, ks[row[i]], col[i])
  <2>1. row[i] \in 1..n /\ col[i] \in DOMAIN t[row[i]] /\ J[i] = t[row[i]][col[i]]
    BY <1>7, <1>4 DEF IsJoined
  <2> QED BY <2>1, <1>2, <1>5
<1>9. \A i \in DOMAIN J : starts[i] \in Int
  <2> SUFFICES ASSUME NEW i \in DOMAIN J PROVE J[i].start \in Int
    OBVIOUS
  <2> DEFINE k == ks[row[i]]
             c == C(k)[col[i]]
  <2>1. k \in keys /\ col[i] \in DOMAIN C(k) /\ J[i].start = c[1].ts
    <3>1. k \in keys /\ col[i] \in DOMAIN C(k) /\ J[i] = SegmentOf(frames, cfg, k, col[i])
      BY <1>8
    <3> HIDE DEF k, keys
    <3>2. MadeOf(SegmentOf(frames, cfg, k, col[i]), ChunksOf(frames, cfg, k)[col[i]])
      BY SegmentOfFacts
    <3> QED BY <3>1, <3>2 DEF MadeOf
  <2>2. c \in Chunks(Elements(frames), cfg)
    BY <2>1, <1>3
  <2>3. Timed(Elements(frames))
    BY ConfigFacts
  <2> HIDE DEF c
  <2>4. c[1] \in Elements(frames)
    BY <2>2 DEF Chunks, Pieces, Candidates, Ordered
  <2> QED BY <2>1, <2>3, <2>4 DEF Timed
<1>10. PICK at : InKeyOrder(out, J, starts, at)
  <2> DEFINE o == out
             st == starts
  <2>1. DOMAIN o = DOMAIN J /\ DOMAIN st = DOMAIN J /\ \A i \in DOMAIN J : o[i] = J[PlaceOf(st, i)]
    OBVIOUS
  <2>2. J \in Seq(All) /\ \A i \in DOMAIN J : st[i] \in Int
    BY <1>6, <1>9
  <2> HIDE DEF o, st, All
  <2>3. \E at : InKeyOrder(o, J, st, at)
    BY ONLY <2>1, <2>2, SortFacts
  <2> QED BY <2>3 DEF o, st
<1>11. DOMAIN out = DOMAIN J
  OBVIOUS
<1> HIDE DEF out, starts, All, keys
<1>12. /\ \A o \in DOMAIN J : at[o] \in DOMAIN J /\ out[o] = J[at[o]]
       /\ \A i \in DOMAIN J : \E o \in DOMAIN J : at[o] = i
       /\ \A o, p \in DOMAIN J : o # p => at[o] # at[p]
  BY <1>10 DEF InKeyOrder
<1> DEFINE key == [o \in DOMAIN J |-> ks[row[at[o]]]]
           no == [o \in DOMAIN J |-> col[at[o]]]
<1>13. ASSUME NEW o \in DOMAIN J
       PROVE  key[o] \in keys /\ no[o] \in DOMAIN C(key[o]) /\ out[o] = SegmentOf(frames, cfg, key[o], no[o])
  <2> DEFINE i == at[o]
  <2>1. i \in DOMAIN J /\ out[o] = J[i] /\ key[o] = ks[row[i]] /\ no[o] = col[i]
    BY <1>12
  <2> HIDE DEF i, key, no
  <2>2. /\ ks[row[i]] \in keys /\ col[i] \in DOMAIN C(ks[row[i]])
        /\ J[i] = SegmentOf(frames, cfg, ks[row[i]], col[i])
    BY <2>1, <1>8
  <2> QED BY <2>1, <2>2
<1>14. ASSUME NEW o \in DOMAIN J, NEW p \in DOMAIN J, key[o] = key[p], no[o] = no[p]
       PROVE  o = p
  <2> DEFINE i == at[o]
             j == at[p]
  <2>1. i \in DOMAIN J /\ j \in DOMAIN J /\ ks[row[i]] = ks[row[j]] /\ col[i] = col[j] /\ (i = j => o = p)
    BY <1>12, <1>14
  <2> HIDE DEF i, j
  <2>2. row[i] = row[j]
    BY <2>1, <1>2, <1>8
  <2>3. i = j
    BY <2>1, <2>2, <1>7 DEF IsJoined
  <2> QED BY <2>1, <2>3
<1>15. ASSUME NEW k \in keys, NEW d \in DOMAIN C(k)
       PROVE  \E o \in DOMAIN J : key[o] = k /\ no[o] = d
  <2>1. PICK c \in 1..n : ks[c] = k
    BY <1>2
  <2>2. c \in DOMAIN t /\ d \in DOMAIN t[c]
    BY <2>1, <1>4, <1>5
  <2>3. PICK i \in DOMAIN J : row[i] = c /\ col[i] = d
    BY <2>2, <1>7 DEF IsJoined
  <2>4. PICK o \in DOMAIN J : at[o] = i
    BY <1>12
  <2>5. key[o] = k /\ no[o] = d
    BY <2>1, <2>3, <2>4
  <2> QED BY <2>5
<1> HIDE DEF key, no
<1>16. IsCutting(out, frames, cfg, key, no)
  BY <1>11, <1>13, <1>14, <1>15 DEF IsCutting, keys
<1> QED BY <1>1, <1>16
-----------------------------------------------------------------------------

\* No two segments have one id.
LEMMA IdsDiffer ==
  ASSUME NEW frames, NEW cfg, Scene!ValidSegmentation(cfg), Scene!ValidLog(frames, cfg, Log),
         NEW out, NEW key, NEW no, IsCutting(out, frames, cfg, key, no),
         NEW o \in DOMAIN out, NEW p \in DOMAIN out, o # p
  PROVE  out[o].id # out[p].id
<1> DEFINE keys == DOMAIN Scene!Groups(frames, cfg, Log)
           Id(k, i) == IdOf(cfg, k, i)
<1>1. ASSUME NEW q \in DOMAIN out
      PROVE  /\ key[q] \in keys /\ no[q] \in Nat /\ out[q].id = Id(key[q], no[q])
             /\ \E f \in Elements(frames) : Scene!GroupKey(f, cfg, Log) = key[q]
  <2> DEFINE k == key[q]
             i == no[q]
  <2>1. k \in keys /\ i \in DOMAIN ChunksOf(frames, cfg, k) /\ out[q] = SegmentOf(frames, cfg, k, i)
    BY DEF IsCutting
  <2> HIDE DEF k, i
  <2>2. SegmentOf(frames, cfg, k, i).id = Id(k, i)
    BY SegmentOfFacts
  <2>3. ChunksOf(frames, cfg, k) \in Seq(Chunks(Elements(frames), cfg))
    BY <2>1, ChunksOfFacts DEF Within
  <2>4. OfKey(frames, cfg, k) # {}
    BY <2>1, ChunksOfFacts
  <2> HIDE DEF Id
  <2> QED BY <2>1, <2>2, <2>3, <2>4 DEF OfKey, Kept, k, i
<1>2. \A f, g \in Elements(frames) :
        SafeKey(Scene!GroupKey(f, cfg, Log)) = SafeKey(Scene!GroupKey(g, cfg, Log))
        => Scene!GroupKey(f, cfg, Log) = Scene!GroupKey(g, cfg, Log)
  BY SceneLists DEF Scene!ValidLog
<1>3. SafeKey(key[o]) = SafeKey(key[p]) => key[o] = key[p]
  BY <1>1, <1>2
<1>4. key[o] = key[p] => no[o] # no[p]
  BY DEF IsCutting
<1>5. no[o] \in Nat /\ no[p] \in Nat
  BY <1>1
<1> DEFINE k == key[o]
           l == key[p]
           i == no[o]
           j == no[p]
<1>6. Id(k, i) # Id(l, j)
  <2>1. k = l => i # j
    BY <1>4
  <2>2. SafeKey(k) = SafeKey(l) => k = l
    BY <1>3
  <2>3. i \in Int /\ j \in Int
    BY <1>5
  <2> HIDE DEF k, l, i, j
  <2> DEFINE First(a) == cfg.strategy = "sequence" /\ a - 1 = 0
  <2>4. \A m, a : Id(m, a) = IF First(a) THEN <<m>> ELSE <<Log, SafeKey(m), cfg.strategy, a - 1>>
    BY DEF Scene!SegmentId, IdOf
  <2> HIDE DEF Id
  <2>5. CASE First(i) /\ First(j)
    <3>1. i = j
      BY <2>3, <2>5
    <3>2. Id(k, i) = <<k>> /\ Id(l, j) = <<l>>
      BY <2>4, <2>5
    <3> QED BY <3>1, <3>2, <2>1
  <2> HIDE DEF First
  <2>6. CASE First(i) /\ ~First(j)
    <3>1. Id(k, i) = <<k>> /\ Id(l, j) = <<Log, SafeKey(l), cfg.strategy, j - 1>>
      BY <2>4, <2>6
    <3>2. Len(Id(k, i)) = 1 /\ Len(Id(l, j)) = 4
      BY <3>1
    <3> QED BY <3>2
  <2>7. CASE ~First(i) /\ First(j)
    <3>1. Id(k, i) = <<Log, SafeKey(k), cfg.strategy, i - 1>> /\ Id(l, j) = <<l>>
      BY <2>4, <2>7
    <3>2. Len(Id(k, i)) = 4 /\ Len(Id(l, j)) = 1
      BY <3>1
    <3> QED BY <3>2
  <2>8. CASE ~First(i) /\ ~First(j)
    <3>1. Id(k, i) = <<Log, SafeKey(k), cfg.strategy, i - 1>> /\ Id(l, j) = <<Log, SafeKey(l), cfg.strategy, j - 1>>
      BY <2>4, <2>8
    <3>2. Id(k, i) = Id(l, j) => SafeKey(k) = SafeKey(l) /\ i - 1 = j - 1
      BY <3>1
    <3>3. i - 1 = j - 1 => i = j
      BY <2>3
    <3> QED BY <3>2, <3>3, <2>1, <2>2
  <2> QED BY <2>5, <2>6, <2>7, <2>8
<1> QED BY <1>1, <1>6

\* The chunk that a segment is made of.
ChunkAt(frames, cfg, key, no, o) == ChunksOf(frames, cfg, key[o])[no[o]]

\* What the segment says of its chunk, and whose the chunk's frames are.
LEMMA ChunkAtFacts ==
  ASSUME NEW frames, NEW cfg, Scene!ValidSegmentation(cfg), Scene!ValidLog(frames, cfg, Log),
         NEW out, NEW key, NEW no, IsCutting(out, frames, cfg, key, no), NEW o \in DOMAIN out
  PROVE  LET c == ChunkAt(frames, cfg, key, no, o)
         IN /\ c \in Chunks(Elements(frames), cfg)
            /\ Elements(c) \subseteq OfKey(frames, cfg, key[o])
            /\ MadeOf(out[o], c)
            /\ \A j \in DOMAIN c : frames[c[j].id] = c[j]
            /\ \A f \in Elements(frames) : f.id \in Elements(out[o].frames) <=> f \in Elements(c)
<1> DEFINE k == key[o]
           i == no[o]
           c == ChunksOf(frames, cfg, k)[i]
           E == OfKey(frames, cfg, k)
           F == Elements(frames)
<1>1. /\ k \in DOMAIN Scene!Groups(frames, cfg, Log) /\ i \in DOMAIN ChunksOf(frames, cfg, k)
      /\ out[o] = SegmentOf(frames, cfg, k, i)
  BY DEF IsCutting
<1> HIDE DEF k, i
<1>2. Within(ChunksOf(frames, cfg, k), E, Chunks(F, cfg))
  BY <1>1, ChunksOfFacts
<1>3. c \in Chunks(F, cfg) /\ Elements(c) \subseteq E
  BY <1>1, <1>2 DEF Within
<1>4. MadeOf(out[o], c)
  BY <1>1, SegmentOfFacts
<1> HIDE DEF c
<1>5. \A f \in F : frames[f.id] = f
  <2>1. \A m \in DOMAIN frames : frames[m].id = m
    BY SceneLists DEF Scene!ValidLog
  <2> QED BY <2>1 DEF Elements
<1>6. \A j \in DOMAIN c : c[j] \in F
  BY <1>3 DEF Chunks, Pieces, Candidates
<1>7. ASSUME NEW f \in F
      PROVE  f.id \in Elements(out[o].frames) <=> f \in Elements(c)
  <2>1. f.id \in Elements(out[o].frames) <=> \E j \in DOMAIN c : c[j].id = f.id
    BY <1>4 DEF Elements, MadeOf
  <2>2. \A j \in DOMAIN c : c[j].id = f.id <=> c[j] = f
    BY <1>5, <1>6
  <2> QED BY <2>1, <2>2 DEF Elements
<1>8. \A j \in DOMAIN c : frames[c[j].id] = c[j]
  BY <1>5, <1>6
<1> HIDE DEF E
<1> QED BY <1>3, <1>4, <1>7, <1>8 DEF ChunkAt, c, k, i, E, F

\* The places of the segments that hold a frame.
HoldingOf(out, f) == {o \in DOMAIN out : f.id \in Elements(out[o].frames)}

\* A frame that is dropped is in no segment; another is in one at most, unless
\* windows overlap, and in one at least, unless windows or filters leave frames.
LEMMA FramesHeld ==
  ASSUME NEW frames, NEW cfg, Scene!ValidSegmentation(cfg), Scene!ValidLog(frames, cfg, Log),
         NEW out, NEW key, NEW no, IsCutting(out, frames, cfg, key, no), NEW f \in Elements(frames)
  PROVE  IF Scene!DropsFrame(f, cfg) THEN HoldingOf(out, f) = {}
         ELSE /\ Overlap(cfg) \/ Cardinality(HoldingOf(out, f)) <= 1
              /\ Leaves(cfg) \/ HoldingOf(out, f) # {}
<1> DEFINE holding == HoldingOf(out, f)
           C(o) == ChunkAt(frames, cfg, key, no, o)
           k == Scene!GroupKey(f, cfg, Log)
           L == ChunksOf(frames, cfg, k)
<1>1. \A o \in DOMAIN out : f.id \in Elements(out[o].frames) <=> f \in Elements(C(o))
  BY ChunkAtFacts
<1>2. \A o \in holding : f \in Elements(C(o)) /\ f \in Kept(frames, cfg) /\ key[o] = k
  <2> SUFFICES ASSUME NEW o \in holding
               PROVE  f \in Elements(C(o)) /\ f \in Kept(frames, cfg) /\ key[o] = k
    OBVIOUS
  <2>1. f \in Elements(C(o))
    BY <1>1 DEF HoldingOf
  <2>2. Elements(C(o)) \subseteq OfKey(frames, cfg, key[o])
    BY ChunkAtFacts DEF HoldingOf
  <2> QED BY <2>1, <2>2 DEF OfKey
<1>3. CASE Scene!DropsFrame(f, cfg)
  <2>1. holding = {}
    BY <1>2, <1>3 DEF Kept
  <2> QED BY <2>1, <1>3
<1>4. CASE ~Scene!DropsFrame(f, cfg)
  <2>1. f \in Kept(frames, cfg)
    BY <1>4 DEF Kept
  <2>2. k \in DOMAIN Scene!Groups(frames, cfg, Log)
    BY <2>1, GroupFacts
  <2>3. (~Overlap(cfg) => Apart(L)) /\ (~Leaves(cfg) => \E i \in DOMAIN L : f \in Elements(L[i]))
    <3> DEFINE E == OfKey(frames, cfg, k)
    <3>1. f \in E
      BY <2>1 DEF OfKey
    <3> HIDE DEF k
    <3>2. (~Overlap(cfg) => Apart(L)) /\ (~Leaves(cfg) => Whole(L, E))
      BY <2>2, ChunksOfFacts
    <3> HIDE DEF E, L
    <3> QED BY <3>1, <3>2 DEF Whole
  <2>4. ASSUME ~Overlap(cfg) PROVE Cardinality(holding) <= 1
    <3>1. \A o, p \in holding : o = p
      <4> SUFFICES ASSUME NEW o \in holding, NEW p \in holding, o # p PROVE FALSE
        OBVIOUS
      <4>1. key[o] = k /\ key[p] = k /\ f \in Elements(C(o)) /\ f \in Elements(C(p))
        BY <1>2
      <4>2. no[o] \in DOMAIN L /\ no[p] \in DOMAIN L /\ no[o] # no[p] /\ C(o) = L[no[o]] /\ C(p) = L[no[p]]
        BY <4>1 DEF IsCutting, ChunkAt, HoldingOf
      <4>3. Elements(L[no[o]]) \intersect Elements(L[no[p]]) = {}
        BY <4>2, <2>3, <2>4 DEF Apart
      <4> QED BY <4>1, <4>2, <4>3
    <3> HIDE DEF holding
    <3>2. CASE holding = {}
      <4>1. Cardinality(holding) = 0
        BY <3>2, FS_EmptySet
      <4> QED BY <4>1
    <3>3. CASE holding # {}
      <4>1. PICK o \in holding : holding = {o}
        BY <3>1, <3>3
      <4>2. Cardinality(holding) = 1
        BY <4>1, FS_Singleton
      <4> QED BY <4>2
    <3> QED BY <3>2, <3>3
  <2>5. ASSUME ~Leaves(cfg) PROVE holding # {}
    <3>1. PICK i \in DOMAIN L : f \in Elements(L[i])
      BY <2>3, <2>5
    <3>2. PICK o \in DOMAIN out : key[o] = k /\ no[o] = i
      BY <2>2 DEF IsCutting
    <3>3. f \in Elements(C(o))
      BY <3>1, <3>2 DEF ChunkAt
    <3>4. o \in holding
      BY <3>3, <1>1 DEF HoldingOf
    <3> QED BY <3>4
  <2> QED BY <2>4, <2>5, <1>4
<1> QED BY <1>3, <1>4

\* A segment keeps to its group, the strategy and the limits.
LEMMA SegmentLimits ==
  ASSUME NEW frames, NEW cfg, Scene!ValidSegmentation(cfg), Scene!ValidLog(frames, cfg, Log),
         NEW out, NEW key, NEW no, IsCutting(out, frames, cfg, key, no), NEW o \in DOMAIN out
  PROVE  LET s == out[o]
             f(q) == frames[s.frames[q]]
         IN /\ \A q \in 2..Len(s.frames) :
                 /\ Scene!GroupKey(f(q - 1), cfg, Log) = Scene!GroupKey(f(q), cfg, Log)
                 /\ f(q - 1).ts <= f(q).ts
                 /\ cfg.strategy = "gap_based" => f(q).ts - f(q - 1).ts <= Scene!Us(cfg.maxGap)
            /\ Len(s.frames) >= cfg.minCount
            /\ cfg.maxCount # None => Len(s.frames) <= cfg.maxCount
            /\ cfg.maxDuration # None => s.end - s.start <= Scene!Us(cfg.maxDuration)
            /\ cfg.strategy = "fixed_window" => s.end - s.start < Scene!Us(cfg.window)
<1> DEFINE c == ChunkAt(frames, cfg, key, no, o)
           s == out[o]
           n == Len(c)
<1>1. /\ c \in Chunks(Elements(frames), cfg)
      /\ Elements(c) \subseteq OfKey(frames, cfg, key[o])
      /\ MadeOf(s, c)
      /\ \A j \in DOMAIN c : frames[c[j].id] = c[j]
  BY ChunkAtFacts
<1> HIDE DEF c, s
<1>2. /\ Ordered(c, Elements(frames)) /\ Close(c, cfg) /\ Limited(c, cfg) /\ Len(c) >= cfg.minCount
  BY <1>1 DEF Chunks, Pieces, Candidates
<1>3. n \in Nat /\ n >= 1 /\ DOMAIN c = 1..n
  BY <1>2 DEF Ordered
<1>4. Len(s.frames) = n /\ \A j \in 1..n : frames[s.frames[j]] = c[j]
  BY <1>1, <1>3 DEF MadeOf
<1> HIDE DEF n
<1>5. ASSUME NEW q \in 2..n
      PROVE  /\ Scene!GroupKey(c[q - 1], cfg, Log) = Scene!GroupKey(c[q], cfg, Log)
             /\ c[q - 1].ts <= c[q].ts
             /\ cfg.strategy = "gap_based" => c[q].ts - c[q - 1].ts <= Scene!Us(cfg.maxGap)
  <2>1. q - 1 \in DOMAIN c /\ q \in DOMAIN c /\ q - 1 < q
    BY <1>3
  <2>2. c[q - 1] \in Elements(c) /\ c[q] \in Elements(c)
    BY <2>1 DEF Elements
  <2>3. Scene!GroupKey(c[q - 1], cfg, Log) = Scene!GroupKey(c[q], cfg, Log)
    BY <2>2, <1>1 DEF OfKey
  <2>4. c[q - 1].ts <= c[q].ts
    BY <2>1, <1>2 DEF Ordered
  <2>5. cfg.strategy = "gap_based" => c[q].ts - c[q - 1].ts <= Scene!Us(cfg.maxGap)
    BY <1>2 DEF Close, n
  <2> QED BY <2>3, <2>4, <2>5
<1>6. cfg.strategy = "fixed_window" => s.end - s.start < Scene!Us(cfg.window)
  <2>1. 1 \in DOMAIN c /\ n \in DOMAIN c
    BY <1>3
  <2> QED BY <2>1, <1>1, <1>2 DEF Close, n, MadeOf
<1>7. /\ cfg.maxCount # None => n <= cfg.maxCount
      /\ cfg.maxDuration # None => s.end - s.start <= Scene!Us(cfg.maxDuration)
      /\ n >= cfg.minCount
  BY <1>1, <1>2 DEF Limited, n, MadeOf
<1>8. ASSUME NEW q \in 2..n PROVE frames[s.frames[q]] = c[q] /\ frames[s.frames[q - 1]] = c[q - 1]
  <2>1. q \in 1..n /\ q - 1 \in 1..n
    BY <1>3
  <2> QED BY <2>1, <1>4
<1> QED BY <1>4, <1>5, <1>6, <1>7, <1>8 DEF s

\* The log is one the schemas accept, and what is made of it its segments.
SegmentsInv ==
  input.kind = "segments" =>
    /\ Scene!ValidLog(input.frames, input.cfg, Log)
    /\ output = NotYet \/ ( /\ Scene!ValidSegmentation(input.cfg)
                            /\ output = Scene!Segments(input.frames, input.cfg, Log))

\* Logs stay as they were given, and their segments are what was made of them.
LEMMA SegmentsInvHolds == FlowSpec => []SegmentsInv
<1>1. FlowInit => SegmentsInv
  BY DEF FlowInit, SegmentsInv
<1>2. SegmentsInv /\ [FlowNext]_<<input, output>> => SegmentsInv'
  <2> SUFFICES ASSUME SegmentsInv, [FlowNext]_<<input, output>>, input'.kind = "segments"
               PROVE  SegmentsInv'
    BY DEF SegmentsInv
  <2>1. CASE CutLog
    BY <2>1 DEF CutLog, Ready, SegmentsInv
  <2>2. CASE UNCHANGED <<input, output>>
    BY <2>2 DEF SegmentsInv
  <2> QED BY <2>1, <2>2 DEF FlowNext, BuildScenes, IngestAndBuild, PredictAndEvaluate, RunPipeline, MineAndScore, ServeViews, Ready
<1> QED BY <1>1, <1>2, PTL DEF FlowSpec

\* Segments of whatever log and configuration: no frame in two or in none, but
\* where the configuration says so, none of two sequences, within the limits,
\* and with ids of their own.
THEOREM LogsAreCovered == FlowSpec => []SegmentsCover
<1>1. SegmentsInv => SegmentsCover
  <2> SUFFICES ASSUME SegmentsInv, Done("segments") PROVE SegmentsCover
    BY DEF SegmentsCover
  <2> DEFINE frames == input.frames
             cfg == input.cfg
             out == output
             Holding(f) == {o \in DOMAIN out : f.id \in Elements(out[o].frames)}
             InOrder(f, g) ==
               /\ Scene!GroupKey(f, cfg, Log) = Scene!GroupKey(g, cfg, Log)
               /\ f.ts <= g.ts
               /\ cfg.strategy = "gap_based" => g.ts - f.ts <= Scene!Us(cfg.maxGap)
  <2>1. /\ Scene!ValidSegmentation(cfg) /\ Scene!ValidLog(frames, cfg, Log)
        /\ out = Scene!Segments(frames, cfg, Log)
    BY DEF SegmentsInv, Done
  <2> HIDE DEF frames, cfg, out
  <2>2. PICK key, no : IsCutting(out, frames, cfg, key, no)
    <3>1. \E key, no : IsCutting(Scene!Segments(frames, cfg, Log), frames, cfg, key, no)
      BY <2>1, SegmentsFacts
    <3> QED BY <3>1, <2>1
  <2>3. \A o, p \in DOMAIN out : o # p => out[o].id # out[p].id
    BY <2>1, <2>2, IdsDiffer
  <2>4. ASSUME NEW f \in Elements(frames)
        PROVE  IF Scene!DropsFrame(f, cfg) THEN Holding(f) = {}
               ELSE (Overlap(cfg) \/ Cardinality(Holding(f)) <= 1) /\ (Leaves(cfg) \/ Holding(f) # {})
    <3>1. IF Scene!DropsFrame(f, cfg) THEN HoldingOf(out, f) = {}
          ELSE /\ Overlap(cfg) \/ Cardinality(HoldingOf(out, f)) <= 1
               /\ Leaves(cfg) \/ HoldingOf(out, f) # {}
      BY <2>1, <2>2, FramesHeld
    <3>2. Holding(f) = HoldingOf(out, f)
      BY DEF HoldingOf
    <3> QED BY <3>1, <3>2
  <2>5. ASSUME NEW s \in Elements(out)
        PROVE  /\ \A q \in 2..Len(s.frames) : InOrder(frames[s.frames[q - 1]], frames[s.frames[q]])
               /\ Len(s.frames) >= cfg.minCount
               /\ cfg.maxCount # None => Len(s.frames) <= cfg.maxCount
               /\ cfg.maxDuration # None => s.end - s.start <= Scene!Us(cfg.maxDuration)
               /\ cfg.strategy = "fixed_window" => s.end - s.start < Scene!Us(cfg.window)
    <3>1. PICK o \in DOMAIN out : s = out[o]
      BY DEF Elements
    <3> HIDE DEF InOrder
    <3>2. /\ \A q \in 2..Len(out[o].frames) : InOrder(frames[out[o].frames[q - 1]], frames[out[o].frames[q]])
          /\ Len(out[o].frames) >= cfg.minCount
          /\ cfg.maxCount # None => Len(out[o].frames) <= cfg.maxCount
          /\ cfg.maxDuration # None => out[o].end - out[o].start <= Scene!Us(cfg.maxDuration)
          /\ cfg.strategy = "fixed_window" => out[o].end - out[o].start < Scene!Us(cfg.window)
      BY <2>1, <2>2, SegmentLimits DEF InOrder
    <3> QED BY <3>1, <3>2
  <2>6. /\ Overlap(cfg) = (cfg.strategy = "fixed_window" /\ cfg.stride # None /\ cfg.stride < cfg.window)
        /\ Leaves(cfg) = (\/ cfg.strategy = "fixed_window" /\ cfg.stride # None /\ cfg.stride > cfg.window
                          \/ cfg.minCount > 1 \/ cfg.minDuration # None)
    BY DEF Overlap, Leaves, Gaps
  <2> QED BY <2>3, <2>4, <2>5, <2>6 DEF SegmentsCover, frames, cfg, out
<1> QED BY <1>1, SegmentsInvHolds, PTL
=============================================================================
