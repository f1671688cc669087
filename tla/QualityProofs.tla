--------------------------- MODULE QualityProofs ----------------------------
(***************************************************************************)
(* What the quality views say is what the jobs on a dataset version, one   *)
(* after the other, have made known of its manifests.                      *)
(***************************************************************************)
EXTENDS DataFlow, ListsProofs
-----------------------------------------------------------------------------
(* The lists and loops of the views *)

\* An instance has list operators of its own: they are the ones of Lists.
LEMMA ViewsLists ==
  /\ \A S : Views!Cardinality(S) = Cardinality(S)
  /\ \A s, I : Views!Picked(s, I) = Picked(s, I)
  /\ \A s, n : Views!Prefix(s, n) = Prefix(s, n)
  /\ \A s : Views!Elements(s) = Elements(s)
  /\ \A t : Views!ListSum(t) = ListSum(t)
<1>1. \A S : Views!Cardinality(S) = Cardinality(S)
  BY DEF Views!Cardinality, Cardinality
<1>2. \A S : Views!SortedSet(S) = SortedSet(S)
  <2> SUFFICES ASSUME NEW S PROVE Views!SortedSet(S) = SortedSet(S)
    OBVIOUS
  <2> DEFINE At(k) == CHOOSE x \in S : Cardinality({y \in S : y <= x}) = k
             ViewsAt(k) == CHOOSE x \in S : Views!Cardinality({y \in S : y <= x}) = k
  <2>1. \A k : ViewsAt(k) = At(k)
    BY <1>1
  <2>2. Views!SortedSet(S) = [k \in 1..Cardinality(S) |-> ViewsAt(k)]
    BY <1>1 DEF Views!SortedSet
  <2>3. SortedSet(S) = [k \in 1..Cardinality(S) |-> At(k)]
    BY DEF SortedSet
  <2> HIDE DEF At, ViewsAt
  <2> QED BY <2>1, <2>2, <2>3
<1>3. \A s, I : Views!Picked(s, I) = Picked(s, I)
  BY <1>2 DEF Views!Picked, Picked
<1>4. \A s, n : Views!Prefix(s, n) = Prefix(s, n)
  BY DEF Views!Prefix, Prefix
<1>5. \A s : Views!Elements(s) = Elements(s)
  BY DEF Views!Elements, Elements
<1>6. \A t : Views!ListSum(t) = ListSum(t)
  BY DEF Views!ListSum, ListSum
<1> QED BY <1>1, <1>3, <1>4, <1>5, <1>6

\* The turns of the loops over jobs and over scenes.
Handled(env, d, e) == Views!Handle(d, e)
RegisteredOne(event, d, s) == Views!RegisterScene(d, event, s)
ValidatedOne(job, d, x) == Views!ValidateScene(d, job, x)
ProfiledOne(job, d, s) == Views!ProfileScene(d, job, s)

\* What holds of loops in general holds of each of them.
EventLoop == INSTANCE ListsProofs WITH Step <- Handled
RegisterLoop == INSTANCE ListsProofs WITH Step <- RegisteredOne
ValidateLoop == INSTANCE ListsProofs WITH Step <- ValidatedOne
ProfileLoop == INSTANCE ListsProofs WITH Step <- ProfiledOne
VerdictLoop == INSTANCE ListsProofs WITH Step <- VerdictAfter

\* The folds of the model are these loops.
LEMMA Loops ==
  /\ \A events : Views!After(events) = EventLoop!Turns(0, Views!NewDb, events)
  /\ \A db, e : Views!Register(db, e) = RegisterLoop!Turns(e, db, e.ids)
  /\ \A events, s : LastVerdict(events, s) = VerdictLoop!Turns(s, None, events)
<1>1. \A events : Views!After(events) = EventLoop!Turns(0, Views!NewDb, events)
  BY DEF Views!After, Views!FoldLeft, Views!MapThenFoldSet, Views!Max, EventLoop!Turns, EventLoop!Max, Handled
<1>2. \A db, e : Views!Register(db, e) = RegisterLoop!Turns(e, db, e.ids)
  BY DEF Views!Register, Views!FoldLeft, Views!MapThenFoldSet, Views!Max, RegisterLoop!Turns, RegisterLoop!Max,
         RegisteredOne
<1>3. \A events, s : LastVerdict(events, s) = VerdictLoop!Turns(s, None, events)
  BY DEF LastVerdict, FoldLeft, MapThenFoldSet, Max, VerdictLoop!Turns, VerdictLoop!Max
<1> QED BY <1>1, <1>2, <1>3

-----------------------------------------------------------------------------
(* The jobs *)

\* The verdicts of a manifest without errors.
Passed == {"ready", "warning"}

\* A row as registering writes it, whatever its status has become.
IsRow(r) ==
  /\ r = [id |-> r.id, status |-> r.status, annotations |-> r.annotations,
          groundTruth |-> r.groundTruth, samples |-> r.samples, channels |-> r.channels]
  /\ r.id # None /\ r.annotations \in Nat /\ r.groundTruth = (r.annotations > 0)
  /\ r.samples = 1 /\ r.channels = {}

\* Of each scene the database has one row at most.
DbInv(db) ==
  /\ db = [rows |-> db.rows, runs |-> db.runs, cache |-> db.cache]
  /\ db.rows \in Seq(Elements(db.rows)) /\ db.runs \in Seq(Elements(db.runs))
  /\ \A i \in DOMAIN db.rows : IsRow(db.rows[i])
  /\ \A i, j \in DOMAIN db.rows : db.rows[i].id = db.rows[j].id => i = j
  /\ \A i \in DOMAIN db.runs : "scene" \notin DOMAIN db.runs[i].summary

\* The runs of one type of a scene, the latest of them, and what it found.
IsRunOf(run, type, s) == run.type = type /\ run.scene = s

IsLatest(runs, type, s, k) ==
  /\ k \in DOMAIN runs /\ IsRunOf(runs[k], type, s)
  /\ \A j \in DOMAIN runs : IsRunOf(runs[j], type, s) => j <= k

Says(run, w) == {"verdict", "block"} \subseteq DOMAIN run.summary /\ run.summary.verdict = w /\ ~run.summary.block

\* The row of s has the status, and s the latest validation, that a manifest
\* has of which w is known.
Known(db, s, w) ==
  \A i \in DOMAIN db.rows : db.rows[i].id = s =>
    /\ db.rows[i].status \in {"validated", "profiled"} <=> w \in Passed
    /\ w \in Passed => \E k \in DOMAIN db.runs : IsLatest(db.runs, "validation", s, k) /\ Says(db.runs[k], w)

\* A database is a record of its three parts.
LEMMA DbShape ==
  ASSUME NEW db, DbInv(db)
  PROVE  DOMAIN db = {"rows", "runs", "cache"} /\ db = [f \in DOMAIN db |-> db[f]]
<1> DEFINE a == db.rows
           b == db.runs
           c == db.cache
<1>1. db = [rows |-> a, runs |-> b, cache |-> c]
  BY DEF DbInv
<1> HIDE DEF a, b, c
<1> QED BY <1>1

\* Databases with the same rows but the status of x, and the same runs.
LEMMA SetStatusFacts ==
  ASSUME NEW db, DbInv(db), NEW x, NEW status
  PROVE  LET new == Views!SetStatus(db, x, status)
         IN /\ DbInv(new) /\ new.runs = db.runs /\ new.cache = db.cache
            /\ DOMAIN new.rows = DOMAIN db.rows
            /\ \A i \in DOMAIN db.rows :
                 /\ new.rows[i].id = db.rows[i].id
                 /\ new.rows[i].status = IF db.rows[i].id = x THEN status ELSE db.rows[i].status
            /\ \A s, w : s # x /\ Known(db, s, w) => Known(new, s, w)
<1> DEFINE rows == [i \in DOMAIN db.rows |-> IF db.rows[i].id = x THEN [db.rows[i] EXCEPT !.status = status]
                                             ELSE db.rows[i]]
           new == [db EXCEPT !.rows = rows]
<1>1. Views!SetStatus(db, x, status) = new
  BY DEF Views!SetStatus, Views!Mapped
<1>2. /\ new = [rows |-> rows, runs |-> db.runs, cache |-> db.cache]
      /\ new.rows = rows /\ new.runs = db.runs /\ new.cache = db.cache
  <2>1. DOMAIN db = {"rows", "runs", "cache"} /\ db = [f \in DOMAIN db |-> db[f]]
    BY DbShape
  <2> HIDE DEF rows
  <2> QED BY <2>1
<1>3. rows \in Seq(Elements(rows)) /\ DOMAIN rows = DOMAIN db.rows
  <2>1. rows = [i \in DOMAIN db.rows |-> rows[i]] /\ DOMAIN rows = DOMAIN db.rows /\ db.rows \in Seq(Elements(db.rows))
    BY DEF DbInv
  <2> HIDE DEF rows
  <2> QED BY <2>1, MappedFacts
<1>4. ASSUME NEW i \in DOMAIN db.rows
      PROVE  /\ IsRow(rows[i]) /\ rows[i].id = db.rows[i].id
             /\ rows[i].status = IF db.rows[i].id = x THEN status ELSE db.rows[i].status
  <2>1. IsRow(db.rows[i])
    BY DEF DbInv
  <2>2. CASE db.rows[i].id = x
    <3>1. rows[i] = [db.rows[i] EXCEPT !.status = status]
      BY <2>2
    <3> HIDE DEF rows
    <3> QED BY <2>1, <2>2, <3>1 DEF IsRow
  <2>3. CASE db.rows[i].id # x
    BY <2>1, <2>3
  <2> QED BY <2>2, <2>3
<1> HIDE DEF rows, new
<1>5. DbInv(new)
  BY <1>2, <1>3, <1>4 DEF DbInv
<1>6. \A s, w : s # x /\ Known(db, s, w) => Known(new, s, w)
  BY <1>2, <1>3, <1>4 DEF Known
<1> QED BY <1>1, <1>2, <1>3, <1>4, <1>5, <1>6

\* A run more: it is the latest of its scene, those of other scenes stay.
LEMMA CreateRunFacts ==
  ASSUME NEW db, DbInv(db), NEW type, NEW job, NEW x, NEW report, NEW summary, "scene" \notin DOMAIN summary
  PROVE  LET new == Views!CreateRun(db, type, job, x, report, summary)
         IN /\ DbInv(new) /\ new.rows = db.rows /\ new.cache = db.cache
            /\ \A s, w : (type # "validation" \/ s # x) /\ Known(db, s, w) => Known(new, s, w)
            /\ \E k \in DOMAIN new.runs : IsLatest(new.runs, type, x, k) /\ new.runs[k].summary = summary
<1> DEFINE run == [id |-> <<type, job, x>>, type |-> type, scene |-> x, report |-> report, summary |-> summary]
           runs == Append(db.runs, run)
           new == [db EXCEPT !.runs = runs]
           n == Len(db.runs)
<1>1. Views!CreateRun(db, type, job, x, report, summary) = new
  BY DEF Views!CreateRun
<1>2. run.type = type /\ run.scene = x /\ run.summary = summary
  OBVIOUS
<1> HIDE DEF run
<1>3. /\ new = [rows |-> db.rows, runs |-> runs, cache |-> db.cache]
      /\ new.rows = db.rows /\ new.runs = runs /\ new.cache = db.cache
  <2>1. DOMAIN db = {"rows", "runs", "cache"} /\ db = [f \in DOMAIN db |-> db[f]]
    BY DbShape
  <2> HIDE DEF runs
  <2> QED BY <2>1
<1>4. /\ runs \in Seq(Elements(runs)) /\ n \in Nat
      /\ DOMAIN db.runs = 1..n /\ DOMAIN runs = 1..(n + 1)
      /\ \A i \in 1..n : runs[i] = db.runs[i]
      /\ runs[n + 1] = run
  <2>1. db.runs \in Seq(Elements(db.runs))
    BY DEF DbInv
  <2> QED BY <2>1, AppendFacts
<1> HIDE DEF runs, new, n
<1>5. DbInv(new)
  <2>1. \A i \in 1..(n + 1) : i \in 1..n \/ i = n + 1
    BY <1>4
  <2>2. \A i \in DOMAIN runs : "scene" \notin DOMAIN runs[i].summary
    BY <1>2, <1>4, <2>1 DEF DbInv
  <2> QED BY <1>3, <1>4, <2>2 DEF DbInv
<1>6. \A i \in DOMAIN runs : i \in DOMAIN db.runs \/ i = n + 1
  BY <1>4
<1>7. n + 1 \in DOMAIN runs /\ \A i \in DOMAIN runs : i <= n + 1
  BY <1>4
<1>8. ASSUME NEW s, NEW w, type # "validation" \/ s # x, Known(db, s, w) PROVE Known(new, s, w)
  <2>1. \A k : IsLatest(db.runs, "validation", s, k) => IsLatest(runs, "validation", s, k)
    <3>1. ~IsRunOf(run, "validation", s)
      BY <1>2, <1>8 DEF IsRunOf
    <3>2. \A i \in DOMAIN db.runs : i \in DOMAIN runs /\ runs[i] = db.runs[i]
      BY <1>4
    <3> QED BY <1>4, <1>6, <3>1, <3>2 DEF IsLatest
  <2>2. \A k \in DOMAIN db.runs : k \in DOMAIN runs /\ runs[k] = db.runs[k]
    BY <1>4
  <2> QED BY <1>3, <1>8, <2>1, <2>2 DEF Known
<1>9. IsLatest(runs, type, x, n + 1) /\ runs[n + 1].summary = summary
  BY <1>2, <1>4, <1>7 DEF IsLatest, IsRunOf
<1> QED BY <1>1, <1>3, <1>5, <1>7, <1>8, <1>9

\* The cache holds what it is given; rows and runs stay.
LEMMA UpdateCacheFacts ==
  ASSUME NEW db, DbInv(db), NEW values
  PROVE  LET new == Views!UpdateCache(db, values)
         IN /\ DbInv(new) /\ new.rows = db.rows /\ new.runs = db.runs
            /\ "block" \in DOMAIN values => new.cache.block = values.block
            /\ \A s, w : Known(db, s, w) => Known(new, s, w)
<1> DEFINE cache == Views!Overlaid(db.cache, values)
           new == [db EXCEPT !.cache = cache]
<1>1. Views!UpdateCache(db, values) = new
  BY DEF Views!UpdateCache
<1>2. "block" \in DOMAIN values => cache.block = values.block
  BY DEF Views!Overlaid
<1> HIDE DEF cache
<1>3. /\ new = [rows |-> db.rows, runs |-> db.runs, cache |-> cache]
      /\ new.rows = db.rows /\ new.runs = db.runs /\ new.cache = cache
  BY DbShape
<1> HIDE DEF new
<1>4. DbInv(new)
  BY <1>3 DEF DbInv
<1>5. \A s, w : Known(db, s, w) => Known(new, s, w)
  BY <1>3 DEF Known
<1> QED BY <1>1, <1>2, <1>3, <1>4, <1>5

\* A scene that is registered is not validated; the others stay as they are.
LEMMA RegisterFacts ==
  ASSUME NEW db, DbInv(db), NEW event, event.annotations \in Nat, NEW x, x # None
  PROVE  LET new == Views!RegisterScene(db, event, x)
         IN /\ DbInv(new)
            /\ \A w : w \notin Passed => Known(new, x, w)
            /\ \A s, w : s # x /\ Known(db, s, w) => Known(new, s, w)
<1> DEFINE row == [id |-> x, status |-> "built", annotations |-> event.annotations,
                   groundTruth |-> event.annotations > 0, samples |-> 1, channels |-> {}]
           changed == [i \in DOMAIN db.rows |-> IF db.rows[i].id = row.id THEN row ELSE db.rows[i]]
           longer == Append(db.rows, row)
           rows == IF row.id \in {db.rows[i].id : i \in DOMAIN db.rows} THEN changed ELSE longer
           new == [db EXCEPT !.rows = rows]
           n == Len(db.rows)
<1>1. Views!RegisterScene(db, event, x) = new
  <2>1. \A t : Views!IdsOf(t) = {t[i].id : i \in DOMAIN t}
    BY DEF Views!IdsOf, Views!Elements
  <2>2. Views!RegisterScene(db, event, x) = Views!UpsertScene(db, row)
    BY DEF Views!RegisterScene
  <2> HIDE DEF row
  <2> QED BY <2>1, <2>2 DEF Views!UpsertScene, Views!Mapped
<1>2. IsRow(row) /\ row.id = x /\ row.status = "built"
  BY DEF IsRow
<1> HIDE DEF row
<1>3. /\ new = [rows |-> rows, runs |-> db.runs, cache |-> db.cache]
      /\ new.rows = rows /\ new.runs = db.runs
  <2>1. DOMAIN db = {"rows", "runs", "cache"} /\ db = [f \in DOMAIN db |-> db[f]]
    BY DbShape
  <2> HIDE DEF rows
  <2> QED BY <2>1
<1>4. db.rows \in Seq(Elements(db.rows)) /\ n \in Nat /\ DOMAIN db.rows = 1..n
  BY DEF DbInv
<1>5. /\ rows \in Seq(Elements(rows))
      /\ \A i \in DOMAIN rows : \/ rows[i] = row
                                \/ i \in DOMAIN db.rows /\ rows[i] = db.rows[i] /\ db.rows[i].id # x
      /\ \A i, j \in DOMAIN rows : rows[i] = row /\ rows[j] = row => i = j
  <2>1. CASE \E i \in DOMAIN db.rows : db.rows[i].id = x
    <3>1. rows = changed
      BY <1>2, <2>1
    <3>2. changed = [i \in DOMAIN db.rows |-> changed[i]] /\ DOMAIN changed = DOMAIN db.rows
      OBVIOUS
    <3>3. changed \in Seq(Elements(changed))
      <4> HIDE DEF changed
      <4> QED BY <1>4, <3>2, MappedFacts
    <3>4. \A i \in DOMAIN db.rows :
            /\ db.rows[i].id = x => changed[i] = row
            /\ db.rows[i].id # x => changed[i] = db.rows[i] /\ changed[i] # row
      BY <1>2
    <3> HIDE DEF changed, rows
    <3> QED BY <3>1, <3>2, <3>3, <3>4 DEF DbInv
  <2>2. CASE ~\E i \in DOMAIN db.rows : db.rows[i].id = x
    <3>1. rows = longer
      BY <1>2, <2>2
    <3>2. /\ longer \in Seq(Elements(longer)) /\ DOMAIN longer = 1..(n + 1)
          /\ \A i \in 1..n : longer[i] = db.rows[i]
          /\ longer[n + 1] = row
      BY <1>4, AppendFacts
    <3>3. \A i \in 1..(n + 1) : i \in 1..n \/ i = n + 1
      BY <1>4
    <3>4. \A i \in 1..n : longer[i] # row
      BY <1>2, <1>4, <2>2, <3>2
    <3> HIDE DEF longer, rows, n
    <3> QED BY <1>4, <2>2, <3>1, <3>2, <3>3, <3>4
  <2> QED BY <2>1, <2>2
<1> HIDE DEF rows, new, n
<1>6. DbInv(new)
  BY <1>2, <1>3, <1>5 DEF DbInv
<1>7. \A w : w \notin Passed => Known(new, x, w)
  BY <1>2, <1>3, <1>5 DEF Known
<1>8. \A s, w : s # x /\ Known(db, s, w) => Known(new, s, w)
  BY <1>2, <1>3, <1>5 DEF Known
<1> QED BY <1>1, <1>6, <1>7, <1>8

\* Of a scene that is validated the verdict is known; the others stay.
LEMMA ValidateSceneFacts ==
  ASSUME NEW db, DbInv(db), NEW job, NEW x, x # None, x.errors \in Nat, x.warnings \in Nat
  PROVE  LET new == Views!ValidateScene(db, job, x)
         IN /\ DbInv(new)
            /\ Known(new, x.id, Views!Verdict(x.errors, x.warnings))
            /\ \A s, w : s # x.id /\ Known(db, s, w) => Known(new, s, w)
<1> DEFINE verdict == Views!Verdict(x.errors, x.warnings)
           summary == [verdict |-> verdict, block |-> x.errors > 0, errors |-> x.errors, warnings |-> x.warnings]
           mid == Views!CreateRun(db, "validation", job, x.id, <<job, x.id>>, summary)
           status == IF x.errors > 0 THEN "failed" ELSE "validated"
           new == Views!SetStatus(mid, x.id, status)
<1>1. Views!ValidateScene(db, job, x) = new
  BY DEF Views!ValidateScene
<1>2. /\ x.errors > 0 => verdict = "failed"
      /\ ~(x.errors > 0) => verdict \in Passed
  BY DEF Views!Verdict, Passed
<1> HIDE DEF verdict
<1>3. /\ "scene" \notin DOMAIN summary /\ {"verdict", "block"} \subseteq DOMAIN summary
      /\ summary.verdict = verdict /\ summary.block = (x.errors > 0)
  OBVIOUS
<1> HIDE DEF summary
<1>4. /\ DbInv(mid)
      /\ \A s, w : s # x.id /\ Known(db, s, w) => Known(mid, s, w)
      /\ \E k \in DOMAIN mid.runs : IsLatest(mid.runs, "validation", x.id, k) /\ mid.runs[k].summary = summary
  <2>1. "scene" \notin DOMAIN summary
    BY <1>3
  <2> HIDE DEF mid
  <2> QED BY <2>1, CreateRunFacts DEF mid
<1> HIDE DEF mid
<1>5. /\ DbInv(new) /\ new.runs = mid.runs /\ DOMAIN new.rows = DOMAIN mid.rows
      /\ \A i \in DOMAIN mid.rows :
           /\ new.rows[i].id = mid.rows[i].id
           /\ new.rows[i].status = IF mid.rows[i].id = x.id THEN status ELSE mid.rows[i].status
      /\ \A s, w : s # x.id /\ Known(mid, s, w) => Known(new, s, w)
  <2> HIDE DEF status
  <2> QED BY <1>4, SetStatusFacts
<1> HIDE DEF new
<1>6. \A k \in DOMAIN new.runs : new.runs[k].summary = summary /\ ~(x.errors > 0) => Says(new.runs[k], verdict)
  BY <1>3 DEF Says
<1>7. Known(new, x.id, verdict)
  <2>1. status \in {"validated", "profiled"} <=> verdict \in Passed
    BY <1>2 DEF Passed
  <2> HIDE DEF status
  <2> QED BY <1>2, <1>4, <1>5, <1>6, <2>1 DEF Known, Passed
<1> QED BY <1>1, <1>4, <1>5, <1>7 DEF verdict

\* A scene that passed and is profiled still has its verdict.
LEMMA ProfileSceneFacts ==
  ASSUME NEW db, DbInv(db), NEW job, NEW x
  PROVE  LET new == Views!ProfileScene(db, job, x)
         IN /\ DbInv(new)
            /\ \A s, w : (s = x => w \in Passed) /\ Known(db, s, w) => Known(new, s, w)
<1> DEFINE summary == [channels |-> {}]
           mid == Views!CreateRun(db, "profile", job, x, <<job, x>>, summary)
           new == Views!SetStatus(mid, x, "profiled")
<1>1. Views!ProfileScene(db, job, x) = new
  BY DEF Views!ProfileScene
<1>2. "scene" \notin DOMAIN summary
  OBVIOUS
<1> HIDE DEF summary
<1>3. DbInv(mid) /\ \A s, w : Known(db, s, w) => Known(mid, s, w)
  <2> HIDE DEF mid
  <2>1. "profile" # "validation"
    OBVIOUS
  <2> QED BY <1>2, <2>1, CreateRunFacts DEF mid
<1> HIDE DEF mid
<1>4. /\ DbInv(new) /\ new.runs = mid.runs /\ DOMAIN new.rows = DOMAIN mid.rows
      /\ \A i \in DOMAIN mid.rows :
           /\ new.rows[i].id = mid.rows[i].id
           /\ new.rows[i].status = IF mid.rows[i].id = x THEN "profiled" ELSE mid.rows[i].status
      /\ \A s, w : s # x /\ Known(mid, s, w) => Known(new, s, w)
  BY <1>3, SetStatusFacts
<1> HIDE DEF new
<1>5. \A w : w \in Passed /\ Known(mid, x, w) => Known(new, x, w)
  BY <1>4 DEF Known
<1> QED BY <1>1, <1>3, <1>4, <1>5

\* The loops of the jobs.
LEMMA RegisterAll ==
  ASSUME NEW db, DbInv(db), NEW event, event.annotations \in Nat,
         event.ids \in Seq(Elements(event.ids)), None \notin Elements(event.ids)
  PROVE  LET new == Views!Register(db, event)
         IN /\ DbInv(new)
            /\ \A s, w : Known(db, s, w) => Known(new, s, IF s \in Elements(event.ids) THEN None ELSE w)
<1> DEFINE ids == event.ids
           n == Len(ids)
           Before(k) == {ids[m] : m \in 1..k}
<1>1. PICK state : RegisterLoop!StatesOf(state, event, db, ids)
  BY RegisterLoop!TurnsFacts
<1>2. /\ state[0] = db /\ Views!Register(db, event) = state[n]
      /\ \A k \in 1..n : state[k] = Views!RegisterScene(state[k - 1], event, ids[k])
  BY <1>1, Loops DEF RegisterLoop!StatesOf, RegisteredOne
<1>3. n \in Nat /\ DOMAIN ids = 1..n /\ Elements(ids) = Before(n)
  BY DEF Elements
<1> DEFINE Right(k) == /\ DbInv(state[k])
                       /\ \A s, w : Known(db, s, w) => Known(state[k], s, IF s \in Before(k) THEN None ELSE w)
           Good == {k \in Nat : k <= n => Right(k)}
<1>4. 0 \in Good
  BY <1>2
<1>5. \A k \in Nat : k \in Good => k + 1 \in Good
  <2> SUFFICES ASSUME NEW k \in Nat, Right(k), k + 1 <= n PROVE Right(k + 1)
    <3> HIDE DEF Right
    <3> QED BY <1>3
  <2> DEFINE x == ids[k + 1]
             new == Views!RegisterScene(state[k], event, x)
  <2>1. state[k + 1] = new /\ x # None
    <3>1. k + 1 \in 1..n /\ (k + 1) - 1 = k
      BY <1>3
    <3>2. x \in Elements(event.ids)
      BY <1>3, <3>1 DEF Elements
    <3> QED BY <1>2, <3>1, <3>2
  <2>2. /\ DbInv(new)
        /\ \A w : w \notin Passed => Known(new, x, w)
        /\ \A s, w : s # x /\ Known(state[k], s, w) => Known(new, s, w)
    BY <2>1, RegisterFacts
  <2>3. \A s : s \in Before(k + 1) <=> s = x \/ s \in Before(k)
    <3>1. 1..(k + 1) = 1..k \union {k + 1}
      OBVIOUS
    <3> QED BY <3>1
  <2> HIDE DEF Before, new, x
  <2>4. None \notin Passed
    BY NoneIsNoValue DEF Passed
  <2> QED BY <2>1, <2>2, <2>3, <2>4
<1>6. Nat \subseteq Good
  <2> HIDE DEF Good
  <2> QED BY ONLY <1>4, <1>5, Induction
<1>7. Right(n)
  <2> HIDE DEF Right
  <2> QED BY <1>3, <1>6
<1> HIDE DEF Before
<1> QED BY <1>2, <1>3, <1>7

\* The same of a job that profiles scenes, if all have passed.
LEMMA ProfileAll ==
  ASSUME NEW db, DbInv(db), NEW event, event.ids \in Seq(Elements(event.ids)), None \notin Elements(event.ids)
  PROVE  LET new == Views!Profile(db, event)
         IN /\ DbInv(new)
            /\ \A s, w : (s \in Elements(event.ids) => w \in Passed) /\ Known(db, s, w) => Known(new, s, w)
<1> DEFINE ids == event.ids
           n == Len(ids)
           summary == [channels |-> {}]
           begun == Views!CreateRun(db, "profile", event.job, None, event.job, summary)
           profiled == ProfileLoop!Turns(event.job, begun, ids)
           values == [profile |-> event.job]
<1>1. Views!Profile(db, event) = Views!UpdateCache(profiled, values)
  BY DEF Views!Profile, Views!FoldLeft, Views!MapThenFoldSet, Views!Max, ProfileLoop!Turns, ProfileLoop!Max,
         ProfiledOne
<1>2. "scene" \notin DOMAIN summary
  OBVIOUS
<1> HIDE DEF summary, values
<1>3. DbInv(begun) /\ \A s, w : Known(db, s, w) => Known(begun, s, w)
  <2>1. "profile" # "validation"
    OBVIOUS
  <2> HIDE DEF begun
  <2> QED BY <1>2, <2>1, CreateRunFacts DEF begun
<1> HIDE DEF begun
<1>4. PICK state : ProfileLoop!StatesOf(state, event.job, begun, ids)
  BY ProfileLoop!TurnsFacts
<1>5. /\ state[0] = begun /\ profiled = state[n]
      /\ \A k \in 1..n : state[k] = Views!ProfileScene(state[k - 1], event.job, ids[k])
  BY <1>4 DEF ProfileLoop!StatesOf, ProfiledOne
<1>6. n \in Nat /\ DOMAIN ids = 1..n
  OBVIOUS
<1> HIDE DEF profiled
<1> DEFINE May(s, w) == (s \in Elements(ids) => w \in Passed) /\ Known(db, s, w)
           Right(k) == DbInv(state[k]) /\ \A s, w : May(s, w) => Known(state[k], s, w)
           Good == {k \in Nat : k <= n => Right(k)}
<1>7. 0 \in Good
  BY <1>3, <1>5
<1>8. \A k \in Nat : k \in Good => k + 1 \in Good
  <2> SUFFICES ASSUME NEW k \in Nat, Right(k), k + 1 <= n PROVE Right(k + 1)
    <3> HIDE DEF Right
    <3> QED BY <1>6
  <2>1. k + 1 \in 1..n /\ (k + 1) - 1 = k /\ ids[k + 1] \in Elements(ids)
    BY <1>6 DEF Elements
  <2> DEFINE x == ids[k + 1]
             new == Views!ProfileScene(state[k], event.job, x)
  <2>2. state[k + 1] = new
    BY <1>5, <2>1
  <2>3. DbInv(new) /\ \A s, w : (s = x => w \in Passed) /\ Known(state[k], s, w) => Known(new, s, w)
    BY ProfileSceneFacts
  <2> HIDE DEF new
  <2> QED BY <2>1, <2>2, <2>3
<1>9. Nat \subseteq Good
  <2> HIDE DEF Good
  <2> QED BY ONLY <1>7, <1>8, Induction
<1>10. DbInv(profiled) /\ \A s, w : May(s, w) => Known(profiled, s, w)
  <2>1. Right(n)
    <3> HIDE DEF Right
    <3> QED BY <1>6, <1>9
  <2> QED BY <2>1, <1>5
<1> HIDE DEF May
<1>11. LET new == Views!UpdateCache(profiled, values)
       IN DbInv(new) /\ \A s, w : May(s, w) => Known(new, s, w)
  BY <1>10, UpdateCacheFacts
<1> QED BY <1>1, <1>11 DEF May

\* A validation says of each scene it is about what its manifest was found to be;
\* it blocks exactly when a manifest is not found or has an error.
LEMMA ValidateAll ==
  ASSUME NEW db, DbInv(db), NEW event, event.scenes \in Seq(Elements(event.scenes)), event.op = "validate",
         \A i, j \in DOMAIN event.scenes :
           None \notin {event.scenes[i], event.scenes[j]} /\ event.scenes[i].id = event.scenes[j].id => i = j,
         \A x \in Elements(event.scenes) \ {None} : x.id # None /\ x.errors \in Nat /\ x.warnings \in Nat
  PROVE  LET new == Views!Validate(db, event)
         IN /\ DbInv(new)
            /\ \A s, w : s # None /\ Known(db, s, w) => Known(new, s, VerdictAfter(s, w, event))
            /\ event.scenes # <<>> =>
                 (new.cache.block <=> \E x \in Elements(event.scenes) : x = None \/ x.errors > 0)
<1> DEFINE scenes == event.scenes
           n == Len(scenes)
           total == Views!Totals(event)
           verdict == Views!Verdict(total.errors, total.warnings)
           summary == [verdict |-> verdict, block |-> total.errors > 0, errors |-> total.errors,
                       warnings |-> total.warnings]
           begun == Views!CreateRun(db, "validation", event.job, None, event.job, summary)
           checked == ValidateLoop!Turns(event.job, begun, scenes)
           values == [validation |-> event.job, status |-> verdict, block |-> total.errors > 0]
           full == Views!UpdateCache(checked, values)
           empty == Views!ValidateNothing(db, event.job)
<1>1. Views!Validate(db, event) = IF scenes = <<>> THEN empty ELSE full
  <2>1. Views!Validate(db, event) =
          IF scenes = <<>> THEN empty
          ELSE Views!UpdateCache(Views!FoldLeft(LAMBDA d, s : Views!ValidateScene(d, event.job, s), begun, scenes),
                                 [validation |-> event.job, status |-> summary.verdict, block |-> summary.block])
    BY DEF Views!Validate
  <2>2. summary.verdict = verdict /\ summary.block = (total.errors > 0)
    OBVIOUS
  <2>3. Views!FoldLeft(LAMBDA d, s : Views!ValidateScene(d, event.job, s), begun, scenes) = checked
    <3> HIDE DEF begun
    <3> QED BY DEF Views!FoldLeft, Views!MapThenFoldSet, Views!Max, ValidateLoop!Turns, ValidateLoop!Max, ValidatedOne
  <2> HIDE DEF begun, checked, empty, summary, total
  <2> QED BY <2>1, <2>2, <2>3
<1>2. n \in Nat /\ DOMAIN scenes = 1..n /\ \A k \in 1..n : scenes[k] \in Elements(scenes)
  BY DEF Elements
<1>3. total.errors > 0 <=> \E x \in Elements(scenes) : x = None \/ x.errors > 0
  <2> DEFINE errors == [i \in DOMAIN scenes |-> IF scenes[i] = None THEN 1 ELSE scenes[i].errors]
  <2>1. total.errors = ListSum(errors)
    BY ViewsLists DEF Views!Totals, Views!SumOf, Views!Mapped
  <2>2. \A i \in 1..n : errors[i] \in Nat /\ (errors[i] > 0 <=> scenes[i] = None \/ scenes[i].errors > 0)
    BY <1>2
  <2>3. errors \in Seq(Nat) /\ DOMAIN errors = 1..n
    <3>1. errors \in [1..n -> Nat]
      BY <1>2, <2>2
    <3>2. \A k \in Nat : \A f \in [1..k -> Nat] : f \in Seq(Nat) /\ DOMAIN f = 1..k
      OBVIOUS
    <3> HIDE DEF errors, n
    <3> QED BY ONLY <1>2, <3>1, <3>2
  <2> HIDE DEF errors, total
  <2>4. ListSum(errors) > 0 <=> \E i \in 1..n : errors[i] > 0
    BY <2>3, SumFacts
  <2> QED BY <1>2, <2>1, <2>2, <2>4 DEF Elements
<1>4. "scene" \notin DOMAIN summary
  OBVIOUS
<1>5. "block" \in DOMAIN values /\ values.block = (total.errors > 0)
  OBVIOUS
<1> HIDE DEF summary, values, total
<1>6. DbInv(begun) /\ \A s, w : s # None /\ Known(db, s, w) => Known(begun, s, w)
  <2> HIDE DEF begun
  <2> QED BY <1>4, CreateRunFacts DEF begun
<1>7. DbInv(empty) /\ \A s, w : s # None /\ Known(db, s, w) => Known(empty, s, w)
  <2> DEFINE nothing == [verdict |-> "failed", block |-> TRUE, errors |-> 1, warnings |-> 0]
  <2>1. "scene" \notin DOMAIN nothing
    OBVIOUS
  <2> HIDE DEF nothing
  <2>2. empty = Views!CreateRun(db, "validation", event.job, None, None, nothing)
    BY DEF Views!ValidateNothing, nothing
  <2> HIDE DEF empty
  <2> QED BY <2>1, <2>2, CreateRunFacts
<1> HIDE DEF begun, empty
<1>8. PICK state : ValidateLoop!StatesOf(state, event.job, begun, scenes)
  BY ValidateLoop!TurnsFacts
<1>9. /\ state[0] = begun /\ checked = state[n]
      /\ \A k \in 1..n : state[k] = Views!ValidateScene(state[k - 1], event.job, scenes[k])
  BY <1>8 DEF ValidateLoop!StatesOf, ValidatedOne
<1> HIDE DEF checked
<1> DEFINE Is(m, s) == scenes[m] # None /\ scenes[m].id = s
           Found(m) == Views!Verdict(scenes[m].errors, scenes[m].warnings)
           Right(k) == /\ DbInv(state[k])
                       /\ \A s, w : s # None /\ Known(db, s, w) =>
                            /\ \A m \in 1..k : Is(m, s) => Known(state[k], s, Found(m))
                            /\ (\A m \in 1..k : ~Is(m, s)) => Known(state[k], s, w)
           Good == {k \in Nat : k <= n => Right(k)}
<1>10. 0 \in Good
  BY <1>6, <1>9
<1>11. \A k \in Nat : k \in Good => k + 1 \in Good
  <2> SUFFICES ASSUME NEW k \in Nat, Right(k), k + 1 <= n PROVE Right(k + 1)
    <3> HIDE DEF Right
    <3> QED BY <1>2
  <2> DEFINE x == scenes[k + 1]
             old == state[k]
             new == Views!ValidateScene(old, event.job, x)
  <2>1. k + 1 \in 1..n /\ (k + 1) - 1 = k /\ x \in Elements(scenes)
    BY <1>2
  <2>2. state[k + 1] = new
    BY <1>9, <2>1
  <2>3. x = None => new = old
    BY DEF Views!ValidateScene
  <2>4. x # None => /\ DbInv(new) /\ Known(new, x.id, Found(k + 1))
                    /\ \A s, w : s # x.id /\ Known(old, s, w) => Known(new, s, w)
    BY <2>1, ValidateSceneFacts
  <2>5. DbInv(old)
    OBVIOUS
  <2>6. \A m : m \in 1..(k + 1) <=> m = k + 1 \/ m \in 1..k
    OBVIOUS
  <2>7. ASSUME NEW m \in 1..k, NEW s, Is(m, s), Is(k + 1, s) PROVE FALSE
    <3>1. m \in DOMAIN scenes /\ k + 1 \in DOMAIN scenes /\ m # k + 1
      BY <1>2, <2>1
    <3>2. None \notin {scenes[m], scenes[k + 1]} /\ scenes[m].id = scenes[k + 1].id
      BY <2>7
    <3> QED BY <3>1, <3>2
  <2>8. Is(k + 1, x.id) <=> x # None
    OBVIOUS
  <2>9. ASSUME NEW s, NEW w, s # None, Known(db, s, w), NEW m \in 1..(k + 1), Is(m, s)
        PROVE  Known(new, s, Found(m))
    <3>1. CASE m = k + 1
      BY <2>4, <2>9, <3>1
    <3>2. CASE m \in 1..k
      <4>1. Known(old, s, Found(m))
        BY <2>9, <3>2
      <4>2. ~Is(k + 1, s)
        BY <2>7, <2>9, <3>2
      <4> HIDE DEF new, Found, old
      <4> QED BY <2>3, <2>4, <4>1, <4>2
    <3> QED BY <2>6, <3>1, <3>2
  <2>10. ASSUME NEW s, NEW w, s # None, Known(db, s, w), \A m \in 1..(k + 1) : ~Is(m, s)
         PROVE  Known(new, s, w)
    <3>1. ~Is(k + 1, s) /\ \A m \in 1..k : ~Is(m, s)
      <4> HIDE DEF Is
      <4> QED BY <2>6, <2>10
    <3>2. Known(old, s, w)
      BY <2>10, <3>1
    <3> HIDE DEF new, Found, old
    <3> QED BY <2>3, <2>4, <3>1, <3>2
  <2> HIDE DEF Is, Found, new, old
  <2> QED BY <2>2, <2>3, <2>4, <2>5, <2>9, <2>10
<1>12. Nat \subseteq Good
  <2> HIDE DEF Good
  <2> QED BY ONLY <1>10, <1>11, Induction
<1>13. Right(n)
  <2> HIDE DEF Right
  <2> QED BY <1>2, <1>12
<1>14. ASSUME NEW s, NEW w, s # None, Known(db, s, w) PROVE Known(checked, s, VerdictAfter(s, w, event))
  <2> DEFINE of == {x \in Elements(scenes) : x # None /\ x.id = s}
             found == CHOOSE x \in of : TRUE
  <2>1. VerdictAfter(s, w, event) = IF of = {} THEN w ELSE Views!Verdict(found.errors, found.warnings)
    BY DEF VerdictAfter
  <2>2. CASE of = {}
    <3>1. \A m \in 1..n : ~Is(m, s)
      BY <1>2, <2>2
    <3> HIDE DEF of, found, Is, Found
    <3> QED BY <1>9, <1>13, <1>14, <2>1, <2>2, <3>1
  <2>3. CASE of # {}
    <3>1. found \in of
      BY <2>3
    <3>2. PICK m \in 1..n : found = scenes[m]
      BY <1>2, <3>1 DEF Elements
    <3>3. Is(m, s)
      BY <3>1, <3>2
    <3>4. Known(state[n], s, Found(m))
      <4> HIDE DEF Is, Found, found, of
      <4> QED BY <1>13, <1>14, <3>3
    <3>5. VerdictAfter(s, w, event) = Found(m)
      <4> HIDE DEF found, of
      <4> QED BY <2>1, <2>3, <3>2
    <3> QED BY <1>9, <3>4, <3>5
  <2> QED BY <2>2, <2>3
<1>15. DbInv(checked)
  BY <1>9, <1>13
<1>16. /\ DbInv(full) /\ full.cache.block = (total.errors > 0)
       /\ \A s, w : Known(checked, s, w) => Known(full, s, w)
  <2> HIDE DEF full
  <2> QED BY <1>5, <1>15, UpdateCacheFacts DEF full
<1>17. scenes = <<>> => \A s, w : VerdictAfter(s, w, event) = w
  <2> SUFFICES ASSUME scenes = <<>>, NEW s, NEW w PROVE VerdictAfter(s, w, event) = w
    OBVIOUS
  <2>1. Elements(scenes) = {}
    BY DEF Elements
  <2> QED BY <2>1 DEF VerdictAfter
<1> HIDE DEF full, Right, Is, Found
<1> QED BY <1>1, <1>3, <1>7, <1>14, <1>16, <1>17
-----------------------------------------------------------------------------
(* The jobs one after the other *)

\* One of the jobs that ValidEvents describes, and whether it stops a pipeline.
ValidEvent(e) ==
  \/ /\ e.op \in {"register", "profile"}
     /\ e.ids \in Seq(Elements(e.ids)) /\ None \notin Elements(e.ids)
     /\ e.op = "register" => e.annotations \in Nat
  \/ /\ e.op = "validate" /\ e.scenes \in Seq(Elements(e.scenes))
     /\ \A i, j \in DOMAIN e.scenes :
          None \notin {e.scenes[i], e.scenes[j]} /\ e.scenes[i].id = e.scenes[j].id => i = j
     /\ \A x \in Elements(e.scenes) \ {None} : x.id # None /\ x.errors \in Nat /\ x.warnings \in Nat

Blocked(e) == \E x \in Elements(e.scenes) : x = None \/ x.errors > 0

\* What a job leaves known, if what it profiles has passed.
LEMMA HandleFacts ==
  ASSUME NEW db, DbInv(db), NEW e, ValidEvent(e)
  PROVE  LET new == Views!Handle(db, e)
         IN /\ DbInv(new)
            /\ \A s, w : /\ s # None /\ Known(db, s, w)
                         /\ e.op = "profile" /\ s \in Elements(e.ids) => w \in Passed
                         => Known(new, s, VerdictAfter(s, w, e))
            /\ e.op = "validate" /\ e.scenes # <<>> => (new.cache.block <=> Blocked(e))
<1>1. CASE e.op = "register"
  <2> DEFINE new == Views!Register(db, e)
  <2>1. Views!Handle(db, e) = new
    BY <1>1 DEF Views!Handle
  <2>2. DbInv(new) /\ \A s, w : Known(db, s, w) => Known(new, s, IF s \in Elements(e.ids) THEN None ELSE w)
    BY <1>1, RegisterAll DEF ValidEvent
  <2>3. \A s, w : VerdictAfter(s, w, e) = IF s \in Elements(e.ids) THEN None ELSE w
    BY <1>1 DEF VerdictAfter
  <2> HIDE DEF new
  <2> QED BY <1>1, <2>1, <2>2, <2>3
<1>2. CASE e.op = "profile"
  <2> DEFINE new == Views!Profile(db, e)
  <2>1. Views!Handle(db, e) = new
    BY <1>2 DEF Views!Handle
  <2>2. DbInv(new) /\ \A s, w : (s \in Elements(e.ids) => w \in Passed) /\ Known(db, s, w) => Known(new, s, w)
    BY <1>2, ProfileAll DEF ValidEvent
  <2>3. \A s, w : VerdictAfter(s, w, e) = w
    BY <1>2 DEF VerdictAfter
  <2> HIDE DEF new
  <2> QED BY <1>2, <2>1, <2>2, <2>3
<1>3. CASE e.op = "validate"
  <2> DEFINE new == Views!Validate(db, e)
  <2>1. Views!Handle(db, e) = new
    BY <1>3 DEF Views!Handle
  <2>2. /\ DbInv(new)
        /\ \A s, w : s # None /\ Known(db, s, w) => Known(new, s, VerdictAfter(s, w, e))
        /\ e.scenes # <<>> => (new.cache.block <=> Blocked(e))
    BY <1>3, ValidateAll DEF ValidEvent, Blocked
  <2> HIDE DEF new
  <2> QED BY <1>3, <2>1, <2>2
<1> QED BY <1>1, <1>2, <1>3 DEF ValidEvent

\* What is known of a manifest, job by job.
LEMMA VerdictSteps ==
  ASSUME NEW T, NEW events \in Seq(T), NEW s
  PROVE  /\ LastVerdict(Prefix(events, 0), s) = None
         /\ \A k \in 1..Len(events) :
              LastVerdict(Prefix(events, k), s) = VerdictAfter(s, LastVerdict(Prefix(events, k - 1), s), events[k])
         /\ LastVerdict(events, s) = LastVerdict(Prefix(events, Len(events)), s)
<1>1. PICK state : /\ VerdictLoop!StatesOf(state, s, None, events)
                   /\ \A i \in 0..Len(events) : VerdictLoop!Turns(s, None, VerdictLoop!Prefix(events, i)) = state[i]
  BY VerdictLoop!LoopFacts
<1>2. \A i : VerdictLoop!Prefix(events, i) = Prefix(events, i)
  BY DEF VerdictLoop!Prefix, Prefix
<1>3. \A i \in 0..Len(events) : LastVerdict(Prefix(events, i), s) = state[i]
  BY <1>1, <1>2, Loops
<1>4. /\ state[0] = None /\ LastVerdict(events, s) = state[Len(events)]
      /\ \A k \in 1..Len(events) : state[k] = VerdictAfter(s, state[k - 1], events[k])
  BY <1>1, Loops DEF VerdictLoop!StatesOf
<1>5. /\ Len(events) \in Nat /\ 0 \in 0..Len(events) /\ Len(events) \in 0..Len(events)
      /\ \A k \in 1..Len(events) : k \in 0..Len(events) /\ k - 1 \in 0..Len(events)
  OBVIOUS
<1> QED BY <1>3, <1>4, <1>5

\* After valid jobs the database is as it should be, and of gated ones it knows
\* each manifest's last verdict.
LEMMA AfterFacts ==
  ASSUME NEW events, Views!ValidEvents(events)
  PROVE  LET db == Views!After(events)
             last == events[Len(events)]
         IN /\ DbInv(db)
            /\ Gated(events) => \A s : s # None => Known(db, s, LastVerdict(events, s))
            /\ events # <<>> /\ last.op = "validate" /\ last.scenes # <<>> =>
                 /\ db.cache.block <=> Blocked(last)
                 /\ \A s : \E w : LastVerdict(events, s) = VerdictAfter(s, w, last)
            /\ events # <<>> => ValidEvent(last)
<1> DEFINE n == Len(events)
           At(k, s) == LastVerdict(Prefix(events, k), s)
<1>1. /\ events \in Seq(Elements(events)) /\ n \in Nat /\ DOMAIN events = 1..n
      /\ \A k \in 1..n : ValidEvent(events[k])
  BY ViewsLists DEF Views!ValidEvents, ValidEvent, Elements
<1>2. PICK state : EventLoop!StatesOf(state, 0, Views!NewDb, events)
  BY <1>1, EventLoop!TurnsFacts
<1>3. /\ state[0] = Views!NewDb /\ Views!After(events) = state[n]
      /\ \A k \in 1..n : state[k] = Views!Handle(state[k - 1], events[k])
  BY <1>2, Loops DEF EventLoop!StatesOf, Handled
<1>4. /\ \A s : At(0, s) = None /\ LastVerdict(events, s) = At(n, s)
      /\ \A s : \A k \in 1..n : At(k, s) = VerdictAfter(s, At(k - 1, s), events[k])
  BY <1>1, VerdictSteps
<1>5. Gated(events) => \A s : \A k \in 1..n : events[k].op = "profile" /\ s \in Elements(events[k].ids) =>
                         At(k, s) \in Passed /\ At(k, s) = At(k - 1, s)
  <2> SUFFICES ASSUME Gated(events), NEW k \in 1..n, NEW s, events[k].op = "profile", s \in Elements(events[k].ids)
               PROVE  At(k, s) \in Passed /\ At(k, s) = At(k - 1, s)
    OBVIOUS
  <2>1. At(k, s) \in Passed
    BY <1>1 DEF Gated, Passed
  <2>2. VerdictAfter(s, At(k - 1, s), events[k]) = At(k - 1, s)
    BY DEF VerdictAfter
  <2> QED BY <1>4, <2>1, <2>2
<1> HIDE DEF At
<1> DEFINE Right(k) == /\ DbInv(state[k])
                       /\ Gated(events) => \A s : s # None => Known(state[k], s, At(k, s))
           Good == {k \in Nat : k <= n => Right(k)}
<1>6. 0 \in Good
  <2>1. Views!NewDb.rows = <<>> /\ Views!NewDb.runs = <<>>
    BY DEF Views!NewDb
  <2>2. Views!NewDb = [rows |-> Views!NewDb.rows, runs |-> Views!NewDb.runs, cache |-> Views!NewDb.cache]
    BY DEF Views!NewDb
  <2>3. <<>> \in Seq(Elements(<<>>)) /\ DOMAIN <<>> = {}
    OBVIOUS
  <2>4. DbInv(Views!NewDb)
    BY <2>1, <2>2, <2>3 DEF DbInv
  <2>5. \A s, w : Known(Views!NewDb, s, w)
    BY <2>1, <2>3 DEF Known
  <2> QED BY <1>3, <2>4, <2>5
<1>7. \A k \in Nat : k \in Good => k + 1 \in Good
  <2> SUFFICES ASSUME NEW k \in Nat, Right(k), k + 1 <= n PROVE Right(k + 1)
    <3> HIDE DEF Right
    <3> QED BY <1>1
  <2> DEFINE e == events[k + 1]
             old == state[k]
             new == Views!Handle(old, e)
  <2>1. k + 1 \in 1..n /\ (k + 1) - 1 = k
    BY <1>1
  <2>2. state[k + 1] = new /\ ValidEvent(e) /\ DbInv(old)
    BY <1>1, <1>3, <2>1
  <2> HIDE DEF e, old, new
  <2>3. /\ DbInv(new)
        /\ \A s, w : /\ s # None /\ Known(old, s, w)
                     /\ e.op = "profile" /\ s \in Elements(e.ids) => w \in Passed
                     => Known(new, s, VerdictAfter(s, w, e))
    BY <2>2, HandleFacts DEF new
  <2>4. ASSUME Gated(events), NEW s, s # None PROVE Known(new, s, At(k + 1, s))
    <3>1. Known(old, s, At(k, s))
      BY <2>4 DEF old
    <3>2. At(k + 1, s) = VerdictAfter(s, At(k, s), e)
      BY <1>4, <2>1 DEF e
    <3>3. e.op = "profile" /\ s \in Elements(e.ids) => At(k, s) \in Passed
      BY <1>5, <2>1, <2>4 DEF e
    <3> QED BY <2>3, <2>4, <3>1, <3>2, <3>3
  <2> QED BY <2>2, <2>3, <2>4
<1>8. Nat \subseteq Good
  <2> HIDE DEF Good
  <2> QED BY ONLY <1>6, <1>7, Induction
<1>9. Right(n)
  <2> HIDE DEF Right
  <2> QED BY <1>1, <1>8
<1>10. ASSUME events # <<>> PROVE n \in 1..n
  BY <1>1, <1>10
<1>11. ASSUME events # <<>>, events[n].op = "validate", events[n].scenes # <<>>
       PROVE  /\ Views!After(events).cache.block <=> Blocked(events[n])
              /\ \A s : \E w : LastVerdict(events, s) = VerdictAfter(s, w, events[n])
  <2>1. n \in 1..n /\ n - 1 \in Nat /\ n - 1 <= n
    BY <1>10, <1>11, <1>1
  <2>2. DbInv(state[n - 1])
    BY <1>8, <2>1
  <2>3. Views!After(events) = Views!Handle(state[n - 1], events[n])
    BY <1>3, <2>1
  <2>4. Views!After(events).cache.block <=> Blocked(events[n])
    BY <1>1, <1>11, <2>1, <2>2, <2>3, HandleFacts
  <2> QED BY <1>4, <2>1, <2>4
<1>12. events # <<>> => ValidEvent(events[n])
  BY <1>1, <1>10
<1> HIDE DEF Right
<1>13. DbInv(state[n]) /\ (Gated(events) => \A s : s # None => Known(state[n], s, At(n, s)))
  BY <1>9 DEF Right
<1> QED BY <1>3, <1>4, <1>11, <1>12, <1>13
-----------------------------------------------------------------------------
(* The latest run of a scene, looked up in two ways *)

\* A record of a run has the run's scene, and is not none.
LEMMA RecordFacts ==
  ASSUME NEW run, "scene" \notin DOMAIN run.summary
  PROVE  /\ Views!RunRecord(run).scene = run.scene /\ Views!RunRecord(run) # Views!NoRun
         /\ \A w : Says(run, w) => Views!RunRecord(run).verdict = w /\ ~Views!RunRecord(run).block
<1> DEFINE base == [id |-> run.id, type |-> run.type, scene |-> run.scene, report |-> run.report]
<1>1. DOMAIN base = {"id", "type", "scene", "report"} /\ base.scene = run.scene
  OBVIOUS
<1>2. Views!RunRecord(run) =
        [k \in DOMAIN base \union DOMAIN run.summary |-> IF k \in DOMAIN run.summary THEN run.summary[k] ELSE base[k]]
  BY DEF Views!RunRecord, Views!Overlaid
<1>3. DOMAIN Views!NoRun = {}
  BY DEF Views!NoRun
<1> HIDE DEF base
<1>4. Views!RunRecord(run).scene = run.scene
  BY <1>1, <1>2
<1>5. Views!RunRecord(run) # Views!NoRun
  <2>1. "id" \in DOMAIN Views!RunRecord(run)
    BY <1>1, <1>2
  <2> QED BY <1>3, <2>1
<1>6. \A w : Says(run, w) => Views!RunRecord(run).verdict = w /\ ~Views!RunRecord(run).block
  BY <1>2 DEF Says
<1> QED BY <1>4, <1>5, <1>6

\* The newest first: the same elements, in the opposite order.
LEMMA NewestFacts ==
  ASSUME NEW s, s \in Seq(Elements(s))
  PROVE  /\ Views!Newest(s) \in Seq(Elements(s)) /\ Len(Views!Newest(s)) = Len(s) /\ Len(s) \in Nat
         /\ DOMAIN s = 1..Len(s) /\ DOMAIN Views!Newest(s) = 1..Len(s)
         /\ \A i \in 1..Len(s) : Len(s) + 1 - i \in 1..Len(s) /\ Views!Newest(s)[i] = s[Len(s) + 1 - i]
<1> DEFINE n == Len(s)
           new == [i \in 1..n |-> s[n + 1 - i]]
<1>1. n \in Nat /\ DOMAIN s = 1..n /\ \A i \in 1..n : s[i] \in Elements(s)
  OBVIOUS
<1>2. Views!Newest(s) = new
  BY <1>1 DEF Views!Newest
<1>3. \A i \in 1..n : n + 1 - i \in 1..n
  BY <1>1
<1>4. new \in [1..n -> Elements(s)]
  BY <1>1, <1>3
<1>5. \A k \in Nat : \A f \in [1..k -> Elements(s)] : f \in Seq(Elements(s)) /\ Len(f) = k
  OBVIOUS
<1> HIDE DEF n
<1>6. new \in Seq(Elements(s)) /\ Len(new) = n /\ DOMAIN new = 1..n /\ \A i \in 1..n : new[i] = s[n + 1 - i]
  BY <1>1, <1>4, <1>5
<1> QED BY <1>1, <1>2, <1>3, <1>6 DEF n

\* The dictionary of the records, by scene.
ByScene(t) == Views!FirstBy(t, LAMBDA r : r.scene)

\* Of the elements of one scene, the first stays.
LEMMA BySceneFacts ==
  ASSUME NEW t, DOMAIN t \subseteq Int, NEW x
  PROVE  /\ x \in DOMAIN ByScene(t) <=> \E i \in DOMAIN t : t[i].scene = x
         /\ \A i \in DOMAIN t : t[i].scene = x /\ (\A j \in DOMAIN t : t[j].scene = x => i <= j)
                              => ByScene(t)[x] = t[i]
<1> DEFINE IsFirst(i) == i \in DOMAIN t /\ t[i].scene = x /\ \A j \in DOMAIN t : t[j].scene = x => i <= j
           first == CHOOSE i \in DOMAIN t : t[i].scene = x /\ \A j \in DOMAIN t : t[j].scene = x => i <= j
<1>1. /\ x \in DOMAIN ByScene(t) <=> \E i \in DOMAIN t : t[i].scene = x
      /\ x \in DOMAIN ByScene(t) => ByScene(t)[x] = t[first]
  BY DEF ByScene, Views!FirstBy
<1>2. ASSUME NEW i \in DOMAIN t, IsFirst(i) PROVE first = i
  <2>1. \A j \in DOMAIN t : j \in Int
    OBVIOUS
  <2>2. \A j : IsFirst(j) => j = i
    BY <1>2, <2>1
  <2>3. IsFirst(first)
    BY <1>2
  <2> HIDE DEF first, IsFirst
  <2> QED BY <2>2, <2>3
<1> HIDE DEF first
<1> QED BY <1>1, <1>2

\* The latest run of a scene, as the scene's endpoint looks it up.
LatestOf(db, type, s) ==
  LET runs == Views!ListRuns(db, type, s, 1) IN IF runs = <<>> THEN Views!NoRun ELSE runs[1]

\* Both look-ups find the latest run of a scene, or none where it has none.
LEMMA LatestFacts ==
  ASSUME NEW db, DbInv(db), NEW type, NEW s, s # None
  PROVE  LET latest == Views!LatestRuns(db, type)
         IN \/ /\ \A k : ~IsLatest(db.runs, type, s, k)
               /\ LatestOf(db, type, s) = Views!NoRun /\ s \notin DOMAIN latest
            \/ \E k \in DOMAIN db.runs :
                 /\ IsLatest(db.runs, type, s, k) /\ LatestOf(db, type, s) = Views!RunRecord(db.runs[k])
                 /\ s \in DOMAIN latest /\ latest[s] = Views!RunRecord(db.runs[k])
<1> DEFINE runs == db.runs
           n == Len(runs)
           new == Views!Newest(runs)
           Of == {i \in DOMAIN new : new[i].type = type /\ new[i].scene = s}
           Typed == {i \in DOMAIN new : new[i].type = type /\ new[i].scene # None}
           found == Picked(new, Of)
           typed == Views!Picked(new, Typed)
           records == [i \in DOMAIN found |-> Views!RunRecord(found[i])]
           listed == Views!ListRuns(db, type, s, 1)
           latest == Views!LatestRuns(db, type)
           at == SortedSet(Typed)
           c == Cardinality(Typed)
           all == [i \in DOMAIN typed |-> Views!RunRecord(typed[i])]
           RunScene(k) == Views!RunRecord(typed[k]).scene
<1>1. /\ new \in Seq(Elements(runs)) /\ Len(new) = n /\ n \in Nat
      /\ DOMAIN runs = 1..n /\ DOMAIN new = 1..n
      /\ \A i \in 1..n : n + 1 - i \in 1..n /\ new[i] = runs[n + 1 - i]
      /\ \A i \in 1..n : "scene" \notin DOMAIN new[i].summary
  <2>1. runs \in Seq(Elements(runs)) /\ \A i \in DOMAIN runs : "scene" \notin DOMAIN runs[i].summary
    BY DEF DbInv
  <2> HIDE DEF runs
  <2> QED BY <2>1, NewestFacts
<1> HIDE DEF new
<1>2. listed = Prefix(records, 1)
  BY ViewsLists DEF Views!ListRuns, Views!Filter, Views!Mapped, new
<1>3. latest = ByScene(all) /\ typed = Picked(new, Typed)
  <2>1. latest = ByScene(all)
    BY DEF Views!LatestRuns, Views!FirstBy, Views!Filter, Views!Mapped, new, ByScene
  <2> QED BY <2>1, ViewsLists
<1>4. /\ Of \in SUBSET DOMAIN new /\ Typed \in SUBSET DOMAIN new /\ Of \subseteq Typed
      /\ \A i : i \in Of <=> i \in 1..n /\ new[i].type = type /\ new[i].scene = s
      /\ \A i : i \in Typed <=> i \in 1..n /\ new[i].type = type /\ new[i].scene # None
  BY <1>1
<1>13. LatestOf(db, type, s) = IF listed = <<>> THEN Views!NoRun ELSE listed[1]
  BY DEF LatestOf
<1> HIDE DEF listed, latest, Of, Typed
<1>5. found \in Seq(Elements(runs)) /\ Len(found) = Cardinality(Of)
  BY <1>1, <1>4, PickedFacts
<1>6. /\ c \in Nat /\ DOMAIN typed = 1..c
      /\ \A k \in 1..c : at[k] \in Typed /\ typed[k] = new[at[k]]
      /\ \A j, k \in 1..c : j < k => at[j] < at[k]
      /\ \A i \in Typed : \E k \in 1..c : at[k] = i
  <2>1. /\ c \in Nat /\ typed \in Seq(Elements(runs)) /\ Len(typed) = c
        /\ \A k \in 1..c : at[k] \in Typed /\ typed[k] = new[at[k]]
        /\ \A j, k \in 1..c : j < k => at[j] < at[k]
        /\ \A i \in Typed : \E k \in 1..c : at[k] = i
    <3>1. new \in Seq(Elements(runs)) /\ Typed \in SUBSET DOMAIN new
      BY <1>1, <1>4
    <3>2. typed = Picked(new, Typed)
      BY <1>3
    <3> HIDE DEF typed
    <3> QED BY ONLY <3>1, <3>2, PickedFacts DEF at, c
  <2>2. DOMAIN typed = 1..c
    BY <2>1
  <2> QED BY <2>1, <2>2
<1> HIDE DEF typed, at, c, found
<1>7. \A k \in 1..c : /\ RunScene(k) = new[at[k]].scene /\ at[k] \in 1..n
                      /\ RunScene(k) = s <=> at[k] \in Of
  <2> SUFFICES ASSUME NEW k \in 1..c PROVE RunScene(k) = new[at[k]].scene /\ at[k] \in 1..n /\ (RunScene(k) = s <=> at[k] \in Of)
    OBVIOUS
  <2>1. at[k] \in 1..n /\ typed[k] = new[at[k]] /\ new[at[k]].type = type
    BY <1>4, <1>6
  <2>2. "scene" \notin DOMAIN typed[k].summary
    BY <1>1, <2>1
  <2>3. RunScene(k) = typed[k].scene
    BY <2>2, RecordFacts
  <2> QED BY <1>4, <2>1, <2>3
<1>0. /\ DOMAIN all = 1..c /\ DOMAIN all \subseteq Int
      /\ \A k \in 1..c : all[k] = Views!RunRecord(typed[k]) /\ all[k].scene = RunScene(k)
  BY <1>6
<1> HIDE DEF all
<1>10. DOMAIN all \subseteq Int
  BY <1>0
<1>11. \A k \in DOMAIN all : all[k].scene = s <=> at[k] \in Of
  <2> SUFFICES ASSUME NEW k \in 1..c PROVE all[k].scene = s <=> at[k] \in Of
    BY <1>0
  <2>1. all[k].scene = RunScene(k)
    BY <1>0
  <2>2. RunScene(k) = s <=> at[k] \in Of
    BY <1>7
  <2> HIDE DEF RunScene
  <2> QED BY <2>1, <2>2
<1>12. /\ s \in DOMAIN ByScene(all) <=> \E j \in DOMAIN all : all[j].scene = s
       /\ \A i \in DOMAIN all : all[i].scene = s /\ (\A j \in DOMAIN all : all[j].scene = s => i <= j)
                              => ByScene(all)[s] = all[i]
  BY ONLY <1>10, BySceneFacts
<1>8. CASE Of = {}
  <2>1. \A k : ~IsLatest(runs, type, s, k)
    <3> SUFFICES ASSUME NEW k, IsLatest(runs, type, s, k) PROVE FALSE
      OBVIOUS
    <3>1. k \in 1..n /\ runs[k].type = type /\ runs[k].scene = s
      BY <1>1 DEF IsLatest, IsRunOf
    <3>2. n + 1 - k \in 1..n /\ n + 1 - (n + 1 - k) = k
      BY <1>1, <3>1
    <3>3. n + 1 - k \in Of
      BY <1>1, <1>4, <3>1, <3>2
    <3> QED BY <1>8, <3>3
  <2>2. listed = <<>>
    <3>1. Len(found) = 0
      BY <1>5, <1>8, FS_EmptySet
    <3>2. found = <<>>
      BY <1>5, <3>1
    <3>3. records = <<>>
      BY <3>2
    <3>4. Prefix(<<>>, 1) = <<>>
      BY DEF Prefix
    <3> QED BY <1>2, <3>3, <3>4
  <2>3. s \notin DOMAIN latest
    BY <1>3, <1>8, <1>11, <1>12
  <2> QED BY <1>13, <2>1, <2>2, <2>3 DEF latest
<1>9. CASE Of # {}
  <2> DEFINE J == {j \in 1..n : IsRunOf(runs[j], type, s)}
  <2>1. \A i \in Of : n + 1 - i \in J
    BY <1>1, <1>4 DEF IsRunOf
  <2>2. PICK k \in J : \A j \in J : j <= k
    <3>1. J # {}
      BY <1>9, <2>1
    <3>2. IsFiniteSet(J) /\ J \in SUBSET Int
      <4>1. IsFiniteSet(1..n)
        BY <1>1, FS_Interval
      <4> QED BY <1>1, <4>1, FS_Subset
    <3> HIDE DEF J
    <3> QED BY <3>1, <3>2, GreatestExists
  <2>3. k \in DOMAIN runs /\ IsLatest(runs, type, s, k)
    BY <1>1, <2>2 DEF IsLatest
  <2> DEFINE m == n + 1 - k
  <2>4. m \in Of /\ new[m] = runs[k]
    <3>1. m \in 1..n /\ n + 1 - m = k
      BY <1>1, <2>2
    <3> QED BY <1>1, <1>4, <2>2, <3>1 DEF IsRunOf
  <2>5. \A i \in Of : m <= i
    <3> SUFFICES ASSUME NEW i \in Of PROVE m <= i
      OBVIOUS
    <3>1. n + 1 - i <= k /\ i \in Int /\ k \in Int
      BY <1>1, <1>4, <2>1, <2>2
    <3> QED BY <1>1, <3>1
  <2>6. k \in Int /\ m \in Int
    BY <1>1, <2>2
  <2> HIDE DEF m, J
  <2>7. listed # <<>> /\ listed[1] = Views!RunRecord(runs[k])
    <3>1. Len(found) >= 1 /\ found[1] = new[m]
      <4>1. new \in Seq(Elements(runs)) /\ Of \in SUBSET DOMAIN new
        BY <1>1, <1>4
      <4> QED BY ONLY <4>1, <2>4, <2>5, FirstPicked DEF found
    <3>2. DOMAIN found = 1..Len(found) /\ Len(found) \in Nat /\ 1 \in 1..Len(found)
      BY <1>5, <3>1
    <3>3. records \in Seq(Elements(records)) /\ Len(records) = Len(found)
      <4>1. found \in Seq(Elements(found))
        <5>1. \A i \in 1..Len(found) : found[i] \in Elements(found)
          BY <3>2 DEF Elements
        <5> QED BY <1>5, <3>2, <5>1
      <4>2. DOMAIN records = DOMAIN found /\ records = [i \in DOMAIN found |-> records[i]]
        OBVIOUS
      <4> HIDE DEF records
      <4> QED BY <4>1, <4>2, MappedFacts
    <3>4. records[1] = Views!RunRecord(runs[k])
      BY <2>4, <3>1, <3>2
    <3> HIDE DEF records
    <3>5. 1 \in Int /\ 1 \in 0..Len(records)
      BY <3>1, <3>2, <3>3
    <3>6. Len(Prefix(records, 1)) = 1 /\ \A i \in 1..1 : Prefix(records, 1)[i] = records[i]
      BY <3>3, <3>5, PrefixFacts
    <3>7. Prefix(records, 1) # <<>>
      BY <3>6
    <3> QED BY <1>2, <3>4, <3>6, <3>7
  <2>8. PICK i \in 1..c : at[i] = m
    BY <1>4, <1>6, <2>4
  <2> HIDE DEF RunScene
  <2>9. i \in DOMAIN all /\ all[i].scene = s
    BY <1>0, <1>7, <2>4, <2>8
  <2>10. \A j \in DOMAIN all : all[j].scene = s => i <= j
    <3> SUFFICES ASSUME NEW j \in 1..c, all[j].scene = s PROVE i <= j
      BY <1>0
    <3>1. at[j] \in Of /\ at[j] \in 1..n
      BY <1>0, <1>7, <1>11
    <3>2. m <= at[j] /\ at[j] \in Int
      BY <1>1, <2>5, <3>1
    <3>3. ~(j < i)
      BY <1>6, <2>6, <2>8, <3>2
    <3> QED BY <1>6, <3>3
  <2>11. /\ s \in DOMAIN ByScene(all) <=> \E j \in DOMAIN all : all[j].scene = s
         /\ ByScene(all)[s] = all[i]
    BY <1>12, <2>9, <2>10
  <2>12. all[i] = Views!RunRecord(runs[k])
    BY <1>0, <1>6, <2>4, <2>8
  <2>13. s \in DOMAIN latest /\ latest[s] = Views!RunRecord(runs[k])
    BY <1>3, <2>9, <2>11, <2>12
  <2> QED BY <1>13, <2>3, <2>7, <2>13 DEF latest
<1> QED BY <1>8, <1>9
-----------------------------------------------------------------------------
(* What the views say *)

\* The quality of a row, from what the scene's endpoint looks up.
QualityOf(db, row) == Views!Quality(row, LatestOf(db, "validation", row.id), LatestOf(db, "profile", row.id))

\* A scene has one latest run of each type.
LEMMA OneLatest ==
  ASSUME NEW db, DbInv(db), NEW type, NEW s, s # None, NEW k \in DOMAIN db.runs, IsLatest(db.runs, type, s, k)
  PROVE  LatestOf(db, type, s) = Views!RunRecord(db.runs[k])
<1> DEFINE r == LatestOf(db, type, s)
           Right(l) == l \in DOMAIN db.runs /\ IsLatest(db.runs, type, s, l) /\ r = Views!RunRecord(db.runs[l])
<1>1. (\A l : ~IsLatest(db.runs, type, s, l)) \/ \E l : Right(l)
  BY LatestFacts
<1>2. PICK l : Right(l)
  <2> HIDE DEF Right
  <2> QED BY <1>1
<1>3. \A j \in DOMAIN db.runs : j \in Int
  BY DEF DbInv
<1>4. k = l
  BY <1>2, <1>3 DEF IsLatest
<1> QED BY <1>2, <1>4

\* The endpoint of a scene and that of the version look at the same runs.
LEMMA SameQuality ==
  ASSUME NEW db, DbInv(db)
  PROVE  LET all == Views!AllQuality(db)
             n == Len(db.rows)
         IN /\ \A i \in DOMAIN db.rows :
                 /\ Views!RowOf(db, db.rows[i].id) = db.rows[i]
                 /\ Views!SceneQuality(db, db.rows[i].id) = QualityOf(db, db.rows[i])
            /\ all \in Seq(Elements(all)) /\ Len(all) \in Nat /\ DOMAIN all = 1..Len(all)
            /\ n \in Nat /\ DOMAIN db.rows = 1..n /\ (n <= Views!SceneLimit => Len(all) = n)
            /\ \A k \in DOMAIN all : n + 1 - k \in DOMAIN db.rows /\ all[k] = QualityOf(db, db.rows[n + 1 - k])
<1> DEFINE rows == db.rows
           n == Len(rows)
           all == Views!AllQuality(db)
           new == Views!Newest(rows)
           shown == Prefix(new, Views!SceneLimit)
           validations == Views!LatestRuns(db, "validation")
           profiles == Views!LatestRuns(db, "profile")
           Of(latest, s) == IF s \in DOMAIN latest THEN latest[s] ELSE Views!NoRun
           grade == [k \in DOMAIN shown |-> Views!Quality(shown[k], Of(validations, shown[k].id),
                                                          Of(profiles, shown[k].id))]
<1>1. ASSUME NEW i \in DOMAIN rows
      PROVE  /\ Views!RowOf(db, rows[i].id) = rows[i]
             /\ Views!SceneQuality(db, rows[i].id) = QualityOf(db, rows[i])
             /\ Of(validations, rows[i].id) = LatestOf(db, "validation", rows[i].id)
             /\ Of(profiles, rows[i].id) = LatestOf(db, "profile", rows[i].id)
  <2> DEFINE r == rows[i]
  <2>1. r.id # None /\ \A j \in DOMAIN rows : rows[j].id = r.id => rows[j] = r
    BY DEF DbInv, IsRow
  <2>2. Views!RowOf(db, r.id) = r
    <3>1. r \in Views!Elements(rows) /\ \A x \in Views!Elements(rows) : x.id = r.id => x = r
      BY <2>1 DEF Views!Elements
    <3> HIDE DEF r, rows
    <3> QED BY <3>1 DEF Views!RowOf, rows
  <2>3. Views!SceneQuality(db, r.id) = QualityOf(db, r)
    <3> HIDE DEF r
    <3> QED BY <2>2 DEF Views!SceneQuality, QualityOf, LatestOf
  <2>4. \A type : Of(Views!LatestRuns(db, type), r.id) = LatestOf(db, type, r.id)
    <3> SUFFICES ASSUME NEW type PROVE Of(Views!LatestRuns(db, type), r.id) = LatestOf(db, type, r.id)
      OBVIOUS
    <3> HIDE DEF r
    <3> QED BY <2>1, LatestFacts
  <2> QED BY <2>2, <2>3, <2>4
<1>2. all = grade
  BY ViewsLists DEF Views!AllQuality, Views!ListScenes, Views!Mapped
<1>3. /\ new \in Seq(Elements(rows)) /\ Len(new) = n /\ n \in Nat /\ DOMAIN rows = 1..n
      /\ \A i \in 1..n : n + 1 - i \in 1..n /\ new[i] = rows[n + 1 - i]
  <2>1. rows \in Seq(Elements(rows))
    BY DEF DbInv
  <2> HIDE DEF rows
  <2> QED BY <2>1, NewestFacts
<1> HIDE DEF new
<1>8. Views!SceneLimit \in Int
  BY DEF Views!SceneLimit
<1>4. /\ shown \in Seq(Elements(rows)) /\ Len(shown) <= n /\ (n <= Views!SceneLimit => Len(shown) = n)
      /\ \A k \in 1..Len(shown) : shown[k] = new[k]
  <2>1. Views!SceneLimit \in Int /\ new \in Seq(Elements(rows))
    BY <1>3, <1>8
  <2>2. /\ shown \in Seq(Elements(rows)) /\ Len(shown) <= Len(new)
        /\ \A k \in 1..Len(shown) : shown[k] = new[k]
        /\ Views!SceneLimit >= Len(new) => shown = new
    BY ONLY <2>1, PrefixFacts
  <2> HIDE DEF shown
  <2> QED BY <1>3, <2>2, <2>1
<1> HIDE DEF shown
<1>5. /\ DOMAIN shown = 1..Len(shown) /\ Len(shown) \in Nat
      /\ \A k \in DOMAIN shown : n + 1 - k \in 1..n /\ shown[k] = rows[n + 1 - k]
  <2>1. DOMAIN shown = 1..Len(shown) /\ Len(shown) \in Nat
    BY <1>4
  <2>2. \A k \in 1..Len(shown) : k \in 1..n
    BY <1>3, <1>4, <2>1
  <2> QED BY <1>3, <1>4, <2>1, <2>2
<1>6. \A k \in DOMAIN shown : grade[k] = QualityOf(db, rows[n + 1 - k])
  <2> SUFFICES ASSUME NEW k \in DOMAIN shown PROVE grade[k] = QualityOf(db, rows[n + 1 - k])
    OBVIOUS
  <2> DEFINE i == n + 1 - k
  <2>1. i \in DOMAIN rows /\ shown[k] = rows[i]
    BY <1>3, <1>5
  <2>2. grade[k] = Views!Quality(rows[i], Of(validations, rows[i].id), Of(profiles, rows[i].id))
    BY <2>1
  <2> HIDE DEF i, grade, Of, validations, profiles
  <2>3. grade[k] = QualityOf(db, rows[i])
    BY <1>1, <2>1, <2>2 DEF QualityOf
  <2> QED BY <2>3 DEF i
<1>7. grade \in Seq(Elements(grade)) /\ DOMAIN grade = 1..Len(shown) /\ Len(grade) = Len(shown)
  <2>1. DOMAIN grade = 1..Len(shown) /\ grade = [k \in 1..Len(shown) |-> grade[k]]
    BY <1>5
  <2>2. \A k \in 1..Len(shown) : grade[k] \in Elements(grade)
    BY <1>5 DEF Elements
  <2>3. Len(shown) \in Nat
    BY <1>5
  <2> HIDE DEF grade
  <2>4. grade \in [1..Len(shown) -> Elements(grade)]
    BY <2>1, <2>2, Zenon
  <2> QED BY <2>1, <2>3, <2>4
<1> HIDE DEF all, grade, n, Of, validations, profiles
<1>9. /\ all \in Seq(Elements(all)) /\ Len(all) \in Nat /\ DOMAIN all = 1..Len(all)
      /\ n <= Views!SceneLimit => Len(all) = n
      /\ \A k \in DOMAIN all : n + 1 - k \in DOMAIN rows /\ all[k] = QualityOf(db, rows[n + 1 - k])
  <2>1. n <= Views!SceneLimit => Len(grade) = n
    BY <1>4, <1>7
  <2>2. \A k \in DOMAIN grade : n + 1 - k \in DOMAIN rows /\ grade[k] = QualityOf(db, rows[n + 1 - k])
    BY <1>3, <1>5, <1>6, <1>7
  <2>3. grade \in Seq(Elements(grade)) /\ Len(grade) \in Nat /\ DOMAIN grade = 1..Len(grade)
    BY <1>5, <1>7
  <2> QED BY <1>2, <2>1, <2>2, <2>3
<1> QED BY <1>1, <1>3, <1>9 DEF n, all

\* Mining for detection takes the scene of the row.
Minable(row) ==
  Mining!PassesMining(row, [profile |-> "detection_ready", groundTruth |-> None, minAnnotations |-> None,
                            maxAnnotations |-> None, required |-> {}, selectable |-> None])

\* What the views say of a row and its latest validation.
LEMMA GradeFacts ==
  ASSUME NEW row, IsRow(row), NEW v, NEW p
  PROVE  LET q == Views!Quality(row, v, p)
             validated == row.status \in {"validated", "profiled"}
         IN /\ q.id = row.id
            /\ q.readiness \in {"ready", "warning", "blocked", "unknown"} /\ q.selectable \in BOOLEAN
            /\ q.selectable <=> validated /\ v # Views!NoRun /\ ~Views!Blocks(v) /\ row.annotations > 0
            /\ ~validated => q.readiness = "unknown"
            /\ validated /\ v # Views!NoRun /\ ~Views!Blocks(v) /\ v.verdict \in Passed => q.readiness = v.verdict
            /\ Minable(row) <=> validated /\ row.annotations > 0
            /\ validated => Mining!ValidationStatus(row) = "ready"
<1> DEFINE q == Views!Quality(row, v, p)
           validated == row.status \in {"validated", "profiled"}
           R == Views!ExclusionReasons(row, v)
<1>1. q.id = row.id /\ q.readiness = Views!Readiness(row, v) /\ q.selectable = (R = {})
  BY DEF Views!Quality
<1> HIDE DEF q
<1>2. /\ "scene_not_ready" \in R <=> ~validated
      /\ "validation_missing" \in R <=> v = Views!NoRun
      /\ "validation_blocked" \in R <=> v # Views!NoRun /\ Views!Blocks(v)
      /\ "missing_ground_truth" \in R <=> ~row.groundTruth \/ row.annotations <= 0
      /\ R \subseteq {"scene_not_ready", "validation_missing", "validation_blocked", "missing_ground_truth"}
  BY DEF Views!ExclusionReasons, Views!IsValidated
<1>3. row.annotations \in Nat /\ row.groundTruth = (row.annotations > 0) /\ row.channels = {}
  BY DEF IsRow
<1> HIDE DEF R
<1>4. R = {} <=> validated /\ v # Views!NoRun /\ ~Views!Blocks(v) /\ row.annotations > 0
  <2>1. ~row.groundTruth \/ row.annotations <= 0 <=> ~(row.annotations > 0)
    <3>1. row.annotations <= 0 <=> ~(row.annotations > 0)
      BY <1>3
    <3> QED BY <1>3, <3>1, Zenon
  <2>2. R = {} <=> /\ "scene_not_ready" \notin R /\ "validation_missing" \notin R
                   /\ "validation_blocked" \notin R /\ "missing_ground_truth" \notin R
    BY <1>2
  <2> QED BY <1>2, <2>1, <2>2, Zenon
<1>5. /\ Views!Readiness(row, v) \in {"ready", "warning", "blocked", "unknown"}
      /\ ~validated => Views!Readiness(row, v) = "unknown"
      /\ validated /\ v # Views!NoRun /\ ~Views!Blocks(v) /\ v.verdict \in Passed => Views!Readiness(row, v) = v.verdict
  BY DEF Views!Readiness, Views!IsValidated, Passed
<1>6. validated => Mining!ValidationStatus(row) = "ready"
  BY DEF Mining!ValidationStatus
<1>7. Minable(row) <=> validated /\ row.annotations > 0
  <2> DEFINE params == [profile |-> "detection_ready", groundTruth |-> None, minAnnotations |-> None,
                        maxAnnotations |-> None, required |-> {}, selectable |-> None]
             profile == Mining!ProfileOf(params.profile)
             truth == Mining!OrElse(params.groundTruth, profile.groundTruth)
             least == Mining!OrElse(params.minAnnotations, profile.minAnnotations)
  <2>1. /\ params.profile = "detection_ready" /\ params.groundTruth = None /\ params.minAnnotations = None
        /\ params.maxAnnotations = None /\ params.required = {} /\ params.selectable = None
    OBVIOUS
  <2> HIDE DEF params
  <2>2. profile.groundTruth = TRUE /\ profile.minAnnotations = 1 /\ profile.validated = TRUE
    BY <2>1, Zenon DEF Mining!ProfileOf
  <2>3. Mining!PassesMining(row, params) <=>
          /\ truth # None => row.groundTruth = truth
          /\ least # None => row.annotations >= least
          /\ params.maxAnnotations # None => row.annotations <= params.maxAnnotations
          /\ profile.validated => validated
          /\ params.required \subseteq row.channels
          /\ params.selectable # None => Mining!SelectableForDetection(row) = params.selectable
    BY Zenon DEF Mining!PassesMining
  <2> HIDE DEF profile
  <2>4. truth = TRUE /\ truth # None
    BY <2>1, <2>2, NoneIsNoValue, Zenon DEF Mining!OrElse
  <2>5. least = 1 /\ least # None
    <3>1. 1 \in Int \union BOOLEAN \union {"ready", "warning", "failed"}
      OBVIOUS
    <3> QED BY <2>1, <2>2, <3>1, NoneIsNoValue DEF Mining!OrElse
  <2> HIDE DEF truth, least
  <2>6. Mining!PassesMining(row, params) <=>
          row.groundTruth = TRUE /\ row.annotations >= least /\ validated
    BY <2>1, <2>2, <2>3, <2>4, <2>5, <1>3, Zenon
  <2>7. row.groundTruth = TRUE <=> row.annotations > 0
    BY <1>3
  <2>8. row.annotations >= least <=> row.annotations > 0
    BY <1>3, <2>5
  <2>9. Mining!PassesMining(row, params) <=> validated /\ row.annotations > 0
    BY <2>6, <2>7, <2>8, Zenon
  <2> QED BY <2>9 DEF Minable, params
<1> QED BY <1>1, <1>4, <1>5, <1>6, <1>7 DEF q

\* What is known of a manifest is what the views say of the scene.
LEMMA KnownFacts ==
  ASSUME NEW db, DbInv(db), NEW i \in DOMAIN db.rows, NEW w, Known(db, db.rows[i].id, w)
  PROVE  LET row == db.rows[i]
             q == QualityOf(db, row)
         IN /\ q.readiness = IF w \in Passed THEN w ELSE "unknown"
            /\ q.selectable <=> w \in Passed /\ row.annotations > 0
            /\ q.selectable <=> Minable(row)
<1> DEFINE row == db.rows[i]
           q == QualityOf(db, row)
           v == LatestOf(db, "validation", row.id)
           p == LatestOf(db, "profile", row.id)
           validated == row.status \in {"validated", "profiled"}
<1>1. IsRow(row) /\ row.id # None /\ row.annotations \in Nat
  BY DEF DbInv, IsRow
<1>2. validated <=> w \in Passed
  BY DEF Known
<1>3. w \in Passed => v # Views!NoRun /\ ~Views!Blocks(v) /\ v.verdict = w
  <2> SUFFICES ASSUME w \in Passed PROVE v # Views!NoRun /\ ~Views!Blocks(v) /\ v.verdict = w
    OBVIOUS
  <2>1. PICK k \in DOMAIN db.runs : IsLatest(db.runs, "validation", row.id, k) /\ Says(db.runs[k], w)
    BY DEF Known
  <2> HIDE DEF row
  <2>2. v = Views!RunRecord(db.runs[k])
    BY <1>1, <2>1, OneLatest
  <2>3. "scene" \notin DOMAIN db.runs[k].summary
    BY DEF DbInv
  <2> HIDE DEF v
  <2>4. v # Views!NoRun /\ v.verdict = w /\ ~v.block
    BY <2>1, <2>2, <2>3, RecordFacts
  <2> QED BY <2>4 DEF Views!Blocks, Passed
<1>4. /\ q.selectable <=> validated /\ v # Views!NoRun /\ ~Views!Blocks(v) /\ row.annotations > 0
      /\ ~validated => q.readiness = "unknown"
      /\ validated /\ v # Views!NoRun /\ ~Views!Blocks(v) /\ v.verdict \in Passed => q.readiness = v.verdict
      /\ Minable(row) <=> validated /\ row.annotations > 0
  <2>1. q = Views!Quality(row, v, p)
    BY DEF QualityOf
  <2> HIDE DEF row, v, p, q
  <2> QED BY <1>1, <2>1, GradeFacts
<1> HIDE DEF q, v, validated
<1> QED BY <1>2, <1>3, <1>4 DEF q

\* Every scene is of one of the four kinds, and a version is ready exactly when
\* there are scenes and all are ready and selectable.
LEMMA AggregateFacts ==
  ASSUME NEW T, NEW all \in Seq(T),
         \A k \in DOMAIN all : /\ all[k].readiness \in {"ready", "warning", "blocked", "unknown"}
                               /\ all[k].selectable \in BOOLEAN
  PROVE  LET sum == Views!Aggregate(all)
         IN /\ sum.ready + sum.warning + sum.blocked + sum.unknown = sum.scenes
            /\ Views!VersionReadiness(sum) = "ready" <=>
                 all # <<>> /\ \A q \in Elements(all) : q.readiness = "ready" /\ q.selectable
<1> DEFINE sum == Views!Aggregate(all)
           D == DOMAIN all
           Is(r) == {k \in D : all[k].readiness = r}
           chosen == {k \in D : all[k].selectable}
           left == {k \in D : ~all[k].selectable}
<1>1. /\ sum.scenes = Len(all)
      /\ sum.ready = Cardinality(Is("ready")) /\ sum.warning = Cardinality(Is("warning"))
      /\ sum.blocked = Cardinality(Is("blocked")) /\ sum.unknown = Cardinality(Is("unknown"))
      /\ sum.selectable = Cardinality(chosen) /\ sum.excluded = Cardinality(left)
  BY ViewsLists DEF Views!Aggregate, Views!CountIn
<1>2. IsFiniteSet(D) /\ Cardinality(D) = Len(all) /\ Len(all) \in Nat /\ D = 1..Len(all)
  BY DomainFacts
<1> HIDE DEF sum
<1>3. ASSUME NEW S \in SUBSET D
      PROVE  IsFiniteSet(S) /\ Cardinality(S) \in Nat /\ (Cardinality(S) = 0 <=> S = {})
  <2>1. IsFiniteSet(S)
    BY <1>2, FS_Subset
  <2> QED BY <2>1, FS_CardinalityType, FS_EmptySet
<1>4. /\ Is("ready") \in SUBSET D /\ Is("warning") \in SUBSET D /\ Is("blocked") \in SUBSET D
      /\ Is("unknown") \in SUBSET D /\ chosen \in SUBSET D /\ left \in SUBSET D
      /\ \A k \in D : k \in Is("ready") \/ k \in Is("warning") \/ k \in Is("blocked") \/ k \in Is("unknown")
      /\ \A k \in D : k \in chosen \/ k \in left
  OBVIOUS
<1>5. sum.ready + sum.warning + sum.blocked + sum.unknown = sum.scenes
  <2> DEFINE A == Is("ready")
             B == Is("warning")
             C == Is("blocked")
             E == Is("unknown")
             CE == C \union E
  <2>1. Cardinality(A) + Cardinality(B) + Cardinality(CE) = Cardinality(D)
    <3>1. /\ A \in SUBSET D /\ B \in SUBSET D /\ CE \in SUBSET D /\ A \union B \union CE = D
          /\ A \intersect B = {} /\ A \intersect CE = {} /\ B \intersect CE = {}
      BY <1>4
    <3>2. IsFiniteSet(D)
      BY <1>2
    <3> HIDE DEF A, B, CE, D
    <3> QED BY ONLY <3>1, <3>2, ThreeKinds
  <2>2. Cardinality(C) + Cardinality(E) + Cardinality({}) = Cardinality(CE)
    <3>1. /\ C \in SUBSET CE /\ E \in SUBSET CE /\ {} \in SUBSET CE /\ C \union E \union {} = CE
          /\ C \intersect E = {} /\ C \intersect {} = {} /\ E \intersect {} = {}
      OBVIOUS
    <3>2. IsFiniteSet(CE)
      <4>1. CE \in SUBSET D
        BY <1>4
      <4> QED BY <1>3, <4>1
    <3> HIDE DEF C, E, CE
    <3> QED BY ONLY <3>1, <3>2, ThreeKinds
  <2>3. Cardinality({}) = 0
    BY FS_EmptySet
  <2>4. /\ Cardinality(A) \in Nat /\ Cardinality(B) \in Nat /\ Cardinality(C) \in Nat /\ Cardinality(E) \in Nat
    BY <1>3, <1>4
  <2> HIDE DEF CE
  <2> QED BY <1>1, <1>2, <2>1, <2>2, <2>3, <2>4
<1>6. Views!VersionReadiness(sum) = "ready" <=>
        /\ sum.scenes # 0 /\ sum.unknown # sum.scenes /\ sum.selectable # 0
        /\ ~(sum.warning + sum.blocked + sum.unknown + sum.excluded > 0)
  BY DEF Views!VersionReadiness
<1>7. /\ sum.warning \in Nat /\ sum.blocked \in Nat /\ sum.unknown \in Nat /\ sum.excluded \in Nat
      /\ sum.scenes \in Nat
      /\ sum.warning = 0 <=> Is("warning") = {}
      /\ sum.blocked = 0 <=> Is("blocked") = {}
      /\ sum.unknown = 0 <=> Is("unknown") = {}
      /\ sum.excluded = 0 <=> left = {}
      /\ sum.selectable = 0 <=> chosen = {}
      /\ sum.scenes = 0 <=> D = {}
  <2>1. D \in SUBSET D
    OBVIOUS
  <2> QED BY <1>1, <1>2, <1>3, <1>4, <2>1
<1>8. ~(sum.warning + sum.blocked + sum.unknown + sum.excluded > 0) <=>
        Is("warning") = {} /\ Is("blocked") = {} /\ Is("unknown") = {} /\ left = {}
  <2> DEFINE a == sum.warning
             b == sum.blocked
             c == sum.unknown
             d == sum.excluded
  <2>1. a \in Nat /\ b \in Nat /\ c \in Nat /\ d \in Nat
    BY <1>7
  <2> HIDE DEF a, b, c, d
  <2>2. ~(a + b + c + d > 0) <=> a = 0 /\ b = 0 /\ c = 0 /\ d = 0
    BY ONLY <2>1
  <2> USE DEF a, b, c, d
  <2> QED BY ONLY <1>7, <2>2, Zenon
<1>9. all # <<>> <=> D # {}
  BY <1>2
<1>10. (\A q \in Elements(all) : q.readiness = "ready" /\ q.selectable) <=>
         Is("warning") = {} /\ Is("blocked") = {} /\ Is("unknown") = {} /\ left = {}
  BY DEF Elements
<1>11. D # {} /\ Is("unknown") = {} /\ left = {} => sum.unknown # sum.scenes /\ chosen # {}
  BY <1>4, <1>7
<1> HIDE DEF D, Is, chosen, left
<1>12. Views!VersionReadiness(sum) = "ready" <=>
         all # <<>> /\ \A q \in Elements(all) : q.readiness = "ready" /\ q.selectable
  BY <1>6, <1>7, <1>8, <1>9, <1>10, <1>11
<1> QED BY <1>5, <1>12 DEF sum

\* Two pages are the beginning of the list.
LEMMA PagesFacts ==
  ASSUME NEW T, NEW s \in Seq(T), NEW n \in {1, 2}
  PROVE  SubSeq(s, 1, IF n < Len(s) THEN n ELSE Len(s))
           \o SubSeq(s, n + 1, IF n + n < Len(s) THEN n + n ELSE Len(s)) = Prefix(s, 2 * n)
<1> DEFINE l == Len(s)
           a == IF n < l THEN n ELSE l
           b == IF n + n < l THEN n + n ELSE l
           first == SubSeq(s, 1, a)
           second == SubSeq(s, n + 1, b)
           both == SubSeq(s, 1, b)
<1>1. l \in Nat /\ n \in Nat /\ n >= 1 /\ DOMAIN s = 1..l /\ \A i \in 1..l : s[i] \in T
  OBVIOUS
<1> HIDE DEF l
<1>2. /\ a \in Nat /\ b \in Nat /\ a <= b /\ b <= l /\ a <= n
      /\ n <= b => a = n
      /\ ~(n <= b) => a = b
  BY <1>1
<1>3. Prefix(s, 2 * n) = both
  <2>1. Prefix(s, 2 * n) = SubSeq(s, 1, IF 2 * n < 0 THEN l + 2 * n ELSE IF 2 * n < l THEN 2 * n ELSE l)
    BY DEF Prefix, l
  <2>2. (IF 2 * n < 0 THEN l + 2 * n ELSE IF 2 * n < l THEN 2 * n ELSE l) = b
    BY <1>1
  <2> QED BY <2>1, <2>2
<1> HIDE DEF a, b
<1>4. /\ first \in Seq(T) /\ Len(first) = a /\ \A i \in 1..a : first[i] = s[i]
  BY <1>1, <1>2 DEF l
<1>5. /\ both \in Seq(T) /\ Len(both) = b /\ \A i \in 1..b : both[i] = s[i]
  BY <1>1, <1>2 DEF l
<1>6. /\ second \in Seq(T) /\ Len(second) = b - a /\ \A i \in 1..(b - a) : second[i] = s[a + i]
  <2>1. CASE n <= b
    <3>1. a = n
      BY <1>2, <2>1
    <3> QED BY <1>1, <1>2, <2>1, <3>1 DEF l
  <2>2. CASE ~(n <= b)
    <3>1. second = <<>>
      BY <1>1, <1>2, <2>2 DEF l
    <3> QED BY <1>2, <2>2, <3>1
  <2> QED BY <2>1, <2>2
<1> HIDE DEF first, second, both
<1>7. first \o second = both
  <2>1. first \o second \in Seq(T) /\ Len(first \o second) = b
    BY <1>2, <1>4, <1>6
  <2>2. \A i \in 1..b : (first \o second)[i] = both[i]
    <3> SUFFICES ASSUME NEW i \in 1..b PROVE (first \o second)[i] = both[i]
      OBVIOUS
    <3>1. CASE i <= a
      BY <1>2, <1>4, <1>5, <1>6, <3>1
    <3>2. CASE ~(i <= a)
      <4>1. i - a \in 1..(b - a) /\ a + (i - a) = i
        BY <1>2, <3>2
      <4>2. (first \o second)[i] = second[i - a]
        BY <1>2, <1>4, <1>6, <3>2
      <4> QED BY <1>5, <1>6, <4>1, <4>2
    <3> QED BY <3>1, <3>2
  <2> QED BY <1>5, <2>1, <2>2
<1> QED BY <1>3, <1>7 DEF first, second, a, b, l

\* A validation lets a manifest pass exactly when it finds no error in it.
LEMMA CheckedFacts ==
  ASSUME NEW e, ValidEvent(e), e.op = "validate", NEW x \in Elements(e.scenes), x # None, NEW w
  PROVE  VerdictAfter(x.id, w, e) \in Passed <=> ~(x.errors > 0)
<1> DEFINE of == {y \in Elements(e.scenes) : y # None /\ y.id = x.id}
           found == CHOOSE y \in of : TRUE
<1>1. VerdictAfter(x.id, w, e) = IF of = {} THEN w ELSE Views!Verdict(found.errors, found.warnings)
  BY DEF VerdictAfter
<1>2. x \in of /\ \A y \in of : y = x
  BY DEF ValidEvent, Elements
<1> HIDE DEF of
<1>3. of # {} /\ found = x
  BY <1>2
<1> HIDE DEF found
<1>4. x.errors \in Nat /\ x.warnings \in Nat
  BY DEF ValidEvent
<1> QED BY <1>1, <1>3, <1>4 DEF Views!Verdict, Passed

\* What has been computed is what the views make of the jobs, and the jobs are
\* ones that may be executed.
ViewsInv ==
  input.kind = "views" =>
    /\ Views!ValidEvents(input.events)
    /\ output # NotYet => output = ViewsOf(Views!After(input.events))

\* No other flow computes them, and none changes the input.
LEMMA ViewsInvHolds == FlowSpec => []ViewsInv
<1>1. FlowInit => ViewsInv
  BY DEF FlowInit, ViewsInv
<1>2. ViewsInv /\ [FlowNext]_<<input, output>> => ViewsInv'
  <2> SUFFICES ASSUME ViewsInv, [FlowNext]_<<input, output>>, input'.kind = "views"
               PROVE  ViewsInv'
    BY DEF ViewsInv
  <2>1. CASE ServeViews
    BY <2>1 DEF ServeViews, Ready, ViewsInv
  <2>2. CASE UNCHANGED <<input, output>>
    BY <2>2 DEF ViewsInv
  <2> QED BY <2>1, <2>2 DEF FlowNext, CutLog, BuildScenes, IngestAndBuild, PredictAndEvaluate, RunPipeline,
                            MineAndScore, Ready
<1> QED BY <1>1, <1>2, PTL DEF FlowSpec

\* Whatever jobs have been executed, what the quality views say of a dataset
\* version is what is known of its manifests.
THEOREM QualityIsUpToDate == FlowSpec => []QualityIsCurrent
<1>1. ViewsInv => QualityIsCurrent
  <2> SUFFICES ASSUME ViewsInv, Done("views") PROVE QualityIsCurrent
    BY DEF QualityIsCurrent
  <2> DEFINE events == input.events
             db == Views!After(events)
             rows == db.rows
             n == Len(rows)
             all == Views!AllQuality(db)
             sum == Views!Aggregate(all)
             last == events[Len(events)]
             ids == Views!IdsOf(rows)
             pages == [k \in 1..2 |-> [i \in 1..2 |-> Views!QualityPage(db, k, (i - 1) * k).scenes]]
             single == [s \in ids |-> Views!SceneQuality(db, s)]
             verdict(s) == LastVerdict(events, s)
             complete == n <= Views!SceneLimit
             checked == {s.id : s \in Elements(last.scenes) \ {None}}
  <2>1. Views!ValidEvents(events) /\ output = ViewsOf(db)
    BY DEF ViewsInv, Done
  <2>2. /\ output.db = db /\ output.all = all /\ output.single = single /\ output.pages = pages
        /\ output.version.summary = sum /\ output.version.readiness = Views!VersionReadiness(sum)
    BY <2>1 DEF ViewsOf, Views!VersionQuality
  <2>3. /\ DbInv(db)
        /\ Gated(events) => \A s : s # None => Known(db, s, verdict(s))
        /\ events # <<>> /\ last.op = "validate" /\ last.scenes # <<>> =>
             /\ db.cache.block <=> Blocked(last)
             /\ \A s : \E w : verdict(s) = VerdictAfter(s, w, last)
        /\ events # <<>> => ValidEvent(last)
    BY <2>1, AfterFacts
  <2> HIDE DEF events, db, all, last
  <2>4. /\ \A i \in DOMAIN rows :
             /\ Views!RowOf(db, rows[i].id) = rows[i]
             /\ Views!SceneQuality(db, rows[i].id) = QualityOf(db, rows[i])
        /\ all \in Seq(Elements(all)) /\ Len(all) \in Nat /\ DOMAIN all = 1..Len(all)
        /\ n \in Nat /\ DOMAIN rows = 1..n /\ (n <= Views!SceneLimit => Len(all) = n)
        /\ \A k \in DOMAIN all : n + 1 - k \in DOMAIN rows /\ all[k] = QualityOf(db, rows[n + 1 - k])
    BY <2>3, SameQuality DEF all
  <2>5. ASSUME NEW i \in DOMAIN rows
        PROVE  LET q == QualityOf(db, rows[i])
               IN /\ q.id = rows[i].id /\ rows[i].id # None /\ IsRow(rows[i])
                  /\ q.readiness \in {"ready", "warning", "blocked", "unknown"} /\ q.selectable \in BOOLEAN
                  /\ q.selectable => Minable(rows[i]) /\ Mining!ValidationStatus(rows[i]) = "ready"
    <3> DEFINE row == rows[i]
               v == LatestOf(db, "validation", row.id)
               p == LatestOf(db, "profile", row.id)
               q == QualityOf(db, row)
    <3>1. IsRow(row) /\ row.id # None
      BY <2>3 DEF DbInv, IsRow
    <3>2. q = Views!Quality(row, v, p)
      BY DEF QualityOf
    <3> HIDE DEF row, v, p, q
    <3>3. /\ q.id = row.id
          /\ q.readiness \in {"ready", "warning", "blocked", "unknown"} /\ q.selectable \in BOOLEAN
          /\ q.selectable => Minable(row) /\ Mining!ValidationStatus(row) = "ready"
      BY <3>1, <3>2, GradeFacts
    <3> QED BY <3>1, <3>3 DEF row, q
  <2>6. \A q \in Elements(all) : \E i \in DOMAIN rows :
          /\ q = QualityOf(db, rows[i]) /\ q.id = rows[i].id /\ q.id \in ids
          /\ Views!RowOf(db, q.id) = rows[i]
    <3> SUFFICES ASSUME NEW k \in DOMAIN all
                 PROVE  \E i \in DOMAIN rows :
                          /\ all[k] = QualityOf(db, rows[i]) /\ all[k].id = rows[i].id /\ all[k].id \in ids
                          /\ Views!RowOf(db, all[k].id) = rows[i]
      BY DEF Elements
    <3> DEFINE i == n + 1 - k
    <3>1. i \in DOMAIN rows /\ all[k] = QualityOf(db, rows[i])
      BY <2>4
    <3> HIDE DEF i, rows
    <3>2. rows[i].id \in ids
      BY <3>1 DEF Views!IdsOf, Views!Elements
    <3> QED BY <2>4, <2>5, <3>1, <3>2
  <2> HIDE DEF rows
  <2>7. \A q \in Elements(all) : q = single[q.id]
    BY <2>4, <2>6
  <2>8. complete => {q.id : q \in Elements(all)} = ids
    <3> SUFFICES ASSUME complete, NEW s \in ids PROVE \E q \in Elements(all) : q.id = s
      BY <2>6
    <3>1. PICK i \in DOMAIN rows : rows[i].id = s
      BY DEF Views!IdsOf, Views!Elements
    <3> DEFINE k == n + 1 - i
    <3>2. k \in DOMAIN all /\ n + 1 - k = i
      BY <2>4
    <3> HIDE DEF k
    <3>3. all[k] \in Elements(all) /\ all[k].id = s
      BY <2>4, <2>5, <3>1, <3>2 DEF Elements
    <3> QED BY <3>3
  <2>9. /\ sum.ready + sum.warning + sum.blocked + sum.unknown = sum.scenes
        /\ Views!VersionReadiness(sum) = "ready" <=>
             all # <<>> /\ \A q \in Elements(all) : q.readiness = "ready" /\ q.selectable
    <3>1. \A k \in DOMAIN all : /\ all[k].readiness \in {"ready", "warning", "blocked", "unknown"}
                                /\ all[k].selectable \in BOOLEAN
      BY <2>4, <2>5
    <3>2. all \in Seq(Elements(all))
      BY <2>4
    <3> QED BY ONLY <3>1, <3>2, AggregateFacts
  <2>10. \A k \in 1..2 : pages[k][1] \o pages[k][2] = Prefix(all, 2 * k)
    <3> SUFFICES ASSUME NEW k \in {1, 2} PROVE pages[k][1] \o pages[k][2] = Prefix(all, 2 * k)
      BY 1..2 = {1, 2}
    <3> DEFINE Page(offset) == SubSeq(all, offset + 1, IF offset + k < Len(all) THEN offset + k ELSE Len(all))
    <3>1. \A offset : Views!QualityPage(db, k, offset).scenes = Page(offset)
      BY DEF Views!QualityPage, all
    <3>2. /\ pages[k][1] = Views!QualityPage(db, k, 0).scenes
          /\ pages[k][2] = Views!QualityPage(db, k, k).scenes
      BY (1 - 1) * k = 0, (2 - 1) * k = k
    <3>3. /\ Page(0) = SubSeq(all, 1, IF k < Len(all) THEN k ELSE Len(all))
          /\ Page(k) = SubSeq(all, k + 1, IF k + k < Len(all) THEN k + k ELSE Len(all))
      BY 0 + 1 = 1, 0 + k = k
    <3>4. all \in Seq(Elements(all))
      BY <2>4
    <3> HIDE DEF pages, Page
    <3> QED BY <3>1, <3>2, <3>3, <3>4, PagesFacts
  <2>11. \A q \in Elements(all) : q.selectable =>
           Minable(Views!RowOf(db, q.id)) /\ Mining!ValidationStatus(Views!RowOf(db, q.id)) = "ready"
    BY <2>5, <2>6
  <2>12. ASSUME Gated(events), NEW q \in Elements(all)
         PROVE  /\ q.readiness = (IF verdict(q.id) \in Passed THEN verdict(q.id) ELSE "unknown")
                /\ q.selectable <=> verdict(q.id) \in Passed /\ Views!RowOf(db, q.id).annotations > 0
                /\ q.selectable <=> Minable(Views!RowOf(db, q.id))
    <3>1. PICK i \in DOMAIN rows : /\ q = QualityOf(db, rows[i]) /\ q.id = rows[i].id
                                  /\ Views!RowOf(db, q.id) = rows[i]
      BY <2>6
    <3>2. Known(db, rows[i].id, verdict(rows[i].id))
      BY <2>3, <2>5, <2>12
    <3> HIDE DEF verdict
    <3>3. /\ q.readiness = (IF verdict(rows[i].id) \in Passed THEN verdict(rows[i].id) ELSE "unknown")
          /\ q.selectable <=> verdict(rows[i].id) \in Passed /\ rows[i].annotations > 0
          /\ q.selectable <=> Minable(rows[i])
      BY <2>3, <3>1, <3>2, KnownFacts DEF rows
    <3> QED BY <3>1, <3>3
  <2>13. ASSUME Gated(events), complete, events # <<>>, last.op = "validate", last.scenes # <<>>, ids = checked
         PROVE  db.cache.block <=> None \in Elements(last.scenes) \/ \E q \in Elements(all) : q.readiness = "unknown"
    <3> HIDE DEF ids, verdict
    <3>1. ASSUME NEW x \in Elements(last.scenes), x # None
          PROVE  verdict(x.id) \in Passed <=> ~(x.errors > 0)
      <4>1. PICK w : verdict(x.id) = VerdictAfter(x.id, w, last)
        BY <2>3, <2>13
      <4> QED BY <2>3, <2>13, <3>1, <4>1, CheckedFacts
    <3>2. ASSUME NEW q \in Elements(all)
          PROVE  /\ q.readiness = "unknown" <=> verdict(q.id) \notin Passed
                 /\ q.id \in checked
      BY <2>6, <2>12, <2>13 DEF Passed
    <3>3. ASSUME NEW x \in Elements(last.scenes), x # None PROVE \E q \in Elements(all) : q.id = x.id
      BY <2>8, <2>13, <3>3
    <3>4. ASSUME NEW x \in Elements(last.scenes), x # None, x.errors > 0
          PROVE  \E q \in Elements(all) : q.readiness = "unknown"
      BY <3>1, <3>2, <3>3, <3>4
    <3>5. ASSUME NEW q \in Elements(all), q.readiness = "unknown"
          PROVE  \E x \in Elements(last.scenes) : x # None /\ x.errors > 0
      <4>1. PICK x \in Elements(last.scenes) : x # None /\ x.id = q.id
        BY <3>2
      <4> QED BY <3>1, <3>2, <3>5, <4>1
    <3>6. db.cache.block <=> Blocked(last)
      BY <2>3, <2>13
    <3> QED BY <3>4, <3>5, <3>6, Zenon DEF Blocked
  <2> DEFINE known == [s \in ids |-> LastVerdict(events, s)]
  <2>14. \A q \in Elements(all) : known[q.id] = verdict(q.id)
    BY <2>6
  <2> DEFINE aims == [profile |-> "detection_ready", groundTruth |-> None, minAnnotations |-> None,
                      maxAnnotations |-> None, required |-> {}, selectable |-> None]
  <2>15. \A row : Minable(row) <=> Mining!PassesMining(row, aims)
    BY DEF Minable
  <2>16. Gated(events) =>
           /\ \A q \in Elements(all) :
                /\ q.readiness = (IF known[q.id] \in {"ready", "warning"} THEN known[q.id] ELSE "unknown")
                /\ q.selectable <=>
                     known[q.id] \in {"ready", "warning"} /\ Views!RowOf(db, q.id).annotations > 0
                /\ q.selectable <=> Mining!PassesMining(Views!RowOf(db, q.id), aims)
           /\ complete /\ events # <<>> /\ last.op = "validate" /\ last.scenes # <<>> /\ ids = checked
              => (db.cache.block <=>
                    None \in Elements(last.scenes) \/ \E q \in Elements(all) : q.readiness = "unknown")
    <3> HIDE DEF known, verdict, ids, aims, complete, checked
    <3>1. ASSUME Gated(events), NEW q \in Elements(all)
          PROVE  /\ q.readiness = (IF known[q.id] \in {"ready", "warning"} THEN known[q.id] ELSE "unknown")
                 /\ q.selectable <=>
                      known[q.id] \in {"ready", "warning"} /\ Views!RowOf(db, q.id).annotations > 0
                 /\ q.selectable <=> Mining!PassesMining(Views!RowOf(db, q.id), aims)
      BY <2>12, <2>14, <2>15, <3>1 DEF Passed
    <3> QED BY <2>13, <3>1
  <2>17. \A q \in Elements(all) : q.selectable =>
           /\ Mining!PassesMining(Views!RowOf(db, q.id), aims)
           /\ Mining!ValidationStatus(Views!RowOf(db, q.id)) = "ready"
    BY <2>11, <2>15
  <2> DEFINE Db == output.db
             All == output.all
             Sum == output.version.summary
             Readiness == output.version.readiness
             Single == output.single
             Pages == output.pages
             LastJob == input.events[Len(input.events)]
             Verdicts == [r \in Views!IdsOf(Db.rows) |-> LastVerdict(input.events, r)]
             Row(q) == Views!RowOf(Db, q.id)
             Complete == Len(Db.rows) <= Views!SceneLimit
             Checked == {s.id : s \in Elements(LastJob.scenes) \ {None}}
  <2>18. /\ Db = db /\ All = all /\ Sum = sum /\ Readiness = Views!VersionReadiness(sum)
         /\ Single = single /\ Pages = pages
    BY <2>2
  <2>19. events = input.events /\ last = LastJob /\ checked = Checked
    BY DEF events, last
  <2> HIDE DEF Db, All, Sum, Readiness, Single, Pages, LastJob, sum, single, pages
  <2>20. Complete <=> complete
    BY <2>18 DEF rows
  <2>21. Views!IdsOf(Db.rows) = ids
    BY <2>18 DEF rows
  <2>22. Verdicts = known
    BY <2>19, <2>21
  <2> HIDE DEF Complete, complete, Checked, checked, Verdicts, known, ids, verdict, aims
  <2>23. \A q \in Elements(All) : q = Single[q.id]
    BY <2>7, <2>18
  <2>24. Complete => {q.id : q \in Elements(All)} = Views!IdsOf(Db.rows)
    BY <2>8, <2>18, <2>20, <2>21
  <2>25. /\ Sum.ready + Sum.warning + Sum.blocked + Sum.unknown = Sum.scenes
         /\ Readiness = "ready" <=> All # <<>> /\ \A q \in Elements(All) : q.readiness = "ready" /\ q.selectable
    BY <2>9, <2>18
  <2>26. \A k \in 1..2 : Pages[k][1] \o Pages[k][2] = Prefix(All, 2 * k)
    BY <2>10, <2>18
  <2>27. \A q \in Elements(All) : q.selectable =>
           Mining!PassesMining(Row(q), aims) /\ Mining!ValidationStatus(Row(q)) = "ready"
    BY <2>17, <2>18
  <2>28. Gated(input.events) =>
           /\ \A q \in Elements(All) :
                /\ q.readiness = (IF Verdicts[q.id] \in {"ready", "warning"} THEN Verdicts[q.id] ELSE "unknown")
                /\ q.selectable <=> Verdicts[q.id] \in {"ready", "warning"} /\ Row(q).annotations > 0
                /\ q.selectable <=> Mining!PassesMining(Row(q), aims)
           /\ /\ Complete /\ input.events # <<>> /\ LastJob.op = "validate" /\ LastJob.scenes # <<>>
              /\ Views!IdsOf(Db.rows) = Checked
              => (Db.cache.block <=>
                    None \in Elements(LastJob.scenes) \/ \E q \in Elements(All) : q.readiness = "unknown")
    BY <2>16, <2>18, <2>19, <2>20, <2>21, <2>22
  <2> USE DEF Db, All, Sum, Readiness, Single, Pages, LastJob, Verdicts, Complete, Checked, aims
  <2> QED BY ONLY <2>23, <2>24, <2>25, <2>26, <2>27, <2>28 DEF QualityIsCurrent
<1> QED BY <1>1, ViewsInvHolds, PTL
=============================================================================
