------------------------ MODULE DetectionEvaluation ------------------------
(***************************************************************************)
(* The center-distance evaluator: predictions of an inference run, in      *)
(* shards of one sample each, against the annotations of the scenes of a   *)
(* dataset (sceneops_worker/evaluation/detection).                         *)
(*                                                                         *)
(*   annotation  [id, category, at]                                        *)
(*   prediction  [id, category, at, failed]   failed: the lift to 3D did   *)
(*   sample      [id, annotations]                                         *)
(*   scene       [id, samples, annotations, groundTruth]  as its manifest  *)
(*               declares; None when the manifest file is missing          *)
(*   shard       [scene, sample, payload, count, predictions]  payload: the *)
(*               sample id inside the file; count: as the manifest says    *)
(*                                                                         *)
(* Positions are integers on a line; a ratio is a pair.                    *)
(***************************************************************************)
EXTENDS Lists, Integers, Sequences, FiniteSets, SequencesExt

CONSTANTS
  None,
  SupportedCategories      \* the categories of annotations that are evaluated

Between(a, b) == IF a < b THEN b - a ELSE a - b

\* safe_div as a pair: 0/1 for no denominator.
Ratio(n, d) == IF d = 0 THEN <<0, 1>> ELSE <<n, d>>
-----------------------------------------------------------------------------
(* One sample *)

SupportedTruth(sample) == Filter(sample.annotations, LAMBDA a : a.category \in SupportedCategories)
Evaluable(predictions) == Filter(predictions, LAMBDA p : ~p.failed)

\* Variant: an annotation may be matched twice.
CandidatesOfCategory(truth, prediction, taken) ==
  {g \in DOMAIN truth : truth[g].category = prediction.category}

\* The indexes of the annotations a prediction may still be matched to.
Candidates(truth, prediction, taken) ==
  {g \in DOMAIN truth \ taken : truth[g].category = prediction.category}

\* Greedy, in the order of the predictions: each takes the nearest annotation
\* of its category that is free, the first of equals, unless it is too far.
\* The result is a set of records [p, g] of indexes.
Matches(truth, predictions, limit) ==
  LET Gap(p, g) == Between(truth[g].at, predictions[p].at)
      Match(found, p) ==
        LET free == Candidates(truth, predictions[p], {m.g : m \in found})
            best == CHOOSE g \in free : \A h \in free :
                      Gap(p, g) < Gap(p, h) \/ (Gap(p, g) = Gap(p, h) /\ g <= h)
        IN IF free = {} \/ Gap(p, best) > limit THEN found
           ELSE found \union {[p |-> p, g |-> best]}
  IN FoldLeft(Match, {}, [p \in DOMAIN predictions |-> p])

\* tp, fp and fn of every category that occurs.
ClassMetrics(truth, predictions, matches) ==
  [c \in {a.category : a \in Elements(truth)} \union {p.category : p \in Elements(predictions)} |->
    [tp |-> Cardinality({m \in matches : predictions[m.p].category = c}),
     fp |-> Cardinality({p \in DOMAIN predictions \ {m.p : m \in matches} : predictions[p].category = c}),
     fn |-> Cardinality({g \in DOMAIN truth \ {m.g : m \in matches} : truth[g].category = c})]]

EvaluateSample(sample, predictions, limit) ==
  LET truth     == SupportedTruth(sample)
      evaluable == Evaluable(predictions)
      matches   == Matches(truth, evaluable, limit)
      matched   == SetToSeq(matches)
  IN [tp |-> Cardinality(matches),
      fp |-> Len(evaluable) - Cardinality({m.p : m \in matches}),
      fn |-> Len(truth) - Cardinality({m.g : m \in matches}),
      error |-> SumOf(matched, LAMBDA m : Between(truth[m.g].at, evaluable[m.p].at)),
      classes |-> ClassMetrics(truth, evaluable, matches),
      predictions |-> Len(predictions),
      failed |-> Len(predictions) - Len(evaluable)]
-----------------------------------------------------------------------------
(* The index of the dataset's scenes *)

HasTruth(scene) == scene.groundTruth \/ scene.annotations > 0

SceneIndex(scenes) ==
  LET loaded == Filter(scenes, LAMBDA s : s # None)
      placed == Flattened(loaded, LAMBDA s : Mapped(s.samples, LAMBDA x : [sample |-> x, scene |-> s]))
      bySample == LastBy(placed, LAMBDA x : x.sample.id)
  IN [scenes |-> LastBy(loaded, LAMBDA s : s.id),
      samples |-> [i \in DOMAIN bySample |-> bySample[i].sample],
      sceneOf |-> [i \in DOMAIN bySample |-> bySample[i].scene],
      annotations |-> SumOf(loaded, LAMBDA s : s.annotations)]

Lookup(f, key) == IF key # None /\ key \in DOMAIN f THEN f[key] ELSE None
-----------------------------------------------------------------------------
(* EvaluationAccumulator *)

NoTotals == [tp |-> 0, fp |-> 0, fn |-> 0, error |-> 0, matched |-> 0,
             predictions |-> 0, failed |-> 0, classes |-> <<>>]

MergeClasses(total, classes) ==
  [c \in DOMAIN total \union DOMAIN classes |->
     LET t == IF c \in DOMAIN total THEN total[c] ELSE [tp |-> 0, fp |-> 0, fn |-> 0]
         s == IF c \in DOMAIN classes THEN classes[c] ELSE [tp |-> 0, fp |-> 0, fn |-> 0]
     IN [k \in {"tp", "fp", "fn"} |-> t[k] + s[k]]]

AddSample(total, e) ==
  [tp |-> total.tp + e.tp, fp |-> total.fp + e.fp, fn |-> total.fn + e.fn,
   error |-> total.error + e.error, matched |-> total.matched + e.tp,
   predictions |-> total.predictions + e.predictions, failed |-> total.failed + e.failed,
   classes |-> MergeClasses(total.classes, e.classes)]

Metrics(total) ==
  [precision |-> Ratio(total.tp, total.tp + total.fp),
   recall    |-> Ratio(total.tp, total.tp + total.fn),
   error     |-> Ratio(total.error, total.matched),
   evaluable |-> total.tp + total.fp,
   truth     |-> total.tp + total.fn,
   classes   |-> [c \in DOMAIN total.classes |->
                    LET t == total.classes[c]
                    IN t @@ [precision |-> Ratio(t.tp, t.tp + t.fp), recall |-> Ratio(t.tp, t.tp + t.fn)]]]
-----------------------------------------------------------------------------
(* evaluate_center_distance_detection *)

\* The scene a shard is judged by: the payload's when shard and payload differ.
SceneOfShard(shard, index) ==
  LET named  == Lookup(index.scenes, shard.scene)
      actual == Lookup(index.sceneOf, shard.payload)
  IN IF actual # None /\ (named = None \/ named.id # actual.id) THEN actual ELSE named

\* What becomes of one shard: evaluated, skipped, or the end of the run.
\* A shard that names a scene without truth is not even read.
ShardFate(shard, index, policy) ==
  LET named == Lookup(index.scenes, shard.scene)
      scene == SceneOfShard(shard, index)
      withoutTruth == IF policy = "fail" THEN "raises" ELSE "skipped"
  IN IF named # None /\ ~HasTruth(named) THEN withoutTruth
     ELSE IF scene = None THEN "skipped"
     ELSE IF ~HasTruth(scene) THEN withoutTruth
     ELSE IF shard.payload \notin DOMAIN index.samples THEN "raises" ELSE "evaluated"

\* Before the first shard; without any annotation in the dataset all shards are
\* skipped unread.
NoShards == [total |-> NoTotals, evaluated |-> <<>>, skipped |-> 0, skippedPredictions |-> 0, raised |-> FALSE]
AllSkipped(shards) ==
  [NoShards EXCEPT !.skipped = Len(shards), !.skippedPredictions = SumOf(shards, LAMBDA s : s.count)]

\* An evaluation of nothing is skipped, or fails, as the policy says.
Status(all, policy) ==
  IF all.raised \/ (all.evaluated = <<>> /\ policy = "fail") THEN "raised"
  ELSE IF all.evaluated = <<>> THEN "skipped" ELSE "succeeded"

Evaluated(all, policy) ==
  [status |-> Status(all, policy), evaluated |-> all.evaluated, skipped |-> all.skipped,
   skippedPredictions |-> all.skippedPredictions, total |-> all.total, metrics |-> Metrics(all.total)]

\* The manifest of an evaluation run, or status "raised".
Evaluate(shards, scenes, policy, limit) ==
  LET index == SceneIndex(scenes)
      Shard(acc, shard) ==
        LET fate == ShardFate(shard, index, policy)
            one  == EvaluateSample(index.samples[shard.payload], shard.predictions, limit)
        IN IF acc.raised THEN acc
           ELSE CASE fate = "raises"    -> [acc EXCEPT !.raised = TRUE]
                  [] fate = "skipped"   -> [acc EXCEPT !.skipped = @ + 1,
                                              !.skippedPredictions = @ + shard.count]
                  [] fate = "evaluated" -> [acc EXCEPT !.total = AddSample(@, one),
                                              !.evaluated = Append(@, shard.payload)]
      all == IF index.annotations = 0 THEN AllSkipped(shards) ELSE FoldLeft(Shard, NoShards, shards)
  IN Evaluated(all, policy)
-----------------------------------------------------------------------------
(* The direction in which a metric is better (sceneops_core's metric specs), *)
(* higher when a task has no such metric.                                    *)

LowerIsBetter ==
  [detection |-> {"mean_center_distance_error"},
   scene_comparison |-> {"geometry_error", "trajectory_error"},
   scenario_readiness |-> {"blocked_count"},
   auto_label_quality |-> {}]

DescendingSort(task, key) == task \notin DOMAIN LowerIsBetter \/ key \notin LowerIsBetter[task]
=============================================================================
