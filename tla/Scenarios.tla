----------------------------- MODULE Scenarios -----------------------------
(***************************************************************************)
(* Mining of candidate scenes from the catalogue and the scoring of their  *)
(* readiness (sceneops_worker/jobs/scenarios).                             *)
(*                                                                         *)
(*   scene   [id, status, annotations, samples, frames, groundTruth,       *)
(*           channels]                    a row of the scenes' table       *)
(*   params  [profile, groundTruth, minAnnotations, maxAnnotations,        *)
(*           required, selectable, sortBy, order, maxCandidates]           *)
(*                                                                         *)
(* Scores are in ten-thousandths, which is what the code rounds to.        *)
(***************************************************************************)
EXTENDS Lists, Integers, Sequences, FiniteSets

CONSTANT None

\* The first of two optional values that is given.
OrElse(a, b) == IF a # None THEN a ELSE b

\* What the table and the schema of the parameters allow: rows have ids of their
\* own, counts are not negative; the number asked for is any integer.
ValidMining(scenes, params) ==
  /\ scenes \in Seq(Elements(scenes))
  /\ \A i, j \in DOMAIN scenes : scenes[i].id = scenes[j].id => i = j
  /\ \A s \in Elements(scenes) :
       /\ s.id \in Int /\ s.groundTruth \in BOOLEAN
       /\ {s.annotations, s.samples, s.frames} \subseteq Nat
  /\ params.maxCandidates \in Int
-----------------------------------------------------------------------------
(* mine_scenarios *)

ProfileOf(profile) ==
  [groundTruth    |-> CASE profile \in {"detection_ready", "dense_gt"} -> TRUE
                        [] profile = "no_gt_candidates" -> FALSE
                        [] OTHER -> None,
   minAnnotations |-> IF profile = "detection_ready" THEN 1 ELSE None,
   validated      |-> profile = "detection_ready"]

SelectableForDetection(scene) == scene.groundTruth /\ scene.annotations > 0

\* Variant: what has not failed is ready.
ValidationUnlessFailed(scene) == IF scene.status = "failed" THEN "blocked" ELSE "ready"

ValidationStatus(scene) ==
  CASE scene.status \in {"validated", "profiled"} -> "ready"
    [] scene.status = "failed" -> "blocked"
    [] OTHER -> "unknown"

\* The parameters of the job win over the defaults of its profile.
PassesMining(scene, params) ==
  LET profile == ProfileOf(params.profile)
      truth   == OrElse(params.groundTruth, profile.groundTruth)
      least   == OrElse(params.minAnnotations, profile.minAnnotations)
  IN /\ truth # None => scene.groundTruth = truth
     /\ least # None => scene.annotations >= least
     /\ params.maxAnnotations # None => scene.annotations <= params.maxAnnotations
     /\ profile.validated => scene.status \in {"validated", "profiled"}
     /\ params.required \subseteq scene.channels
     /\ params.selectable # None => SelectableForDetection(scene) = params.selectable

SortKey(scene, by) ==
  CASE by = "sample_count" -> scene.samples
    [] by = "frame_count"  -> scene.frames
    [] by = "scene_id"     -> scene.id
    [] OTHER               -> scene.annotations

\* The candidates file: what passes, sorted, cut to the number asked for; what
\* the cut leaves out counts neither as selected nor as rejected.
Mine(scenes, params) ==
  LET passing == Filter(scenes, LAMBDA s : PassesMining(s, params))
      sign    == IF OrElse(params.order, "desc") = "desc" THEN -1 ELSE 1
      sorted  == StableSort(passing, LAMBDA s : sign * SortKey(s, params.sortBy))
      chosen  == Prefix(sorted, params.maxCandidates)
  IN [candidates |-> Mapped(chosen, LAMBDA s :
        [id |-> s.id, annotations |-> s.annotations, samples |-> s.samples, frames |-> s.frames,
         groundTruth |-> s.groundTruth, channels |-> s.channels, validation |-> ValidationStatus(s)]),
      required |-> params.required,
      input |-> Len(scenes), selected |-> Len(chosen), rejected |-> Len(scenes) - Len(passing)]

\* The row of the mining run, of the scenario set, and the job's result.
MiningResult(mined) ==
  [candidates |-> Len(mined.candidates), selected |-> mined.selected, rejected |-> mined.rejected,
   ids |-> Mapped(mined.candidates, LAMBDA c : c.id)]
-----------------------------------------------------------------------------
(* score_scenario_readiness *)

\* round(1500 * part / whole).
DensityScore(part, whole) == IF whole = 0 THEN 0 ELSE (2 * 1500 * part + whole) \div (2 * whole)

Score(c, required, most) ==
  (IF c.groundTruth /\ c.annotations > 0 THEN 3000 ELSE 0)
  + (CASE c.validation = "ready" -> 2500 [] c.validation = "warning" -> 1500 [] OTHER -> 0)
  + (IF required \subseteq c.channels THEN 2000
     ELSE IF required \intersect c.channels # {} THEN 1000 ELSE 0)
  + DensityScore(c.annotations, most)
  + (IF c.samples > 0 /\ c.frames > 0 THEN 1000 ELSE 0)

Bucket(score) == IF score >= 7500 THEN "ready" ELSE IF score >= 4000 THEN "warning" ELSE "blocked"

Scored(c, required, most) ==
  LET score == Score(c, required, most) IN [id |-> c.id, score |-> score, bucket |-> Bucket(score)]

\* max(annotation counts, default=0).
MostAnnotations(candidates) ==
  IF candidates = <<>> THEN 0
  ELSE CHOOSE a \in {c.annotations : c \in Elements(candidates)} :
         \A c \in Elements(candidates) : c.annotations <= a

\* The ids of the best scores of those that are ready.
TopOf(ready) == Prefix(Mapped(StableSort(ready, LAMBDA s : -s.score), LAMBDA s : s.id), 5)

\* required: the parameter of the scoring job, else the filter of the mining.
Readiness(mined, required) ==
  LET asked  == IF required # {} THEN required ELSE mined.required
      most   == MostAnnotations(mined.candidates)
      scored == Mapped(mined.candidates, LAMBDA c : Scored(c, asked, most))
      InBucket(b) == Filter(scored, LAMBDA s : s.bucket = b)
  IN [scenes |-> scored, ready |-> Len(InBucket("ready")), warning |-> Len(InBucket("warning")),
      blocked |-> Len(InBucket("blocked")), total |-> SumOf(scored, LAMBDA s : s.score),
      top |-> TopOf(InBucket("ready"))]
=============================================================================
