------------------------------ MODULE DataFlow ------------------------------
(***************************************************************************)
(* What the handlers compute, as one flow: the frames of a log become      *)
(* segments, scenes, verdicts and profiles; a source becomes the same      *)
(* scenes on two routes; scenes become predictions and scores; results of  *)
(* tasks become parameters of jobs; mined scenes become readiness.         *)
(*                                                                         *)
(* The modules of the parts are functions of their inputs.  A behaviour    *)
(* takes one input through the handlers that work on it one after the      *)
(* other: an action per flow, and each property relates input and output.  *)
(***************************************************************************)
EXTENDS Lists, Integers, Sequences, FiniteSets, SequencesExt, TLC

CONSTANTS
  None, Empty, NotYet, SafeKey(_),
  TargetChannelsOfIngest, CameraChannels, SupportedCategories, CameraChannel, LidarChannel

VARIABLES
  input,    \* what the flow starts from; its kind says which flow
  output    \* what the handlers made of it, or NotYet

\* No count, name of a status or flag is taken for None.
ASSUME NoneIsNoValue == None \notin Int \union BOOLEAN \union {"ready", "warning", "failed"}

Ready(kind) == output = NotYet /\ input.kind = kind
Done(kind) == output # NotYet /\ input.kind = kind

Log == 0   \* the id of the raw log; as ids that the code sorts, an integer
SumOfValues(f) == FoldFunction(+, 0, f)

Scene == INSTANCE Ingestion
Infer == INSTANCE DetectionInference
Judge == INSTANCE EvaluationViews
Flow  == INSTANCE PipelineData
Mining == INSTANCE Scenarios
Views  == INSTANCE SceneViews
-----------------------------------------------------------------------------
(* Segments: input [kind, frames, cfg]; the id of a frame is its place.    *)

CutLog ==
  /\ Ready("segments") /\ Scene!ValidSegmentation(input.cfg)
  /\ output' = Scene!Segments(input.frames, input.cfg, Log)
  /\ UNCHANGED input

\* No log leaves a frame in two segments (but where windows are meant to
\* overlap) or in none (but where windows leave gaps, or filters drop), frames
\* of two sequences never share a segment, segments keep the limits whatever
\* the strategy cut before, and no two segments have one id: the scene
\* manifests are files named by it.
SegmentsCover ==
  Done("segments") =>
    LET cfg == input.cfg
        Holding(f) == {i \in DOMAIN output : f.id \in Elements(output[i].frames)}
        windows == cfg.strategy = "fixed_window" /\ cfg.stride # None
        overlap == windows /\ cfg.stride < cfg.window
        leaves  == (windows /\ cfg.stride > cfg.window) \/ cfg.minCount > 1 \/ cfg.minDuration # None
        InOrder(f, g) ==
          /\ Scene!GroupKey(f, cfg, Log) = Scene!GroupKey(g, cfg, Log)
          /\ f.ts <= g.ts
          /\ cfg.strategy = "gap_based" => g.ts - f.ts <= Scene!Us(cfg.maxGap)
    IN /\ \A i, j \in DOMAIN output : i # j => output[i].id # output[j].id
       /\ \A f \in Elements(input.frames) :
            IF Scene!DropsFrame(f, cfg) THEN Holding(f) = {}
            ELSE (overlap \/ Cardinality(Holding(f)) <= 1) /\ (leaves \/ Holding(f) # {})
       /\ \A s \in Elements(output) :
            /\ \A k \in 2..Len(s.frames) : InOrder(input.frames[s.frames[k - 1]], input.frames[s.frames[k]])
            /\ Len(s.frames) >= cfg.minCount
            /\ cfg.maxCount # None => Len(s.frames) <= cfg.maxCount
            /\ cfg.maxDuration # None => s.end - s.start <= Scene!Us(cfg.maxDuration)
            /\ cfg.strategy = "fixed_window" => s.end - s.start < Scene!Us(cfg.window)
-----------------------------------------------------------------------------
(* Scenes: input [kind, ctx, segmentation, sampling, maxScenes]            *)

BuildScenes ==
  /\ Ready("build")
  /\ output' = Scene!Build(input.ctx, input.segmentation, input.sampling, Log, input.maxScenes)
  /\ UNCHANGED input

SamplesOf(built) == Flattened(built.scenes, LAMBDA s : s.samples)

\* Windows share frames when one opens before the last one has closed.
Overlapping(cfg) == cfg.strategy = "fixed_window" /\ cfg.stride # None /\ cfg.stride < cfg.window

\* A sample holds, of each channel it is about, one frame near its moment and
\* on the side the configuration asks for, or says that the channel is missing;
\* the frame that anchors it, or one of its channel and moment, is in it; and
\* unless reuse is allowed no frame is in two samples, although samples are
\* filled one after the other from one pool: neither in two of a scene, nor in
\* two of the log, but where windows overlap.
SamplesFaithful ==
  Done("build") =>
    LET cfg == input.sampling
        Faithful(s) ==
          LET channels == {f.ch : f \in Elements(s.frames)}
          IN /\ Cardinality(channels) = Len(s.frames)
             /\ Elements(s.missing) \intersect channels = {}
             /\ cfg.required # {} => Elements(s.missing) \union channels = cfg.required
             /\ \A f \in Elements(s.frames) :
                  /\ Scene!Distance(f.ts, s.ts) <= Scene!Us(cfg.tolerance)
                  /\ cfg.association = "previous" => f.ts <= s.ts
                  /\ cfg.association = "next" => f.ts >= s.ts
             /\ s.anchor.ch = cfg.anchorChannel /\ (cfg.required = {} \/ s.anchor.ch \in cfg.required) =>
                  \E f \in Elements(s.frames) : f.ch = s.anchor.ch /\ f.ts = s.ts
        Apart(s, t) ==
          {f.id : f \in Elements(s.frames)} \intersect {f.id : f \in Elements(t.frames)} = {}
    IN \A k \in DOMAIN output.scenes :
         LET samples == output.scenes[k].samples
         IN /\ \A s \in Elements(samples) : Faithful(s)
            /\ ~cfg.allowReuse =>
                 /\ \A i, j \in DOMAIN samples : i # j => Apart(samples[i], samples[j])
                 /\ ~Overlapping(input.segmentation) =>
                      \A l \in DOMAIN output.scenes \ {k} :
                        \A s \in Elements(samples), t \in Elements(output.scenes[l].samples) : Apart(s, t)

\* The totals of the job's result and the report, added up scene by scene, say
\* what the manifests say: samples before, dropped and kept, frames, frames
\* without calibration or pose, channels missing; also with scenes that have no
\* sample left and with a loop that ends at the greatest number of scenes.
ReportAgrees ==
  Done("build") =>
    LET r       == output.report
        samples == SamplesOf(output)
        frames  == Flattened(samples, LAMBDA s : s.frames)
        missing == SumOfValues(r.missing)
    IN ~output.raised =>
       /\ r.before = r.after + r.dropped
       /\ r.after = Len(samples) /\ output.samples = Len(samples)
       /\ r.associated = Len(frames) /\ output.frames = Len(frames)
       /\ r.framesNoCal = CountIn(frames, LAMBDA f : f.calibration = None)
       /\ r.framesNoPose = CountIn(frames, LAMBDA f : f.pose = None)
       /\ r.samplesNoCal <= r.after /\ r.samplesNoPose <= r.after
       /\ missing >= r.withMissing
       /\ missing >= SumOf(samples, LAMBDA s : Len(s.missing))
       /\ \A ch \in DOMAIN r.missing : r.missing[ch] <= r.withMissing
       /\ input.maxScenes \notin {None, 0} => Len(output.scenes) <= input.maxScenes

Partial(coverage, ch) == coverage[ch][1] < coverage[ch][2]

\* Of manifest m the validator found these issues, the profiler this profile.
AgreedOn(m, issues, profile, frames) ==
  LET Types == {i.type : i \in issues}
      Warned(type, ch) == \E i \in issues : i.type = type /\ i.ch = ch
  IN /\ Types \intersect {"missing_calibrated_sensor_record", "missing_ego_pose_record", "empty_scene"} = {}
     /\ \A ch \in DOMAIN profile.calibration :
          /\ Partial(profile.calibration, ch) <=> Warned("missing_calibrated_sensor_ref", ch)
          /\ Partial(profile.pose, ch) <=> Warned("missing_ego_pose_ref", ch)
     /\ \A ch \in DOMAIN profile.intrinsic :
          /\ Partial(profile.intrinsic, ch) <=> Warned("missing_camera_intrinsic", ch)
          /\ Partial(profile.imageSize, ch) <=> Warned("missing_image_size", ch)
     /\ Scene!Verdict(issues) = "failed" <=> ~(input.sampling.required \subseteq {f.ch : f \in frames})
     /\ input.sampling.dropMissing => Scene!Verdict(issues) = "ready"
     /\ \A s \in Elements(m.samples), c, l \in frames :
          /\ {c, l} \subseteq Elements(s.frames) /\ c.camera
          /\ Scene!FrameIssues(c, m) \union Scene!FrameIssues(l, m) = {}
          => Infer!Liftable([camera |-> c, lidar |-> l, scene |-> m])

\* The validator, the profiler and the lifting, which each resolve a frame's
\* references again, agree on what the builder wrote: no reference is without
\* its record, a channel has less than full coverage exactly when the validator
\* warns of it, a scene fails exactly when a required channel is nowhere in it,
\* and a pair of frames it does not warn of can be lifted.
JudgesAgree ==
  Done("build") =>
    \A m \in Elements(output.scenes) :
      AgreedOn(m, Scene!SceneIssues(m, input.sampling.required, TRUE, FALSE), Scene!Profile(m),
               Elements(Scene!SceneFrames(m.samples)))
-----------------------------------------------------------------------------
(* Sources: input [kind, source, segmentation, sampling, max]              *)

IngestAndBuild ==
  /\ Ready("source")
  /\ output' = [ingested |-> Scene!IngestScenes(input.source, {}, input.max),
                built |-> Scene!BuildScenesResult(input.source, None, input.segmentation, input.sampling,
                                                  Log, input.max, None)]
  /\ UNCHANGED input

\* One calibration for each channel, the same in all scenes.
StaticRig(source) ==
  \A s, t \in Elements(source.scenes) : \A x \in Elements(s.samples), y \in Elements(t.samples) :
    \A ch \in DOMAIN x.data \intersect DOMAIN y.data : x.data[ch].calibration = y.data[ch].calibration

\* With a static rig, one sequence per scene and the ingested channels, the
\* scenes built from the log of a source are the scenes ingested from it: the
\* same samples hold the same frames with the same calibrations, poses and image
\* sizes, though one route reads the references and the other finds them by
\* time and sensor.
RoutesAgree ==
  Done("source") /\ StaticRig(input.source) =>
    LET built == output.built
        Same(s, b) ==
          /\ b.id = s.id /\ b.frameCount = s.frameCount
          /\ [i \in DOMAIN b.samples |-> Elements(b.samples[i].frames)]
               = [i \in DOMAIN s.samples |-> Elements(s.samples[i].frames)]
          /\ Elements(b.calibrations) = Elements(s.calibrations)
          /\ Elements(b.poses) = Elements(s.poses)
          /\ b.channels = s.channels
    IN /\ ~built.raised
       /\ built.sceneCount = Len(output.ingested)
       /\ \A s \in Elements(output.ingested) : \E b \in Elements(built.scenes) : Same(s, b)
-----------------------------------------------------------------------------
(* Detection: input [kind, params, model, version, dataset, world, policy, *)
(* limit]                                                                  *)

\* What the evaluation's record and result say, and the leaderboards of it and
\* of an evaluation of the same predictions with a distance of 0.
Reported(manifest, strict) ==
  LET Order(metric) == IF Judge!DescendingSort("detection", metric) THEN "desc" ELSE "asc"
  IN [row |-> Judge!EvaluationRow(manifest), result |-> Judge!EvaluationResult(manifest),
      boards |-> [metric \in {"precision", "recall", "mean_center_distance_error"} |->
                    Judge!Leaderboard(<<Judge!EvaluationRow(manifest), Judge!EvaluationRow(strict)>>,
                                      metric, Order(metric), 10, 0)]]

Evaluated(run, evaluation, strict) ==
  IF evaluation.status = "raised" THEN Infer!Raised
  ELSE [raised |-> FALSE, shards |-> run.manifest.shards, gave |-> Infer!PredictResult(run),
        counted |-> Infer!InferenceRow(run), evaluation |-> evaluation]
       @@ Reported(Judge!EvaluationManifest(evaluation), Judge!EvaluationManifest(strict))

EvaluateRun(run, scenes) ==
  IF run.raised THEN Infer!Raised
  ELSE Evaluated(run, Judge!Evaluate(run.manifest.shards, scenes, input.policy, input.limit),
                 Judge!Evaluate(run.manifest.shards, scenes, input.policy, 0))

\* The scenes of a manifest; None is one whose file is missing.
ScenesRead == Mapped(input.dataset, LAMBDA s : IF s.file THEN s ELSE None)

PredictAndEvaluate ==
  /\ Ready("detect")
  /\ output' = EvaluateRun(Infer!Predict(input.params, input.model, input.version, input.dataset, input.world),
                           ScenesRead)
  /\ UNCHANGED input

WellMatched(truth, predictions, matches, limit) ==
  LET Fits(p, g) == /\ truth[g].category = predictions[p].category
                    /\ Judge!Between(truth[g].at, predictions[p].at) <= limit
  IN /\ \A m \in matches : Fits(m.p, m.g)
     /\ \A m, n \in matches : m.p = n.p <=> m.g = n.g
     /\ \A p \in DOMAIN predictions, g \in DOMAIN truth :
          Fits(p, g) => \E m \in matches : m.p = p \/ m.g = g

\* Samples is the index of the samples that have been read.
MatchesAreGood(samples) ==
  \A shard \in Elements(output.shards) :
    shard.payload \in Elements(output.evaluation.evaluated) =>
      LET truth       == Judge!SupportedTruth(samples[shard.payload])
          predictions == Judge!Evaluable(shard.predictions)
      IN WellMatched(truth, predictions, Judge!Matches(truth, predictions, input.limit), input.limit)

Ranked(board, metric) ==
  LET Of(i) == board[i].row.metrics[metric]
      Counts(i) == metric \in DOMAIN board[i].row.metrics /\ Of(i)[1] # 0
      Better(x, y) == IF Judge!DescendingSort("detection", metric) THEN Judge!Less(y, x) ELSE Judge!Less(x, y)
  IN \A i, j \in DOMAIN board : i < j /\ Counts(j) => Counts(i) /\ ~Better(Of(j), Of(i))

\* What the inference run counted arrives in the evaluation and in its row: each
\* prediction is matched, wrong, failed to be lifted or skipped with its shard;
\* each supported annotation of an evaluated sample is found or missed; the
\* classes add up to the totals; and no annotation is matched twice, too far, or
\* left beside a free prediction of its class within the limit.  On the
\* leaderboard, sorted the way in which a metric is better, no evaluation stands
\* above a better one, but that a value of 0 counts as missing.
CountsCarryOver ==
  Done("detect") /\ ~output.raised =>
    LET e       == output.evaluation
        t       == e.total
        gave    == output.gave
        samples == Judge!SceneIndex(ScenesRead).samples
        InClasses(k) == SumOfValues([c \in DOMAIN t.classes |-> t.classes[c][k]])
    IN /\ t.predictions + e.skippedPredictions = gave.predictions
       /\ Len(e.evaluated) + e.skipped = gave.samples
       /\ output.counted = [samples |-> gave.samples, predictions |-> gave.predictions]
       /\ t.tp + t.fp + t.failed = t.predictions
       /\ e.skipped = 0 => output.row.counts.predictions = gave.predictions
                           /\ output.result.counts.evaluable = gave.evaluable
                           /\ output.result.counts.failed = gave.failed
       /\ output.row.summary.skipped <=> output.row.counts.samples = 0
       /\ output.row.counts.truth = SumOf(e.evaluated, LAMBDA i : Len(Judge!SupportedTruth(samples[i])))
       /\ InClasses("tp") = t.tp /\ InClasses("fp") = t.fp /\ InClasses("fn") = t.fn
       /\ MatchesAreGood(samples)
       /\ \A metric \in DOMAIN output.boards : Ranked(output.boards[metric], metric)
-----------------------------------------------------------------------------
(* Pipelines: input [kind, request, version, modelVersion, blocking]       *)

\* What a job gives: each of its outputs, named after the task.
Raw(id) ==
  [k \in {o.source : o \in Flow!Outputs[id]} |->
     IF k = "should_block_pipeline" THEN input.blocking ELSE <<id, k>>]

\* One turn of the loop over the tasks; acc holds the rows, the parameters of the
\* jobs and whether the gate has blocked.
Skipped(acc, task) ==
  [acc EXCEPT !.rows[task.id] = [@ EXCEPT !.status = "skipped", !.result = Flow!EmptyBuckets]]

JobOf(task, rows) ==
  Flow!JobParams(task.id, Flow!Inputs(input.request, task, rows[task.id].params, rows,
                                      input.version, input.modelVersion))

\* The job succeeds with this result, which the gate then looks at.
Finished(acc, task, result, blocks) ==
  [rows |-> [acc.rows EXCEPT ![task.id] = [@ EXCEPT !.status = IF blocks THEN "blocked" ELSE "succeeded",
                                                    !.job = task.id, !.result = result]],
   jobs |-> (task.id :> JobOf(task, acc.rows)) @@ acc.jobs,
   blocked |-> blocks]

RunJob(acc, task, result) == Finished(acc, task, result, Flow!Blocks(task, result))

RunTask(acc, task) ==
  IF acc.blocked THEN acc
  ELSE IF Flow!SkipsTask(task, input.request.params, task.id) THEN Skipped(acc, task)
  ELSE RunJob(acc, task, Flow!Normalized(task, Raw(task.id)))

\* A run of the tasks in order: each job gets its parameters from what the
\* tasks before it gave, and succeeds; a gate that blocks ends the run.
Walk(tasks, created) ==
  FoldLeft(RunTask,
           [rows |-> [id \in {r.id : r \in Elements(created)} |-> CHOOSE r \in Elements(created) : r.id = id], jobs |-> <<>>, blocked |-> FALSE], tasks)

WithResult(walk, order) ==
  [result |-> Flow!RunResult(Mapped(order, LAMBDA r : walk.rows[r.id]),
                             IF walk.blocked THEN "blocked" ELSE "succeeded")] @@ walk

TasksOfRun == Flow!Definitions[input.request.type].tasks

RunPipeline ==
  /\ Ready("flow")
  /\ output' = WithResult(Walk(TasksOfRun, Flow!CreateTasks(input.request)), Flow!CreateTasks(input.request))
  /\ UNCHANGED input

DependenciesOf(id) ==
  UNION {Elements(t.deps) : t \in {t \in Elements(TasksOfRun) : t.id = id}}

\* In every pipeline that can be started each job gets the parameters its
\* handler cannot do without; what a task hands on (manifests, the inference run
\* to evaluate, the scenario set to score) comes from the task before it in this
\* very run, whatever the request's own parameters say; the channels that the
\* dataset requires reach the jobs that look for them; the run stops at the gate
\* exactly when the validation's result asks for it; and its result counts and
\* lists what was reached, with the artifacts and metrics of every job: none
\* takes the name of another's.
RunIsWired ==
  Done("flow") =>
    LET jobs == output.jobs
        result == output.result
        HandedOn(id) == CASE id \in {"register_scene", "validate_scene", "profile_scene"} -> {"scene_manifest_uris"}
                          [] id = "evaluate_detection" -> {"inference_run_id"}
                          [] id = "score_scenario_readiness" -> {"scenario_set_uri"}
                          [] OTHER -> {}
        required == IF input.version = None THEN Empty ELSE input.version.required
    IN /\ \A id \in DOMAIN jobs : id \in Flow!Handled /\ Flow!Acceptable(id, jobs[id])
       /\ \A id \in DOMAIN jobs : \A key \in HandedOn(id) :
            \E d \in DependenciesOf(id) : jobs[id][key] = <<d, key>>
       /\ required # Empty /\ "validate_scene" \in DOMAIN jobs =>
            jobs["validate_scene"].require_target_channels = required
       /\ required # Empty /\ "build_scenes" \in DOMAIN jobs =>
            jobs["build_scenes"].sampling.required_channels = required
       /\ output.blocked <=> input.blocking /\ "validate_scene" \in DOMAIN jobs
       /\ Flow!ValidDefinition(TasksOfRun)
       /\ ~output.blocked => Len(result.tasks) = Len(TasksOfRun)
       /\ Cardinality(DOMAIN jobs) + result.counts["skipped"] = Len(result.tasks)
       /\ result.counts["succeeded"] + result.counts["skipped"] + result.counts["blocked"] = Len(result.tasks)
       /\ \A id \in DOMAIN jobs :
            LET given == output.rows[id].result
            IN /\ \A key \in DOMAIN given.artifacts : result.artifacts[key] = given.artifacts[key]
               /\ \A key \in DOMAIN given.metrics : result.metrics[key] = given.metrics[key]
-----------------------------------------------------------------------------
(* Scenarios: input [kind, scenes, params]                                 *)

ScoreMined(mined) == [mined |-> mined, scored |-> Mining!Readiness(mined, {}), result |-> Mining!MiningResult(mined)]

MineAndScore ==
  /\ Ready("mine")
  /\ output' = ScoreMined(Mining!Mine(input.scenes, input.params))
  /\ UNCHANGED input

\* What is called ready is fit: it has ground truth, and if it is not validated
\* then at least it has all channels, samples, frames, and within the rounding
\* of the score as many annotations as any candidate; all annotated scenes that
\* the profile detection_ready selects with samples and frames are ready; and
\* the buckets hold each candidate once.
ReadyMeansFit ==
  Done("mine") =>
    LET mined  == output.mined
        scored == output.scored
        scene(id) == CHOOSE s \in Elements(input.scenes) : s.id = id
        Validated(s) == s.status \in {"validated", "profiled"}
        Complete(s) == s.samples > 0 /\ s.frames > 0
        AboutAsMany(a, b) == 3000 * (b - a) <= b
    IN /\ \A c \in Elements(scored.scenes) : c.bucket = "ready" =>
            LET s == scene(c.id)
            IN /\ s.groundTruth /\ s.annotations > 0
               /\ Validated(s) \/ (/\ Complete(s) /\ input.params.required \subseteq s.channels
                                   /\ \A d \in Elements(mined.candidates) :
                                        AboutAsMany(s.annotations, d.annotations))
       /\ input.params.profile = "detection_ready" /\ input.params.groundTruth = None =>
            \A c \in Elements(scored.scenes) :
              /\ input.params.minAnnotations = None => scene(c.id).annotations > 0
              /\ Complete(scene(c.id)) /\ scene(c.id).annotations > 0 => c.bucket = "ready"
       /\ scored.ready + scored.warning + scored.blocked = output.result.candidates
       /\ mined.selected + mined.rejected <= mined.input
       /\ \A id \in Elements(scored.top) : \E c \in Elements(scored.scenes) : c.id = id /\ c.bucket = "ready"
-----------------------------------------------------------------------------
(* Views: input [kind, events], the jobs on one dataset version in order   *)

\* The views after the jobs: by scene, and by dataset version with its pages.
ViewsOf(db) ==
  [db |-> db, all |-> Views!AllQuality(db), version |-> Views!VersionQuality(db),
   single |-> [s \in Views!IdsOf(db.rows) |-> Views!SceneQuality(db, s)],
   pages |-> [n \in 1..2 |-> [i \in 1..2 |-> Views!QualityPage(db, n, (i - 1) * n).scenes]]]

ServeViews ==
  /\ Ready("views")
  /\ output' = ViewsOf(Views!After(input.events))
  /\ UNCHANGED input

\* What is known of the manifest of scene s, v or None before, after a job.
VerdictAfter(s, v, e) ==
  LET of == {x \in Elements(e.scenes) : x # None /\ x.id = s}
      found == CHOOSE x \in of : TRUE
  IN CASE e.op = "register" -> IF s \in Elements(e.ids) THEN None ELSE v
       [] e.op = "validate" -> IF of = {} THEN v ELSE Views!Verdict(found.errors, found.warnings)
       [] e.op = "profile"  -> v

\* What the manifest of s was last found to be since it was registered, or None.
LastVerdict(events, s) == FoldLeft(LAMBDA v, e : VerdictAfter(s, v, e), None, events)

\* The pipelines' order: what is profiled was validated, and did not block.
Gated(events) ==
  \A i \in DOMAIN events : events[i].op = "profile" =>
    \A s \in Elements(events[i].ids) : LastVerdict(Prefix(events, i), s) \in {"ready", "warning"}

\* The endpoint of a scene and that of its dataset version, which look for the
\* latest runs in two ways, say the same; a version is ready exactly when all of
\* its scenes are, and selectable; and after jobs in the pipelines' order a
\* scene is selectable exactly when its manifest, as registered last, passed
\* its last validation and has annotations: neither a verdict on an older
\* manifest nor an older verdict counts, and what is selectable is what mining
\* for detection takes and calls ready.  The version's cache agrees, if its last
\* validation was of just what is registered and the scenes are no more than
\* the version's quality looks at.
QualityIsCurrent ==
  Done("views") =>
    LET db      == output.db
        all     == output.all
        sum     == output.version.summary
        verdict == [r \in Views!IdsOf(db.rows) |-> LastVerdict(input.events, r)]
        row(q)  == Views!RowOf(db, q.id)
        last    == input.events[Len(input.events)]
        detection == [profile |-> "detection_ready", groundTruth |-> None, minAnnotations |-> None,
                      maxAnnotations |-> None, required |-> {}, selectable |-> None]
        minable(q) == Mining!PassesMining(row(q), detection)
        complete == Len(db.rows) <= Views!SceneLimit
        checked == {s.id : s \in Elements(last.scenes) \ {None}}
    IN /\ \A q \in Elements(all) : q = output.single[q.id]
       /\ complete => {q.id : q \in Elements(all)} = Views!IdsOf(db.rows)
       /\ sum.ready + sum.warning + sum.blocked + sum.unknown = sum.scenes
       /\ output.version.readiness = "ready" <=>
            all # <<>> /\ \A q \in Elements(all) : q.readiness = "ready" /\ q.selectable
       /\ \A n \in 1..2 : output.pages[n][1] \o output.pages[n][2] = Prefix(all, 2 * n)
       /\ \A q \in Elements(all) : q.selectable =>
            minable(q) /\ Mining!ValidationStatus(row(q)) = "ready"
       /\ Gated(input.events) =>
            /\ \A q \in Elements(all) :
                 /\ q.readiness = (IF verdict[q.id] \in {"ready", "warning"} THEN verdict[q.id] ELSE "unknown")
                 /\ q.selectable <=> verdict[q.id] \in {"ready", "warning"} /\ row(q).annotations > 0
                 /\ q.selectable <=> minable(q)
            /\ complete /\ input.events # <<>> /\ last.op = "validate" /\ last.scenes # <<>>
               /\ Views!IdsOf(db.rows) = checked
               => (db.cache.block <=> None \in Elements(last.scenes) \/ \E q \in Elements(all) : q.readiness = "unknown")
-----------------------------------------------------------------------------
\* Nothing is computed yet, of an input that the code may be given.
FlowInit ==
  /\ output = NotYet
  /\ input.kind = "segments" => Scene!ValidLog(input.frames, input.cfg, Log)
  /\ input.kind = "build" => Scene!ValidBuild(input.ctx, input.segmentation, input.sampling, Log)
  /\ input.kind = "mine" => Mining!ValidMining(input.scenes, input.params)
  /\ input.kind = "views" => Views!ValidEvents(input.events)

FlowNext ==
  CutLog \/ BuildScenes \/ IngestAndBuild \/ PredictAndEvaluate \/ RunPipeline \/ MineAndScore \/ ServeViews

FlowSpec == FlowInit /\ [][FlowNext]_<<input, output>>
=============================================================================
