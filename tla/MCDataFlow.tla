----------------------------- MODULE MCDataFlow -----------------------------
(***************************************************************************)
(* DetectionRuns and DataFlow on small instances.  A behaviour either runs *)
(* the jobs (two of one inference run, and two of one evaluation of it,    *)
(* each executed up to twice over two samples) or is one input of the      *)
(* functions.                                                              *)
(***************************************************************************)
EXTENDS DetectionRuns, DataFlow

CONSTANT SmallLogs     \* bounds the frames of the logs that are segmented

\* Jobs of a type differ in nothing but their names.
JobSymmetry == Permutations(Predictors) \union Permutations(Evaluators)

\* All jobs of a type are given one run id.
MCRunOf == [j \in Jobs |-> IF j \in Predictors THEN "inference" ELSE "evaluation"]
MCJudged == [e \in Evaluators |-> "inference"]
MCSafeKey(key) == key
MCChannels == {1, 2}

Ms(t) == t * 1000
-----------------------------------------------------------------------------
(* Segments: every log of so many frames, in any order. *)

SegmentDefaults ==
  [strategy |-> "sequence", respectSequence |-> TRUE, missingSequence |-> "default",
   defaultSequence |-> 9, minCount |-> 1, minDuration |-> None, maxDuration |-> None,
   maxCount |-> None, maxGap |-> None, window |-> None, stride |-> None]

Segmentations ==
  {SegmentDefaults,
   [SegmentDefaults EXCEPT !.maxCount = 2],
   [SegmentDefaults EXCEPT !.missingSequence = "drop", !.maxDuration = 1],
   [SegmentDefaults EXCEPT !.respectSequence = FALSE, !.minCount = 2],
   [SegmentDefaults EXCEPT !.strategy = "gap_based", !.maxGap = 1],
   [SegmentDefaults EXCEPT !.strategy = "gap_based", !.maxGap = 2, !.maxCount = 1, !.missingSequence = "drop"],
   [SegmentDefaults EXCEPT !.strategy = "fixed_window", !.window = 2],
   [SegmentDefaults EXCEPT !.strategy = "fixed_window", !.window = 2, !.stride = 1],
   [SegmentDefaults EXCEPT !.strategy = "fixed_window", !.window = 1, !.stride = 2, !.respectSequence = FALSE]}

SegmentInputs ==
  {[kind |-> "segments", cfg |-> cfg,
    frames |-> [i \in 1..SmallLogs |-> [id |-> i, ts |-> Ms(at[i][1]), ch |-> 1, seq |-> at[i][2]]]] :
     cfg \in Segmentations, at \in [1..SmallLogs -> {0, 1, 3} \X {None, 1}]}
-----------------------------------------------------------------------------
(* Scenes: a camera and a lidar, any of their frames at hand. *)

CameraTimes == {0, 100, 130}
LidarTimes == {0, 40, 100, 400}

CameraFrame(t) == [ts |-> Ms(t), ch |-> 1, seq |-> 1, sensor |-> 1, camera |-> TRUE,
                   size |-> IF t = 130 THEN "partial" ELSE "full"]
LidarFrame(t) == [ts |-> Ms(t), ch |-> 2, seq |-> IF t = 400 THEN 2 ELSE 1,
                  sensor |-> None, camera |-> FALSE, size |-> "none"]

\* The id of a frame is its place.
LogOf(cameras, lidars) ==
  LET frames == Mapped(SortedSet(cameras), CameraFrame) \o Mapped(SortedSet(lidars), LidarFrame)
  IN [i \in DOMAIN frames |-> [id |-> i] @@ frames[i]]

CameraCalibration(intrinsic) == [id |-> 7, sensor |-> 1, ch |-> None, intrinsic |-> intrinsic]
LidarCalibration == [id |-> 8, sensor |-> None, ch |-> 2, intrinsic |-> FALSE]
PosesAt(times) == [i \in DOMAIN times |-> [id |-> i, ts |-> Ms(times[i])]]

Registries ==
  {[calibrations |-> <<CameraCalibration(TRUE), LidarCalibration>>, poses |-> PosesAt(<<0, 100>>)],
   [calibrations |-> <<CameraCalibration(FALSE)>>, poses |-> PosesAt(<<100, 130, 400>>)],
   [calibrations |-> <<>>, poses |-> <<>>]}

SamplingDefaults ==
  [strategy |-> "anchor_channel", anchorChannel |-> 1, interval |-> None, everyNth |-> 1,
   maxSamples |-> None, minGap |-> None, required |-> {}, association |-> "nearest", tolerance |-> 50,
   allowReuse |-> FALSE, dropEmpty |-> TRUE, dropMissing |-> FALSE, allowNoCalibration |-> TRUE,
   pose |-> "nearest", poseTolerance |-> 50, allowNoPose |-> TRUE]

Samplings ==
  {SamplingDefaults,
   [SamplingDefaults EXCEPT !.required = {1, 2}, !.dropMissing = TRUE],
   [SamplingDefaults EXCEPT !.required = {1, 2}, !.tolerance = 0, !.pose = "exact"],
   [SamplingDefaults EXCEPT !.anchorChannel = 2, !.association = "previous", !.tolerance = 100,
                            !.required = {2, 3}],
   [SamplingDefaults EXCEPT !.association = "next", !.allowReuse = TRUE, !.minGap = 50],
   [SamplingDefaults EXCEPT !.strategy = "fixed_interval", !.interval = 60, !.dropEmpty = FALSE],
   [SamplingDefaults EXCEPT !.everyNth = 2, !.maxSamples = 1, !.allowNoCalibration = FALSE,
                            !.allowNoPose = FALSE]}

BuildInputs ==
  {[kind |-> "build", segmentation |-> SegmentDefaults, sampling |-> sampling, maxScenes |-> max,
    ctx |-> [frames |-> LogOf(cameras, lidars)] @@ registry] :
     cameras \in SUBSET CameraTimes, lidars \in SUBSET LidarTimes,
     registry \in Registries, sampling \in Samplings, max \in {None, 1}}
  \union
  {[kind |-> "build", segmentation |-> segmentation, sampling |-> sampling, maxScenes |-> None,
    ctx |-> [frames |-> LogOf(cameras, lidars), calibrations |-> <<>>, poses |-> <<>>]] :
     cameras \in SUBSET CameraTimes, lidars \in SUBSET LidarTimes,
     segmentation \in {[SegmentDefaults EXCEPT !.strategy = "fixed_window", !.window = window, !.stride = stride] :
                         window \in {100, 200}, stride \in {None, 100}},
     sampling \in {[SamplingDefaults EXCEPT !.anchorChannel = ch] : ch \in {1, 2}}}
-----------------------------------------------------------------------------
(* Sources: two scenes, a camera, a lidar and a channel that is not ingested. *)

DataAt(scene, t, ch, calibration) ==
  LET ts == Ms(1000 * scene + t) + ch
  IN [id |-> ts, ts |-> ts, calibration |-> calibration, pose |-> ts, size |-> IF ch = 1 THEN "full" ELSE "none"]

\* A sample has its camera; the others may be missing.
SourceSample(scene, t, channels, moved) ==
  [ts |-> Ms(1000 * scene + t), annotations |-> <<>>,
   data |-> [ch \in {1} \union channels |->
               DataAt(scene, t, ch, IF moved /\ scene = 2 THEN ch + 10 ELSE ch)]]

SourceScene(scene, channels, moved) ==
  [name |-> scene, samples |-> [i \in DOMAIN channels |-> SourceSample(scene, 500 * i, channels[i], moved)]]

SourceOf(first, second, moved) ==
  LET scenes == <<SourceScene(1, first, moved), SourceScene(2, second, moved)>>
      data   == UNION {{x.data[ch] : ch \in DOMAIN x.data} :
                         x \in Elements(scenes[1].samples) \union Elements(scenes[2].samples)}
  IN [scenes |-> scenes,
      calibrations |-> [c \in 1..13 |-> [sensor |-> c % 10, intrinsic |-> c % 10 = 1]],
      poses |-> [p \in {d.pose : d \in data} |-> p]]

SourceInputs ==
  {[kind |-> "source", max |-> max, segmentation |-> SegmentDefaults,
    sampling |-> [SamplingDefaults EXCEPT !.required = {1, 2}, !.pose = pose],
    source |-> SourceOf(<<a, b>>, second, moved)] :
     a \in SUBSET {2, 3}, b \in SUBSET {2, 3}, second \in {<<{}>>, <<{2}, {2, 3}, {}>>},
     moved \in BOOLEAN, max \in {None, 1}, pose \in {"nearest", "exact"}}
-----------------------------------------------------------------------------
(* Detection: two scenes of one sample, one of them with or without truth. *)

Annotation(id, category, at) == [id |-> id, category |-> category, at |-> at]
SceneFrameOf(ch, t) == [id |-> <<ch, t>>, ts |-> t, ch |-> ch, camera |-> ch = 1, calibration |-> ch,
                        pose |-> 1, image |-> IF ch = 1 THEN "full" ELSE None]
Pictured(s, annotations, channels) ==
  [id |-> s, annotations |-> annotations, frames |-> Mapped(SortedSet(channels), LAMBDA ch : SceneFrameOf(ch, s))]

DetectionScene(id, annotations, channels, file) ==
  [id |-> id, file |-> file, annotations |-> Len(annotations), groundTruth |-> annotations # <<>>,
   source |-> "dataset", samples |-> <<Pictured(id, annotations, channels)>>,
   calibrations |-> <<[id |-> 1, sensor |-> 1, ch |-> 1, intrinsic |-> TRUE],
                      [id |-> 2, sensor |-> 2, ch |-> 2, intrinsic |-> FALSE]>>,
   poses |-> <<[id |-> 1, ts |-> 0]>>]

Crowd == <<Annotation(1, "car", 0), Annotation(2, "car", 2), Annotation(3, "cat", 1)>>
Answer(category, at, points, readable) ==
  [category |-> category, at |-> at, points |-> points, readable |-> readable]

AnswersOfOne ==
  {None, <<>>, <<Answer("car", 1, 9, TRUE)>>,
   <<Answer("car", 1, 9, TRUE), Answer("car", 0, 9, TRUE), Answer("car", 3, 9, TRUE)>>,
   <<Answer("car", 0, 9, FALSE), Answer("bus", 2, 2, TRUE), Answer("car", 0, 9, TRUE)>>}

Worlds ==
  {[luck |-> [kept |-> kept, extra |-> extra, shift |-> shift, where |-> 1], answers |-> answers] :
     kept \in {{1}, {1, 2, 3}}, extra \in {{}, {1, 2}}, shift \in {0, 2}, answers \in {[i \in 1..2 |-> <<>>]}}
  \union
  {[luck |-> [kept |-> {}, extra |-> {}, shift |-> 0, where |-> 1], answers |-> answers] :
     answers \in [1..2 -> AnswersOfOne]}

ModelOf(backend) == [backend |-> backend, endpoint |-> "http", uri |-> "local"]
Version == [status |-> "READY", manifest |-> TRUE, rawRoot |-> "raw"]

DetectInputs ==
  {[kind |-> "detect", dataset |-> <<DetectionScene(1, Crowd, {1, 2}, TRUE), second>>,
    model |-> ModelOf(backend), version |-> Version, world |-> world, policy |-> policy, limit |-> 1,
    params |-> [backend |-> backend, maxSamples |-> max, lift |-> lift,
                selection |-> [scenes |-> {}, mode |-> "all", minAnnotations |-> None, sources |-> {},
                               max |-> None]]] :
     second \in {DetectionScene(2, <<Annotation(4, "car", 1)>>, {1, 2}, TRUE),
                 DetectionScene(2, <<>>, {1}, TRUE), DetectionScene(2, Crowd, {1, 2}, FALSE)},
     backend \in {"mock", "onnx_runtime", "grounding_dino"}, world \in Worlds,
     policy \in {"skip", "fail"}, max \in {1, 5}, lift \in BOOLEAN}
-----------------------------------------------------------------------------
(* Pipelines: all that are available, with parameters that get in the way. *)

DatasetVersion(required) ==
  [manifest |-> "dataset.json", required |-> required,
   validation_report_uri |-> None, profile_report_uri |-> "old.json",
   scene_count |-> 2, sample_count |-> 0, frame_count |-> 0,
   latest_validation_run_id |-> "old", validation_status |-> "ready", should_block_pipeline |-> FALSE,
   latest_profile_run_id |-> None]

Theirs == [k \in {"scene_manifest_uris", "inference_run_id", "scenario_set_uri", "scenario_set_id"} |->
             <<"request", k>>]
NoParams == [k \in {} |-> None]

RequestParams ==
  {[ingest_scenes |-> [source_root_uri |-> "raw"]] @@ theirs :
     theirs \in {NoParams, [profile_scene |-> [profile_samples |-> FALSE]],
                 [register_scene |-> Theirs, validate_scene |-> Theirs, profile_scene |-> Theirs,
                  evaluate_detection |-> Theirs, score_scenario_readiness |-> Theirs]}}

FlowInputs ==
  {[kind |-> "flow", version |-> version, blocking |-> blocking,
    modelVersion |-> [uri |-> None, backend |-> "mock", endpoint |-> None],
    request |-> [type |-> type, dataset |-> "d", version |-> "v", model |-> "m", modelVersion |-> "1",
                 params |-> params]] :
     type \in Flow!Listed(TRUE), params \in RequestParams, blocking \in BOOLEAN,
     version \in {None, DatasetVersion(Empty), DatasetVersion("channels")}}
-----------------------------------------------------------------------------
(* Scenarios: a scene of any kind among two others, with few annotations or *)
(* with so many that the score cannot tell one more.                       *)

CatalogScene(id, status, annotations, samples, channels) ==
  [id |-> id, status |-> status, annotations |-> annotations, samples |-> samples, frames |-> samples,
   groundTruth |-> annotations > 0, channels |-> channels]

MiningDefaults ==
  [profile |-> "detection_ready", groundTruth |-> None, minAnnotations |-> None, maxAnnotations |-> None,
   required |-> {}, selectable |-> None, sortBy |-> "annotation_count", order |-> None, maxCandidates |-> 3]

Minings ==
  {MiningDefaults,
   [MiningDefaults EXCEPT !.required = {1, 2}, !.maxCandidates = 1],
   [MiningDefaults EXCEPT !.profile = "dense_gt", !.sortBy = "scene_id", !.order = "asc"],
   [MiningDefaults EXCEPT !.profile = "no_gt_candidates"],
   [MiningDefaults EXCEPT !.profile = "custom", !.required = {2}, !.maxCandidates = 2],
   [MiningDefaults EXCEPT !.groundTruth = FALSE, !.minAnnotations = 0],
   [MiningDefaults EXCEPT !.profile = "custom", !.selectable = TRUE, !.maxAnnotations = 2]}

MineInputs ==
  {[kind |-> "mine", params |-> params,
    scenes |-> <<CatalogScene(1, status, annotations, samples, channels),
                 CatalogScene(2, "validated", 2, 1, {1, 2}),
                 CatalogScene(3, other, most, 1, {1})>>] :
     status \in {"registered", "validated", "profiled", "failed"}, annotations \in {0, 1, 3, 4000},
     most \in {3, 4001},
     samples \in {0, 1}, channels \in SUBSET {1, 2}, other \in {"registered", "failed", "profiled"},
     params \in Minings}
-----------------------------------------------------------------------------
(* Views: two scenes are registered, then any four jobs. *)

Registration(ids, annotations) == [op |-> "register", ids |-> ids, annotations |-> annotations]
Validation(by, scenes) == [op |-> "validate", job |-> by, scenes |-> scenes]
Profiling(by, ids) == [op |-> "profile", job |-> by, ids |-> ids]
Checked(s, errors, warnings) == [id |-> s, errors |-> errors, warnings |-> warnings]

EventsAt(n) ==
  {Registration(<<1>>, 0), Registration(<<1>>, 2), Registration(<<2, 1>>, 1),
   Validation(n, <<Checked(1, 0, 0)>>), Validation(n, <<Checked(1, 0, 2)>>),
   Validation(n, <<Checked(1, 1, 1)>>), Validation(n, <<Checked(2, 0, 0), Checked(1, 0, 0)>>),
   Validation(n, <<Checked(1, 0, 1), Checked(2, 2, 0)>>), Validation(n, <<None, Checked(2, 0, 0)>>),
   Profiling(n, <<1>>), Profiling(n, <<1, 2>>)}

ViewInputs ==
  {[kind |-> "views", events |-> <<Registration(<<1, 2>>, 1), a, b, c, d>>] :
     a \in EventsAt(1), b \in EventsAt(2), c \in EventsAt(3) \union {Validation(3, <<>>)}, d \in EventsAt(4)}
-----------------------------------------------------------------------------
Nothing == [kind |-> "none"]

\* FlowInit excludes none of them.
ASSUME InputsAreValid ==
  /\ \A in \in SegmentInputs : Scene!ValidLog(in.frames, in.cfg, Log)
  /\ \A in \in BuildInputs : Scene!ValidBuild(in.ctx, in.segmentation, in.sampling, Log)
  /\ \A in \in MineInputs : Mining!ValidMining(in.scenes, in.params)
  /\ \A in \in ViewInputs : Views!ValidEvents(in.events)

MCInit ==
  /\ Init
  /\ \/ input = Nothing
     \/ input \in SegmentInputs
     \/ input \in BuildInputs
     \/ input \in SourceInputs
     \/ input \in DetectInputs
     \/ input \in FlowInputs
     \/ input \in MineInputs
     \/ input \in ViewInputs
  /\ FlowInit

MCNext ==
  \/ input = Nothing /\ Next /\ UNCHANGED <<input, output>>
  \/ FlowNext /\ UNCHANGED vars

MCSpec == MCInit /\ [][MCNext]_<<vars, input, output>>
=============================================================================
