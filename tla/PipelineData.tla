---------------------------- MODULE PipelineData ----------------------------
(***************************************************************************)
(* What flows through a pipeline run: the built-in definitions, the        *)
(* parameters of the tasks' jobs, the results sorted into buckets by the   *)
(* declared outputs, the quality gate, and the result of the whole run     *)
(* (sceneops_core/pipelines, sceneops_worker/pipelines, build_job_params   *)
(* of the handlers).                                                       *)
(*                                                                         *)
(* A JSON dictionary is a function from keys to values, an absent key is   *)
(* one outside its domain.  A task's id is also its job's type.            *)
(*                                                                         *)
(*   request  [type, dataset, version, model, modelVersion, params]        *)
(*            params: task id -> dictionary                                *)
(*   task row [id, order, status, job, result]  result: buckets or None    *)
(*   buckets  [refs, summary, metrics, artifacts]                          *)
(***************************************************************************)
EXTENDS Lists, Integers, Sequences, FiniteSets, SequencesExt

CONSTANTS
  None,
  Empty        \* an empty list, string or dictionary: what Python takes as false

NoDict == [k \in {} |-> None]
Present(d) == [k \in {k \in DOMAIN d : d[k] # None} |-> d[k]]
Value(d, key) == IF key \in DOMAIN d THEN d[key] ELSE None
-----------------------------------------------------------------------------
(* Declared outputs: [kind, source, target] *)

Spec3(kind, source, target) == [kind |-> kind, source |-> source, target |-> target]
Of(kind, names) == {Spec3(kind, n, n) : n \in names}
SceneCounts == Of("summary", {"scene_count", "sample_count", "frame_count"})

\* A count that is both a summary and a metric of the run.
Counted(names) == Of("summary", names) \union Of("metrics", names)

SceneOutputs ==
  [ingest_scenes |-> Of("refs", {"scene_manifest_uris"}) \union SceneCounts,
   build_scenes |->
     Of("refs", {"scene_manifest_uris"}) \union SceneCounts
     \union Of("artifacts", {"scene_segment_index_uri", "raw_log_manifest_uri",
                             "raw_log_frame_index_uri", "records_uri"})
     \union Of("summary", {"source_type", "source_format", "observation_count",
                           "segmentation_strategy", "sampling_strategy",
                           "sample_count_before_filtering", "sample_count_after_filtering",
                           "dropped_sample_count", "warned_sample_count",
                           "samples_with_missing_channels_count",
                           "missing_channel_counts_by_channel"}),
   register_scene |-> Of("refs", {"scene_manifest_uris"}) \union Of("summary", {"registered_scene_count"})]

CatalogOutputs ==
  [validate_scene |->
     Of("refs", {"validation_run_id"})
     \union {Spec3("artifacts", "report_uri", "validation_report_uri"),
             Spec3("summary", "status", "validation_status")}
     \union Of("summary", {"should_block_pipeline", "issue_count", "checked_scene_count"}),
   profile_scene |->
     Of("refs", {"profile_run_id"}) \union {Spec3("artifacts", "report_uri", "profile_report_uri")}
     \union SceneCounts \union Of("summary", {"annotation_count", "observed_channels"}),
   build_scene_index |->
     Of("refs", {"scene_manifest_uris"}) \union Of("artifacts", {"scene_index_uri"}) \union SceneCounts,
   build_dataset_manifest |-> Of("refs", {"dataset_manifest_uri"}) \union SceneCounts]

DetectionOutputs ==
  [predict_detection |->
     Of("refs", {"inference_run_id"})
     \union Of("artifacts", {"prediction_manifest_uri", "predictions_root_uri"})
     \union Of("summary", {"sample_count", "prediction_count"}),
   evaluate_detection |->
     Of("refs", {"evaluation_run_id", "inference_run_id"})
     \union Of("artifacts", {"evaluation_manifest_uri", "metrics_uri"})
     \union Of("summary", {"sample_count", "prediction_count", "evaluable_prediction_count",
                           "lifting_failed_prediction_count", "ground_truth_count", "evaluation_unit"})
     \union Of("metrics", {"primary_metric_name", "primary_metric_value"})]

ScenarioOutputs ==
  [mine_scenarios |->
     Of("refs", {"scenario_set_id", "scenario_set_uri", "mining_run_id"})
     \union {Spec3("artifacts", "report_uri", "mining_report_uri")}
     \union Counted({"candidate_count", "selected_count", "rejected_count"}),
   score_scenario_readiness |->
     Of("refs", {"readiness_run_id", "top_scene_ids"}) \union Of("artifacts", {"readiness_report_uri"})
     \union Counted({"scored_scene_count", "ready_count", "warning_count", "blocked_count",
                     "average_score"})]

Outputs == SceneOutputs @@ CatalogOutputs @@ DetectionOutputs @@ ScenarioOutputs

\* block_if_true summary.should_block_pipeline
GatedTasks == {"validate_scene"}
-----------------------------------------------------------------------------
(* The built-in pipelines *)

Task(id, deps, params) ==
  [id |-> id, deps |-> deps, params |-> params, optional |-> FALSE, declares |-> TRUE]
Optional(task) == [task EXCEPT !.optional = TRUE]

\* A task of a pipeline that is not implemented declares no outputs and no rule.
Bare(task) == [task EXCEPT !.declares = FALSE]

\* What follows the registration in both pipelines that make scenes.
AfterRegistration(profiling) ==
  <<Task("register_scene", <<>>, [replace_existing |-> TRUE]),
    Task("validate_scene", <<"register_scene">>, NoDict),
    Optional(Task("profile_scene", <<"register_scene">>, profiling)),
    Task("build_scene_index", <<"register_scene">>, NoDict),
    Task("build_dataset_manifest", <<"build_scene_index">>, NoDict)>>

SceneMaking(maker, profiling) ==
  <<maker>> \o [AfterRegistration(profiling) EXCEPT ![1].deps = <<maker.id>>]

Implemented(tasks, experimental) ==
  [supported |-> TRUE, implemented |-> TRUE, experimental |-> experimental, tasks |-> tasks]
Unimplemented(tasks) ==
  [supported |-> FALSE, implemented |-> FALSE, experimental |-> TRUE, tasks |-> Mapped(tasks, Bare)]

DatasetSceneIngestion ==
  Implemented(SceneMaking(
     Task("ingest_scenes", <<>>, [source_format |-> "nuscenes", mode |-> "upsert"]),
     [profile_samples |-> TRUE, profile_assets |-> TRUE]), FALSE)

RawLogSceneBuilding ==
  Implemented(SceneMaking(
     Task("build_scenes", <<>>, [build_assets |-> TRUE, build_world_state |-> FALSE,
       sampling |-> [missing_channel_policy |-> "keep_with_warning"]]),
     NoDict), FALSE)

SceneReconstruction ==
  Unimplemented(
     <<Task("build_scenes", <<>>, [build_assets |-> TRUE, build_world_state |-> TRUE]),
       Task("validate_scene", <<"build_scenes">>, [require_world_state |-> TRUE, require_assets |-> TRUE]),
       Optional(Task("profile_scene", <<"build_scenes">>,
                     [profile_assets |-> TRUE, profile_world_state |-> TRUE])),
       Task("export_scene_package", <<"validate_scene">>,
            [package_type |-> "reconstruction", include_assets |-> TRUE, include_world_state |-> TRUE])>>)

SceneRegistration ==
  Unimplemented(
     <<Task("register_scene", <<>>, NoDict),
       Task("validate_scene", <<"register_scene">>, [require_assets |-> TRUE]),
       Optional(Task("profile_scene", <<"register_scene">>, NoDict)),
       Optional(Task("compare_scenes", <<"validate_scene">>, NoDict))>>)

ScenarioCuration ==
  Implemented(
     <<Task("mine_scenarios", <<>>, NoDict),
       Task("score_scenario_readiness", <<"mine_scenarios">>, NoDict)>>, TRUE)

GeneratedDatasetPreparation ==
  Unimplemented(
     <<Task("register_scene", <<>>, NoDict),
       Optional(Task("compare_scenes", <<"register_scene">>, NoDict)),
       Optional(Task("auto_label_scene", <<"register_scene">>, NoDict)),
       Task("build_dataset_manifest", <<"register_scene">>, NoDict),
       Optional(Task("check_distribution", <<"build_dataset_manifest">>, NoDict)),
       Task("export_dataset", <<"build_dataset_manifest">>, NoDict)>>)

DetectionEvaluationPipeline ==
  Implemented(
     <<Task("predict_detection", <<>>, [inference_backend |-> "mock"]),
       Task("evaluate_detection", <<"predict_detection">>,
            [evaluator_id |-> "center-distance", match_distance_m |-> 2])>>, FALSE)

Definitions ==
  [dataset_scene_ingestion |-> DatasetSceneIngestion,
   raw_log_scene_building |-> RawLogSceneBuilding,
   scene_reconstruction |-> SceneReconstruction,
   scene_registration |-> SceneRegistration,
   scenario_curation |-> ScenarioCuration,
   generated_dataset_preparation |-> GeneratedDatasetPreparation,
   detection_evaluation |-> DetectionEvaluationPipeline]

TaskIds(tasks) == {t.id : t \in Elements(tasks)}

\* _validate_pipeline_definition
ValidDefinition(tasks) ==
  /\ Cardinality(TaskIds(tasks)) = Len(tasks)
  /\ \A t \in Elements(tasks) : Elements(t.deps) \subseteq TaskIds(tasks)

Available(d) == d.supported /\ d.implemented

\* list_pipeline_definitions
Listed(experimental) ==
  {p \in DOMAIN Definitions : Available(Definitions[p]) /\ (experimental \/ ~Definitions[p].experimental)}

\* create_default_job_handler_registry
Handled == DOMAIN Outputs
-----------------------------------------------------------------------------
(* create_pipeline_run *)

\* The rows of the tasks, or None when the pipeline is not available.
CreateTasks(request) ==
  LET definition == Definitions[request.type]
      Asked(id) == IF id \in DOMAIN request.params THEN request.params[id] ELSE NoDict
      Row(i) == LET t == definition.tasks[i]
                IN [id |-> t.id, order |-> i - 1, status |-> "pending", job |-> None,
                    params |-> Overlaid(t.params, Asked(t.id)), result |-> None]
  IN IF ~Available(definition) THEN None ELSE [i \in DOMAIN definition.tasks |-> Row(i)]

\* The names under which a request may ask for an optional task.
AskedFor(task, params, name) ==
  \E key \in {task.id, name} : key \in DOMAIN params /\ DOMAIN params[key] # {}

SkipsTask(task, params, name) == task.optional /\ ~AskedFor(task, params, name)
-----------------------------------------------------------------------------
(* PipelineInputResolver *)

DatasetCounts == {"scene_count", "sample_count", "frame_count"}

\* version: the row of the dataset version, or None; counts that are 0 and
\* empty strings are left out.
DatasetRef(request, version) ==
  IF request.dataset = None THEN None
  ELSE IF request.version = None \/ version = None
       THEN [id |-> request.dataset, version |-> request.version, manifest |-> None,
             required |-> Empty, refs |-> NoDict, summary |-> NoDict]
  ELSE [id |-> request.dataset, version |-> request.version, manifest |-> version.manifest,
        required |-> version.required,
        refs |-> Present([k \in {"validation_report_uri", "profile_report_uri"} |-> version[k]]),
        summary |-> [k \in {c \in DatasetCounts : version[c] # 0} |-> version[k]]
                    @@ Present([validation_run_id |-> version.latest_validation_run_id,
                                validation_status |-> version.validation_status,
                                should_block_pipeline |-> version.should_block_pipeline,
                                profile_run_id |-> version.latest_profile_run_id])]

ModelRef(request, version) ==
  IF request.model = None THEN None
  ELSE IF request.modelVersion = None \/ version = None
       THEN [id |-> request.model, version |-> request.modelVersion, uri |-> None, backend |-> None,
             refs |-> NoDict]
  ELSE [id |-> request.model, version |-> request.modelVersion, uri |-> version.uri,
        backend |-> version.backend, refs |-> Present([model_endpoint_url |-> version.endpoint])]

\* Of the tasks a task depends on those that SUCCEEDED contribute, a later
\* dependency over an earlier one; rows: task id -> row, without the missing.
Upstream(task, rows, bucket) ==
  LET Merge(acc, dep) ==
        IF dep \notin DOMAIN rows THEN acc
        ELSE IF rows[dep].status # "succeeded" \/ rows[dep].result = None THEN acc
        ELSE Overlaid(acc, Present(rows[dep].result[bucket]))
  IN FoldLeft(Merge, NoDict, task.deps)

\* The envelope of a task's inputs, with the task's parameters.
Inputs(request, task, params, rows, version, modelVersion) ==
  [dataset |-> DatasetRef(request, version), model |-> ModelRef(request, modelVersion),
   refs |-> Upstream(task, rows, "refs"), summary |-> Upstream(task, rows, "summary"),
   params |-> params]
-----------------------------------------------------------------------------
(* build_job_params of the handlers *)

Given(d, key) == Value(d, key) \notin {None, Empty}
Refd(in, key) == IF Given(in.refs, key) THEN in.refs[key] ELSE Empty

\* Every handler starts from the run's dataset; a task parameter may name another.
BaseParams(in) ==
  Overlaid([dataset_id |-> IF in.dataset = None THEN None ELSE in.dataset.id,
            dataset_version |-> IF in.dataset = None THEN None ELSE in.dataset.version], in.params)

RequiredOf(in) == IF in.dataset = None THEN Empty ELSE in.dataset.required

\* Variant: the parameters of the task win.
WithGivenUris(in) == Overlaid([scene_manifest_uris |-> Refd(in, "scene_manifest_uris")], BaseParams(in))

WithUris(in) == Overlaid(BaseParams(in), [scene_manifest_uris |-> Refd(in, "scene_manifest_uris")])

\* The dataset's required channels go into the sampling unless it names some.
BuildScenesParams(in) ==
  LET base     == BaseParams(in)
      sampling == IF Given(base, "sampling") THEN base.sampling ELSE NoDict
  IN IF RequiredOf(in) = Empty \/ Given(sampling, "required_channels") THEN base
     ELSE Overlaid(base, [sampling |-> Overlaid(sampling, [required_channels |-> RequiredOf(in)])])

ValidateParams(in) ==
  IF RequiredOf(in) = Empty \/ Given(WithUris(in), "require_target_channels") THEN WithUris(in)
  ELSE Overlaid(WithUris(in), [require_target_channels |-> RequiredOf(in)])

\* The model of the task's parameters, else the run's.
PredictParams(in) ==
  LET Resolved(key, field) == IF Given(in.params, key) THEN in.params[key]
                              ELSE IF in.model = None THEN None ELSE in.model[field]
  IN Overlaid(BaseParams(in), [model_id |-> Resolved("model_id", "id"),
                               model_version |-> Resolved("model_version", "version")])

\* The parameters of a task's job; None when building them raises.
JobParams(id, in) ==
  CASE id = "build_scenes" -> BuildScenesParams(in)
    [] id \in {"register_scene", "profile_scene"} -> WithUris(in)
    [] id = "validate_scene" -> ValidateParams(in)
    [] id = "predict_detection" -> PredictParams(in)
    [] id = "evaluate_detection" ->
         IF Value(in.refs, "inference_run_id") = None THEN None
         ELSE Overlaid(BaseParams(in), [inference_run_id |-> in.refs.inference_run_id])
    [] id = "score_scenario_readiness" ->
         Overlaid(BaseParams(in), [scenario_set_id |-> Value(in.refs, "scenario_set_id"),
                                   scenario_set_uri |-> Value(in.refs, "scenario_set_uri")])
    [] OTHER -> BaseParams(in)

\* What the parameter models require, and what a handler then raises without.
DatasetIds == {"dataset_id", "dataset_version"}
RequiredParams(id) ==
  CASE id = "ingest_scenes" -> DatasetIds \union {"source_root_uri"}
    [] id = "predict_detection" -> DatasetIds \union {"model_id", "model_version"}
    [] id = "evaluate_detection" -> DatasetIds \union {"inference_run_id"}
    [] id \in {"build_dataset_manifest", "mine_scenarios"} -> DatasetIds
    [] id = "score_scenario_readiness" -> {"scenario_set_uri"}
    [] OTHER -> {}

Acceptable(id, params) == params # None /\ \A key \in RequiredParams(id) : Value(params, key) # None
-----------------------------------------------------------------------------
(* Results of tasks and of the run *)

EmptyBuckets == [refs |-> NoDict, summary |-> NoDict, metrics |-> NoDict, artifacts |-> NoDict]

\* normalize_task_outputs: what the job gave, under the declared targets; no
\* output of the built-in pipelines is required or has a default.
Normalized(task, raw) ==
  [b \in DOMAIN EmptyBuckets |->
     LET given == {o \in Outputs[task.id] : task.declares /\ o.kind = b /\ Value(raw, o.source) # None}
     IN [t \in {o.target : o \in given} |-> raw[(CHOOSE o \in given : o.target = t).source]]]

\* PipelineQualityGate: a task that has a rule and a result.
Blocks(task, result) ==
  /\ task.declares /\ task.id \in GatedTasks /\ result # None
  /\ Value(result.summary, "should_block_pipeline") = TRUE

\* build_pipeline_result_from_task_runs: of a key that several tasks set the
\* last task's value; a task without result, but with a job, is listed.
RunResult(rows, status) ==
  LET sorted == StableSort(rows, LAMBDA r : r.order)
      finished == Filter(sorted, LAMBDA r : r.result # None)
      Merged(bucket) == FoldLeft(LAMBDA acc, r : Overlaid(acc, Present(r.result[bucket])), NoDict, finished)
  IN [status |-> status, taskCount |-> Len(rows),
      counts |-> [s \in {"succeeded", "skipped", "blocked", "failed"} |->
                    CountIn(rows, LAMBDA r : r.status = s)],
      outputs |-> Merged("refs"), metrics |-> Merged("metrics"), artifacts |-> Merged("artifacts"),
      tasks |-> Mapped(Filter(sorted, LAMBDA r : r.result # None \/ r.job # None), LAMBDA r : r.id)]
=============================================================================
