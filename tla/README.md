# Verification of the SceneOps platform

TLA+ models of the platform: its orchestration (how jobs and pipeline runs are
queued, delivered, executed, retried and recorded), what its jobs leave in
database and artifact store, and what they compute; the TLC runs that check
the models on small instances, and TLAPS proofs for instances of any size.

    tlc -config MCJobAnyClient.cfg MCJobLifecycle.tla
    tlapm JobLifecycleProofs.tla

`PROJECT.json` lists every run with its properties, maps each definition to the
source lines it models, and lists findings, hazards and theorems.

## The system

SceneOps turns raw sensor logs into scenes, validates and profiles them, runs
and evaluates detectors on them and mines scenarios. Work is described as
*jobs*, and *pipeline runs* that are ordered lists of tasks, each executed as a
job. The parts, their state, and what is hard about them:

| part | state | operations | what makes it correct, and hard |
|---|---|---|---|
| API job platform (`apps/api/app/platform/jobs`) | `jobs`, `job_events` rows | create, execute (check, mark queued, commit, send, record, commit) | saves are an unlocked SELECT and an UPDATE of some columns, and race with the workers; several commits, any of which may fail |
| API pipeline platform (`platform/pipelines`) | `pipeline_runs`, `pipeline_task_runs` | create with all task rows, execute | the same races; BLOCKED and FAILED runs may be executed again |
| Execution backends (`platform/executions`) | `execution_records` | `send_task` and a record | the send and the record are not one transaction |
| Celery (`execution/celery_factory.py`, `tasks/*`) | messages in Redis | deliver, acknowledge late, requeue on worker loss, retry three times | at-least-once delivery: two messages for one job |
| Job runner (`worker/jobs/runner.py`) | the job's row and a manifest in memory | claim, start, step, handler, complete, fail | one conditional UPDATE decides who runs; errors between commits |
| Pipeline runner (`worker/pipelines/*`) | run and task rows, copies in memory | load, start, per task: prepare, skip, dependencies, inputs, start, job, record, gate; finish | nothing claims a run; the gate comes after a commit; retries resume in the middle |
| Run-record handlers (`worker/jobs/base.py`) | a run record per job, artifacts | RUNNING upsert, execute, SUCCEEDED or FAILED upsert | artifacts outlive a rollback; job and record commit apart |
| Dataset and scene jobs (`worker/jobs/dataset`) | scene rows, dataset versions, manifests in storage | register, validate, profile, index, build manifest | read-modify-write by concurrent pipelines; artifact written before the row |
| Inference and evaluation jobs (`jobs/inference`, `jobs/evaluation`, `runs/artifacts.py`) | run records, prediction and evaluation files, artifact rows | predict, evaluate | files outlive a rollback and are named by the run; the record is checked once, the files are read later |
| Scenario jobs (`jobs/scenarios`) | scenario sets | mine, score | what is called ready has to be fit |
| Pipeline data flow (`input_resolver`, `planning`, `quality_gate`, `result_*`, `builtin.py`) | none | parameters of jobs, result buckets, gate rules | later task wins; None never overrides; the names on both sides must meet |
| Standalone execution (`worker/cli`, `job_watcher`) | none | run one task, poll a job until terminal | a job that ends between the last poll and the deadline, or never |
| Scene building (`scenes/building`) | none | segmentation, anchors, association, resolution, assembly | boundaries of time, a shared pool of frames, reports added up |
| Validation, profiling, selection (`scenes/*`) | none | verdict, coverage, choice of scenes | three judges that each resolve references again |
| Ingestion (`datasets/ingestion`) | none | scenes from a source, raw log from a source | two routes that should lead to the same scenes |
| Detection backends and evaluator (`inference/detection`, `evaluation/detection`) | none | predict, lift to 3D, match, accumulate | counts that must carry over from file to file |
| Quality endpoints and leaderboard (`domains/scenes`, `domains/datasets`, `views/leaderboards`) | none | readiness, pages, ranking | verdicts on what has since been replaced |
| Inference server (`apps/inference-server`) | semaphore, active counter, warm-up state | startup, detect, ready, shutdown | counter and semaphore under errors, clients that give up, and shutdown |
| Database and storage packages | rows, files | updates of the columns that differ from an unlocked SELECT, conditional update, read, write | sessions commit where the runners say so |
| other API domains and views, migrations, scripts | rows | reads, single-row writes | no protocol |

API and workers share only the database, the broker and the artifact store.
Inside a pipeline worker, `PipelineRunner` calls `PipelineTaskRunner`, which
calls `JobRunner` in the same process and database session.

## Modules

| module | models |
|---|---|
| `JobLifecycle` | one job: API, broker and job workers, down to each commit |
| `AbstractJob` | what that promises: a status with a few edges, and at most one holder |
| `MCJobLifecycle` | the instances TLC checks |
| `JobLifecycleProofs` | proofs about `JobLifecycle`: types, claims, mutual exclusion, refinement, steps, orphans, outcomes, events |
| `PipelineExecution` | one pipeline run: API, broker and pipeline workers, down to each read and commit |
| `AbstractPipeline` | what that promises: tasks passed in order, once, none behind a closed gate |
| `MCPipelineExecution` | the pipelines TLC checks |
| `PipelineExecutionProofs` | proofs about `PipelineExecution`: for any clients types, orphans and inputs of jobs; for one call at a time task rows, order, finality, lineage, gates and the refinement |
| `SceneCatalog` | what ingestion runs do to one dataset version: files, rows, run records, quality cache, index and manifest |
| `MCSceneCatalog` | the batches TLC checks |
| `DetectionRuns` | the jobs `predict_detection` and `evaluate_detection` at work on records, files and artifact rows |
| `DetectionRunsProofs` | the proofs about `DetectionRuns` |
| `JobWatcher` | a poller with a deadline, composed with `AbstractJob` |
| `InferenceServer` | the GroundingDINO server and its clients |
| `MCLiveness` | job, watcher and server on small instances, with their fairness |
| `Lists` | Python's lists and dictionaries: stable sort, first minimum, comprehensions, unpacking |
| `ListsProofs` | what these operators return, induction, and loops over a list as chains of states |
| `SceneBuilding` | from frames to scenes |
| `SceneQuality` | what validator, profiler and selector say of a scene (extends `SceneBuilding`) |
| `Ingestion` | the two routes from a source to scenes (extends `SceneQuality`) |
| `DetectionInference` | the three backends and the run's counts (extends `SceneQuality`) |
| `DetectionEvaluation` | the center-distance evaluator |
| `EvaluationViews` | what is kept of an evaluation, and the leaderboard (extends `DetectionEvaluation`) |
| `PipelineData` | definitions, parameters, results and gates of pipelines as dictionaries |
| `Scenarios` | mining and readiness |
| `SceneViews` | rows and runs of scenes, and the quality endpoints over them |
| `DataFlow` | composes the eight modules of functions, and states what must hold between them |
| `DataFlowProofs` | proofs about `DataFlow`: segments, mining and readiness |
| `QualityProofs` | proofs about `DataFlow`: the quality views |
| `MCDataFlow` | the jobs of `DetectionRuns`, and the inputs of `DataFlow`, that TLC checks |

### JobLifecycle

`row` is the row of the job (`jobs` table) and `worker[w].copy` the manifest a
worker keeps; `request[r].copy` is the row that `validate_executable` returned
inside `mark_queued`. One action is what other processes can see at once: a
statement that reads, or a commit with what was written before it.

A save of the row (`PostgresJobRepository.update`) is two actions. Its SELECT
(`ReadForQueued`, `ReadForSave`) takes no lock; what it finds is kept in `seen`.
Its UPDATE (`MarkQueued` for the API, `Save` for the workers) then writes the
columns in which the copy in memory differs from `seen` and leaves the others as
they are by then (`Column`, `Saved`), and the copy is refreshed from the row. So
two parties whose saves overlap may leave a row that none of them had in memory:
a status of one, a step list of the other. Step lists carry times, which are
left out; a list that looks like the one seen may therefore be written or not
(`SavedSteps`).

- `ValidateExecutable`, `ReadForQueued`, `MarkQueued`, `SendTask`,
  `RecordExecution` are `JobDispatchFacade.dispatch`: the read, the save with the
  first commit, `send_task`, the second commit. `RequestFault` raises in any of
  them.
- `Claim` is `claim_for_run` and its commit, `LockedEvent` the second commit of
  `_prepare_execution`; `StartJob`, `StartedEvent`, `StartStep`,
  `ExecuteHandler`, `CompleteJob`, `SucceededEvents`, `FailExecution`,
  `FailedEvents` are the commits of `JobRunner.run` in their order.
- `FaultInTry` and `FaultOutsideTry` are an error in a transaction, in and out
  of `run`'s `try`. The manifest in memory keeps what was assigned to it before
  the save that failed.
- `Deliver`, `Raise`, `Return`, `Crash`, `Redeliver` are Celery as configured
  by `celery_factory` and the task decorators: late acknowledgement, a new
  attempt after a raise, the message back in its queue after a lost worker, and
  the broker's redelivery after its visibility timeout. The broker is external.

### PipelineExecution

`run` and `tasks` are the rows of the run and its tasks, `jobs` the jobs that
tasks created. `runner[w]` holds the copies a runner keeps: the run it loaded,
the task row it works on, the inputs it resolved. A result is abstracted to the
job it came from and to what the quality rules say of it; the run's result to
the results of its tasks. `inputs[d]` of a job names the job whose result it was
given for dependency `d`, which is what lineage is about.

The reads are actions of their own (`PrepareTask`, `ValidateDependencies`,
`ResolveInputs`, `ListTaskRuns`), because other runners write between them and
the saves. Saves are in two actions here as well: the SELECT (`ReadForQueued`,
`ReadRunForSave`, `ReadTaskForSave`, kept in `seen`, `seenRun` and `seenTask`) and
the UPDATE of the columns that differ from it (`SavedRun`, `SavedTask`). The copy
of a task row is refreshed from the row (`SavedRow`), other runners' columns
included. `TaskOver` and `Over` drop what a finished execution held in memory. `FinishJob` abstracts `JobRunner.run`, which `JobLifecycle` models.
An error strikes in one of three places: in the task runner's `try`
(`FaultInTask`: rolled back, the task FAILED), outside of it but in the pipeline
runner's (`FaultInLoop`), or outside both (`FaultOutside`). `FaultInLoop` has two
outcomes, because the `except` clause lists the tasks *before* it rolls back.

### SceneCatalog

The level above: runs of the two ingestion pipelines (`ingest_scenes` or
`build_scenes`, then `register_scene`, `validate_scene`, `profile_scene`,
`build_scene_index`, `build_dataset_manifest`) on one dataset version. `files`
are the scene manifests in the artifact store, `scenes` the scene rows,
`version` the row of the version with its status, count and quality cache,
`records` the run records of validation and profile jobs, `index` and `manifest`
the two derived files. `run[p]` says where run `p` stands and what its handler
has read; what `PipelineExecution` says of runners is taken as given: one worker
per run, tasks in order, a failed or blocked run continues where it stopped.
The actions follow the jobs:

- `GetVersionToIngest`, `BeginIngest`, `WriteSceneManifest`, `CommitIngest`:
  the version is read, saved as INGESTING and as INGESTED in one transaction,
  which holds the lock on the row (`holder`) while the files are written. So no
  other transaction ever sees INGESTING.
- `RegisterScenes`: all rows in one commit, written anew (`replace_existing` is
  true in both pipelines; a re-registered scene is BUILT again).
- `StartRecord`, `LoadScenes`, `ReadVersion`, `CommitRecord`: a
  `RunRecordJobHandler`, first its RUNNING record, then everything else in one
  commit. `update_quality_cache` writes the columns that differ from what it
  read (`Flush`), as SQLAlchemy's unit of work does.
- `ListScenes`, then `WriteSceneIndex` or `WriteDatasetManifest`, `GetVersion`
  and `SaveVersion`: the derived files. `save_version` writes back all columns.
- `RecordTask`: the job and its task are recorded, and the gate looks at the
  validation's verdict. An error up to here runs the whole task again.
- `JobFails`, `JobFailsTwice`, `WorkerLost`: the transaction is gone, the files
  are not. The record is saved as FAILED, unless that fails as well.

A manifest's content is good or bad, which is what the validator finds.
`scenes[s].content` remembers what was registered and `checked[s]` what the
latest committed validation found in the file, so that a verdict can be compared with its
object. The version row exists from the start (`create_dataset_version`).

`DisciplinedClient` here is a client that starts a run on a version only when no
other is at work, and does not execute an old run again once a later one has
begun. Without it there are the races of `catalog_vanish`, and an old failed run,
executed again, registers its scenes under a version that is READY.

### DetectionRuns

`records` are the rows of inference and evaluation runs, `predictions` and
`reports` their files, `artifacts` the rows that list files, `job[j]` where a job
stands. A file is abstracted to the attempt that wrote it.

- `Execute`, `Begin`, `BeginFails`, `Fail`, `FailUnrecorded`, `Close`, `Crash` are
  the frame of `RunRecordJobHandler.run` inside `JobRunner.run`.
- `PreparePrediction`, `WriteSample`, `WritePredictionManifest`,
  `WriteRunManifest`, `SucceedPrediction` are the prediction: one file per step,
  then the artifact rows and the record in one commit.
- `PrepareEvaluation`, `LoadPredictions`, `EvaluateShard`, `WriteEvaluation`,
  `WriteMetrics`, `SucceedEvaluation` are the evaluation, which checks the
  inference record first and reads its files one by one.

A run id has one execution. `build_initial_record` leaves `created_at` empty;
when the row exists, the upsert is an UPDATE that sets the column to NULL, which
the column refuses. So a job that is executed again after its RUNNING record was
committed, or a second job with the same run id, fails before it touches a file
(`BeginFails`). Nothing in the code says that this is meant, but
`RecordMatchesFiles` and `EvaluatesOneAttempt` rest on it: the mutant
`BeginReplaces` shows what comes of an upsert that works. Pipelines give each
attempt of a task a new job, hence a new run id.

### JobWatcher and InferenceServer

`JobWatcher` extends `AbstractJob`: the job may end between the poll and the look
at the clock (`CheckDeadline`), stay RUNNING for ever, or be executed again while
it is watched. The row that is read decides (`Seen`); a row that is missing is a
timeout, as in the code.

`InferenceServer` has one action per stretch between two awaits of the event
loop: `Load`, `WarmUp`, `Stop`, `Stopped`, `Crash` are the process and its
`lifespan`, `Post`, `Resume`, `InferenceEnds` the handler of `detect`. A released
permit is handed to the first in the queue (`granted`), as asyncio's semaphore
does. The clients are the inference runs: `GiveUp` is their HTTP timeout, of which
the handler does not learn, so a request of the past holds its permit until its
inference ends. What uvicorn does at a stop (it waits for the open handlers
before `lifespan` goes on) is external; it is why no handler meets the cleared
globals.

### The functions and DataFlow

The handlers' computations have no state of their own. They are modelled as
functions over small data: a frame is a record of id, time, channel, sequence and
sensor, times are integers, positions are points on a line, a JSON dictionary is
a function, a URI is the pair of task and key it comes from, and names that the
code sorts are integers. Arguments and order of evaluation are the code's.

`DataFlow` has two variables: `input`, one input of one kind, which the initial
state chooses, and `output`, what the handlers make of it. An action per kind takes
the input through the handlers that work on it one after the other, as jobs of a
pipeline do, and puts down what each of them gave; the properties relate input and
output. What the functions are checked for is not their result on a case, which
unit tests have, but that parts that know nothing of each other agree:

| kind, action | path through the code | property |
|---|---|---|
| `segments`, `CutLog` | `SceneSegmenter.segment` | `SegmentsCover` |
| `build`, `BuildScenes` | `SceneBuilder.build`, then validator, profiler, lifting | `SamplesFaithful`, `ReportAgrees`, `JudgesAgree` |
| `source`, `IngestAndBuild` | `ingest_scenes`, against raw log and `build_scenes` | `RoutesAgree` |
| `detect`, `PredictAndEvaluate` | sample selection, backend, prediction files, evaluator, the run's row, leaderboard | `CountsCarryOver` |
| `flow`, `RunPipeline` | `create_pipeline_run`, input resolution, planning, outputs, gate, run result, over every available pipeline | `RunIsWired` |
| `mine`, `MineAndScore` | `mine_scenarios`, `score_scenario_readiness` | `ReadyMeansFit` |
| `views`, `ServeViews` | register, validate and profile jobs in any order, quality endpoints, mining | `QualityIsCurrent` |

`SceneViews` overlaps `SceneCatalog` on purpose: `SceneCatalog` has the
interleavings, failures and files of two runs and one verdict per batch;
`SceneViews` has whole jobs, one after another, with rows, runs and counts per
scene, which is what the endpoints read.

### The client

`execute` may be called at any time, and nothing serialises calls on one job.
What the platform guarantees differs, so `DisciplinedClient` is a constant:
FALSE is any client, and TRUE a client that makes one call at a time and waits
for the messages of its last one:

- in `JobLifecycle` it calls while no call is open, and not while a message for
  the job is live (in a queue or with a worker) and the job can still be claimed;
- in `PipelineExecution`, where nothing claims a run, it calls while no call is
  open and no message of the run is live.

The properties of the first kind hold for any client, those of the second need
the discipline, and the violation runs `job_dispatch_comment` and
`pipeline_redelivery` show what goes wrong without it, or without a broker that
delivers once.

## Runs

| run | question | bounds |
|---|---|---|
| `job_any_client` | what survives any client, error, crash and redelivery | 2 calls, 2 workers, 2 steps, 1 retry, 1 each of error, crash, redelivery |
| `job_one_client` | what a disciplined client gets, and that it is `AbstractJob` | 3 calls, 2 workers, 2 steps, 1 retry, 1 each of error, crash, redelivery |
| `liveness` | a queued job ends; a watcher's wait ends; a request ends, and permits and counter add up | job: 2 calls of any client, 2 workers, 1 step, 1 retry, 1 redelivery, no error or crash; server: 2 clients, 1 permit, 2 requests each, 1 crash, warmup enabled and required; watcher: failures are raised |
| `job_dispatch_comment` | *violated*: the facade's comment, with two overlapping calls | 2 calls, no failures |
| `pipeline_any_client` | what survives two runners on one run | 2 calls, 2 runners, 2 tasks, the first gated, 1 error |
| `pipeline_faults` | task rows, results and lineage over failed attempts | 2 calls, 3 tasks, gate on the second, 1 retry, 1 error, 1 crash |
| `pipeline_gates` | order, gates and refinement of `AbstractPipeline` | 2 calls, 4 tasks, a gate, an optional task, 1 retry, 1 crash |
| `pipeline_liveness` | a queued run ends | 1 call, 2 runners, 1 gated task, 1 redelivery, no retry, error or crash |
| `pipeline_redelivery` | *violated*: the gate, with two runners on one run | 1 call, 2 runners, 2 tasks, 1 retry, 1 redelivery |
| `catalog_faults` | rows, records, cache and files after failed, blocked and lost runs | 2 runs, 3 scenes (one in both batches), 3 executions each, 2 errors, 1 crash |
| `catalog_vanish` | *violated*: no scene vanishes, with two runs at once | 2 runs, 1 scene each, no failures |
| `data_flow` | records and files over executions; agreement of what the handlers compute | 2 predictions and 2 evaluations with one run id each, 2 samples, 2 executions per job; 42,116 inputs of 7 kinds |

Why these are enough: the races are between two parties, so two calls and two
workers show them, and a third call re-executes what the first two left. A
single error, crash and redelivery meet each other and every step; the code
treats a second retry like the first (the code has three). Two steps are the
fewest with which "first pending step" matters; for the end of a job one does.
A second runner on a run comes from a second call in `pipeline_any_client`, and
from a redelivery in `pipeline_liveness`. The pipelines are cut from the
built-in ones (produce, validate behind a gate, optional profile, build from
all): each kind of task is present once. In `pipeline_faults` and
`pipeline_gates` one runner suffices, because with a disciplined client and
without redelivery at most one message is ever live. Safety runs use the
symmetry of calls and workers; liveness runs use none. Deadlock is not checked:
a system with no more calls to make stops.

In `catalog_faults` the batches share a scene, so that a run meets rows, verdicts
and files of an earlier one as well as scenes it does not touch; one run has the
optional profile task and the other has not; two errors are the fewest with
which the save of a failure fails too, and three executions let a run be
blocked, fail and succeed.

In `data_flow` two jobs per type with one run id are the fewest that compete for
files, two samples the fewest with which a run is half written or differs from an
earlier one; jobs of a type differ only in name, so the run uses their symmetry. The
inputs are built from every combination of a few parts, each
part there to meet a branch: all logs of four frames over three times with and
without sequence, under nine segmentations (four frames make two windows of two,
or a gap on each side); subsets of three camera and four lidar frames whose
distances lie at, below and above the tolerances, with three sets of calibrations
and poses and seven configurations of sampling; two source scenes with channels
missing or of a rig that moves; two scenes with and without truth, file and lidar
against three backends, with detections at, within and beyond the limit; every
available pipeline with request parameters that name the keys that tasks hand
on; three catalogue scenes in all statuses under seven minings; and all
sequences of four jobs on two registered scenes. In `liveness` one permit for two
clients is the limit at which requests wait, and the job, the server and the
watcher each run alone in a behaviour (`part`), since nothing connects their
liveness.

`queue` counts messages and `claims`, `jobs` grow with attempts, so all of them
are bounded by the calls, retries, crashes and redeliveries.

### What the runs show

For any client: no retry, redelivery or crash adds an execution of a job
(`ClaimsBounded`); a failure to write the success events leaves one outcome on
record (`OneOutcomePerClaim`); a job or a run is left RUNNING with nobody at work
only after a failure (`OrphanOnlyAfterFailure`); and jobs take their inputs only
from jobs that SUCCEEDED (`JobInputsSucceeded`).

For a disciplined client: one worker holds a job (`MutualExclusion`), the step
list follows the row (`StepsFollowJob`), the last
event agrees with the row (`EventsTellTheTruth`), RUNNING and SUCCEEDED jobs are
never put back to QUEUED (`WorkerStateNotOverwritten`); a SUCCEEDED task row is
that of one execution (`TaskRowConsistent`), lineage is whole
(`LineageConsistent`), a SUCCEEDED run is complete and final
(`SucceededIsComplete`, `SucceededIsFinal`); and, when no transaction fails,
nothing runs behind a closed gate (`GateHolds`).

`StepsFollowJob` and `TaskRowConsistent` need the discipline because saves go by
columns. With two calls, one may run the SELECT of its save, the other queue the
job and a worker start it, and the first then write `status` alone: a QUEUED row
with a RUNNING step. With two runners, one may run the SELECT of its recording,
the other attach its own job, and the first then write status and result: a
SUCCEEDED row that names the one job and holds the result of the other. Both
traces are behaviours of the models under any client.

For ingestion runs one after another, whatever fails: a READY version names every
registered scene in manifest, index and count (`ReadyIsComplete`), no scene
leaves the manifest (`NoSceneVanishes`), a VALIDATED or PROFILED scene was
found good as it is registered (`ValidatedAsRegistered`), the cached verdict is that
of the run it names (`CacheIsOfItsRun`), and a record stays RUNNING without its
job only after a crash or two errors (`RunningRecordHasJob`).

For detection runs, whatever fails and is executed again: who finds a record
SUCCEEDED finds the files of that attempt (`RecordMatchesFiles`), an evaluation
has used the predictions of one attempt (`EvaluatesOneAttempt`), and artifact rows
are there exactly with a success (`RowsIffSucceeded`).

For the server: no error, restart or client that gives up loses a permit or
leaves the counter behind (`SlotsAddUp`), and what was accepted ends
(`RequestsEnd`). A wait for a job ends (`WatcherEnds`).

For the computations, over all inputs above: the properties of the table. Their
conditions are part of what they show. `SamplesFaithful` lets samples of different scenes
share frames where windows overlap (`Overlapping`). `RoutesAgree` needs a static rig, since
the builder's index keeps one calibration per sensor for the whole log.
`ReadyMeansFit` has an alternative for scenes that were not validated, which the
score can lift to "ready". `QualityIsCurrent` needs the pipelines' order, in which
only what passed the gate is profiled; without it, profiling lifts a scene that
was registered again to PROFILED, and an old verdict counts for it.
`CountsCarryOver` excepts metrics of value 0.

Three statements of the repository do not hold:

- The comment in `JobDispatchFacade.dispatch` says that committing before the
  dispatch keeps RUNNING and SUCCEEDED from being overwritten by a delayed QUEUED
  commit. It does so for the call's own message, not for that of another call
  (`job_dispatch_comment`). `PipelineDispatchFacade` has the same comment and the
  same gap.
- A blocking result stops the pipeline only if one runner is on the run. The
  task is committed as SUCCEEDED before the gate looks at it, and a second
  runner, there by a redelivery, takes that for a pass (`pipeline_redelivery`).
- `build_dataset_manifest` lists all scenes rather than its batch, so that none
  vanishes from the manifest. Two runs on one version still make one vanish: the
  list and the write are two steps, and the run that listed fewer may write last
  (`catalog_vanish`).

Observations that contradict no statement of the repository:

- `_extract_metric` of the leaderboard takes a metric of value 0 as missing
  (`or`), and cuts the page before it sorts: the order is that of a page.
  `is_descending_sort` says which way a metric is better; the API leaves that to
  the caller's `order`.
- An evaluation without ground truth is recorded as SUCCEEDED with zero counts;
  only its summary says that it was skipped.
- `validate_scene` without manifests fails the validation and leaves the quality
  cache as it was.
- In the pipelines' order the readiness "blocked" of a scene is never seen: a
  failed validation puts the scene to FAILED, and the endpoint then says
  "unknown".
- The mock and ONNX backends take samples of all scenes of the dataset, whatever
  the selection of the job's parameters says.
- No code calls `to_context_values` of the pipeline context.
- `jobs` and `pipeline_task_runs` have no version column and are not locked by
  `update`; with two calls or two runners a row can hold columns of both (above).

### Fairness

`Fairness` asks that an open request goes on, that each worker slot takes a step
when it can and takes a message when there is one: uvicorn, Celery's prefork pool
and asyncio schedule them without conditions. Nothing makes a client call, and no
fairness is put on errors, crashes and redeliveries. Under crashes a job can stay
RUNNING for ever (there is no reaper, and nothing reads `heartbeat_at`), so the
liveness runs have none; `OrphanOnlyAfterFailure` says that nothing else does it.

`WatchFairness` lets the watcher run and time pass, and asks nothing of the job.
`ServerFairness` lets the event loop run and an inference end (it is a call of a
model in a thread, without waits on others); clients, operators and crashes are
free. `MCLiveness` states its conditions under the part that runs: for server and
watcher the same, for the job a weaker one, that some request or worker goes on
when one can. It is enough because each of them takes finitely many steps, so
none can keep the others waiting.

## Proofs

All theorems are for every value of the constants that satisfies the assumption of
the module: any sets of clients, workers, tasks, scenes and so on, and any bounds
on failures. The invariants were checked by TLC on small instances like those of
the runs before they were proved. A proof has a lemma that says how a step moves
the slot of its actor and that it leaves the others alone (`OneWorkerMoves`,
`OneRunnerMoves`, `GotoForm`, `TaskMoves`), then one lemma or step per action, and
a last step by temporal logic. *Disciplined* below means under
`DisciplinedClient`.

| theorem | property | assumes |
|---|---|---|
| `JobLifecycleProofs`: `TypeCorrect`, `ClaimsAreBounded` | `TypeOK`, `ClaimsBounded` | |
| `ClientsGetMutualExclusion`, `ClientsKeepWorkerState`, `JobRefinement` | `MutualExclusion`, `WorkerStateNotOverwritten`, `ImplementsAbstractJob` | disciplined |
| `JobOrphansNeedFailures`, `ExecutionsHaveOneOutcome` | `OrphanOnlyAfterFailure`, `OneOutcomePerClaim` | |
| `StepListFollowsJob`, `ClientsSeeTrueEvents` | `StepsFollowJob`, `EventsTellTheTruth` | disciplined |
| `PipelineExecutionProofs`: `PipelinesTypeCorrect`, `OrphansNeedFailures` | `TypeOK`, `OrphanOnlyAfterFailure` | |
| `InputsComeFromSuccess` | `JobInputsSucceeded` | |
| `RowsAgreeWithJobs`, `SuccessIsFinal`, `SuccessIsComplete`, `LineageIsWhole` | `TaskRowConsistent`, `SucceededIsFinal`, `SucceededIsComplete`, `LineageConsistent` | disciplined, no early redelivery |
| `GatesHold`, `ImplementsPipeline` | `GateHolds`, `ImplementsAbstractPipeline` | the same, and no errors |
| `SceneCatalogProofs`: `CatalogTypeCorrect`, `RunningRecordsHaveJobs`, `FinishedRecordsStay` | `TypeOK`, `RunningRecordHasJob`, an action property | |
| `ReadyVersionsAreComplete`, `VerdictsAreAsRegistered`, `CachesAreOfTheirRuns`, `ScenesDoNotVanish` | `ReadyIsComplete`, `ValidatedAsRegistered`, `CacheIsOfItsRun`, `NoSceneVanishes` | disciplined |
| `DetectionRunsProofs`: `DetectionTypeCorrect`, `RecordsMatchFiles`, `EvaluationsAreOfOneAttempt`, `RowsGoWithSuccess` | `TypeOK`, `RecordMatchesFiles`, `EvaluatesOneAttempt`, `RowsIffSucceeded` | |
| `InferenceServerProofs`: `ServerInductive`, `ServerSlotsAddUp` | `SlotsAddUp` | |
| `DataFlowProofs`: `LogsAreCovered` | `SegmentsCover` | inputs as below |
| `DataFlowProofs`: `ReadinessIsFit` | `ReadyMeansFit` | inputs as below |
| `QualityProofs`: `QualityIsUpToDate` | `QualityIsCurrent` | inputs as below |

The assumptions in the last column are those of the runs that check the same
property, and each is needed: `job_dispatch_comment`, `pipeline_redelivery` and
`catalog_vanish` show what happens without a disciplined client or with an early
redelivery. Errors are excluded for the gates because a runner that fails between
the commit of a blocking result and its gate is retried past the gate; crashes are
not excluded, for a run whose runner crashed is RUNNING and runs no further.

### Jobs

Claims. The bound on claims alone is not inductive: `ClaimInv` adds
that a row that can be claimed has a QUEUED commit to spare, and that nothing is at
work before the first. The theorems for disciplined clients share `ExclInv`,
which ties the status of the row to who holds it, to the call that is open, to
its copy and to what the SELECT of a save has seen: who has read a row finds it
unchanged when it writes, because only a claim could have changed it and a claim
needs a message. So a save leaves the copy it was given (`SavesAlone`).

Outcomes. For disciplined clients, then, what is to hold of the steps of the row
must hold of the copies that workers will save: `StepsInv`. `OrphanInv`, for any
client, says that a RUNNING row has a worker that will still write it. A save
whose SELECT found the status it is to write would not write it; `SeenAtSave`,
that only a save under way has seen anything, leaves a worker whose SELECT found
or will find RUNNING. `OutcomeInv` says that
claims belong to one worker each and that a worker at work has not reported yet;
`TruthInv`, for disciplined clients, that who holds the job does so by the last
claim.

### Pipeline runs

Types and orphans. The types alone are not inductive, for a runner reads
the job its row in memory names: `JobHeld` adds that a runner that claims, executes
or records a job names one that exists. That orphans need failures rests on the
fact that only the worker that commits RUNNING puts that status there and stays in
`ActivePcs` until its own final save (`StaysActive`, `OthersStayActive`).

Inputs. These need no discipline: with any number of runners on one run a
job still has one runner, the one that created it (`OwnJobs`), a runner reads a job
only in the status `SlotOK` names, and a job that SUCCEEDED is never written again
(`JobsKept`). A save may mix columns, but a result is one column: whatever row it
ends up in, it is the result of a job of that task that SUCCEEDED, or none
(`Source`, `CameFrom` in `RowsInv`). Inputs are read from results alone.

Order. `Solo` says that there is one message or one busy runner,
never both: the reason why a run needs no claim, and the point where discipline and
redelivery come in. `RunFollows` ties the row of the run to them, and says that what the SELECT of a
save has seen is still there (`Fresh`). Hence saves are exact (`ExactRun`,
`ExactTask`), and a row that says SUCCEEDED was written by one execution (`RowsSolo`).
Then `OrderInv`:
tasks before one that was touched are done (`Prefix`), what a runner at work
believes of the tasks before and at its turn is so (`Progress`), and the inputs it
holds are the results its dependencies show. For the gates `GateInv` adds that a
blocking result has nobody at work but the runner at that gate. `ImplementsPipeline`
maps a run to its status and to the number of tasks passed, the length of the
prefix of passed tasks, which is counted by the lemmas on `Cardinality`.

### The catalog

`RecordsInv`, for any clients: the record of an attempt is new until the attempt
starts it (`NewUntilStarted`), and RUNNING while its job is at work on it
(`OpenRecordRuns`). Hence nothing writes a finished record (`FinishedRecordsStay`),
on which the cache of the version relies.

`CatalogInv`, for disciplined clients: only the run begun last is at work
(`OneAtWork`), so the copies it will write back are not stale (`CopiesAreFresh`,
with `FlushWrites`, that a flush of a fresh copy writes the whole changed row). What
the latest run has behind it still stands, also after it failed and is executed
again: of the scenes of its batch (`BatchStands`: files, rows, what was seen and
what was found) and of what is derived from all rows (`FilesStand`). The latter says
that from the commit of an ingest to the save of READY the version is not READY, so
that a registration never contradicts a READY version. Runs that are no longer the
latest may have left anything behind.

### Detection runs

None of the three properties is inductive alone; `Inv` adds what ties a handler at
work to the shared state. The assumption is that no job is of both types, inference
and evaluation runs have different ids, and an evaluation names a run of some
prediction.

- `Owner`: inside `execute` the record of the run is RUNNING and of this attempt.
  It is here that the refused second insert counts: two handlers at work never
  share a run (`Alone`), so nobody else writes their files (`OwnFiles`), and what
  has SUCCEEDED is never written again (`SuccessIsFinal`).
- `PredictionProgress`, `EvaluationProgress`: the files so far are of this attempt,
  which the last commit turns into `RecordMatchesFiles`.
- `EvaluationReads`: past its check an evaluation has a successful run before it,
  which is final, and by `RecordMatchesFiles` reads only files of its attempt.
- `RowsAreOfThePast`, `Started`: no attempt has rows before its success, so a
  FAILED record has none.

### The inference server

`ServerInv` adds to `SlotsAddUp` that the queue names every handler that waits, and
none twice (`QueueIsWaiting`), that the request a client sends next has no handler
yet (`NextIsNew`), and that a server that is down has none open (`DownIsEmpty`). Its
lemmas say that the number of handlers in a state changes by one as one moves.

### The functions

What a loop computes for every list needs induction, and the library's induction
theorems take an operator as a parameter. `ListsProofs` goes around that: a property
of numbers is given as the set of numbers that have it, and a set of naturals
without a least counterexample has none (`Induction`). A loop is a fold whose body
is the constant `Step` of that module; `Turns` is the fold, `StatesOf` the chain of
its states, and `LoopFacts` says that the chain starts at the start, makes one `Step`
per element and ends in what the fold returns, and that a loop over a prefix is a
prefix of the chain. Each loop of the model is an INSTANCE of the module with its
body for `Step`. The other lemmas say what sorted sets, comprehensions, sorts,
slices and sums return.

The properties of `DataFlow` that are proved speak of lists of any length. The
initial predicate `FlowInit` limits the inputs of these flows to what the code may
be given: `ValidMining` (types of scenes and parameters, one scene per id, counts that are not
negative), `ValidEvents` (a job is executed once, and names a scene once), `ValidBuild`
(what the schemas accept; the list of required channels names none twice) and `ValidLog`
(types; an id per frame; no two sequences with ids that differ only in "/", " " and "_",
which the segmenter would give the same segment ids: nothing in the code excludes such a log).
`NoneIsNoValue` says that no count, status or flag is taken for None.

Segments (`LogsAreCovered`). A list of lists shares out a set: it has elements of the
set only (`Within`), in no two lists (`Apart`), and all of them (`Whole`). The two
loops that cut a list are one, `CutOne`, and `CutFacts` says that it shares out what it
walks over, in lists of any kind that adding an element keeps as long as the loop does
not cut; the kinds are `Candidates` (in order of time, no gap too long, no window
exceeded) for the strategies and `Pieces` (within the limits) for the second cut
(`GapFacts`, `WindowFacts`, `LimitFacts`). Windows are no loop: `WindowOf` says in which ones a
moment lies, which is where overlaps and gaps come from. `JoinedShares` and `PickedShares` carry
the three parts through the concatenation and the filters, `GroupFacts` through the grouping and
`SegmentsFacts` through the final sort: every chunk of every group is a segment, once.

Mining (`ReadinessIsFit`). `MiningInv` says that the output is the one of the
handlers on the input and the input is valid. `MineFacts` and `ScoreFacts` say of the handlers' lists
where their elements come from and that nothing is there twice; `DensityFacts` says
what the rounded density score still tells of the numbers of annotations; `ThreeKinds` that the
three buckets add up.

Views (`QualityIsUpToDate`). What holds of the rows and runs after every prefix of
the jobs is `DbInv`: one row per scene, typed rows, and summaries of
runs that have no key "scene". `Known(db, s, w)` says what is known of the manifest
of scene `s` when `w` was its last verdict: the status of its row, the counts of
its row, and what the latest validation that names it found. Each job keeps it while
`VerdictAfter` moves `w` (`HandleFacts`, with a lemma per job), so it holds after
all of them (`AfterFacts`). The two endpoints find the latest run in two ways, by
sorting a list and by walking it, and `LatestFacts` with `SameQuality` says that they find the same
one; the rest is arithmetic on counts and pages.

Proving found four places where the statements said more than the code does: the
score is rounded, so "as many annotations" holds up to one in 3000; a row
may be flagged as having ground truth without annotations; the version's quality looks
at 10,000 scenes; and a validation whose scene is not registered, or without scenes, leaves the version's cache
with what it was. The properties say so now.

### Only model-checked

Liveness (`JobSettles`, `PipelineSettles`, `WatcherEnds`, `RequestsEnd`): fairness
and ENABLED are out of the prover's reach. Of `DataFlow`, `SamplesFaithful`, `ReportAgrees`, `JudgesAgree`, `RoutesAgree` and
`CountsCarryOver` need an inductive statement for each loop of builder, associator
and evaluator, and facts on association, totals and matching that are
not laid out yet; `RunIsWired` is the evaluation of given dictionaries, which TLC
does for all of them. There is no recursive operator in any module.

## Abstractions

- A repository's `update` is a SELECT and an UPDATE of the columns that differ,
  in one transaction and without a lock. `JobLifecycle` and `PipelineExecution`
  take it in these two steps, column by column, except for the job rows in
  `PipelineExecution`. There one step stands for the commits of a task's job, whose
  rows only the runner that created them writes. `SceneCatalog` writes the columns that
  differ from what its own reads saw. Reads whose result is used after another
  transaction are steps of their own.
- Timestamps, error texts, parameters, event payloads and worker ids are left out;
  so are CANCELLED and SKIPPED jobs, which no code writes.
- In `PipelineExecution` a job is claimed by the runner that created it; that a
  client can execute such a job while it is PENDING is a hazard listed without a
  property.
- All task rows exist from the start, since `create_pipeline_run` commits them
  with the run; `_load_or_create_task_run` never creates one then.

- In `SceneCatalog` a commit is one step with the flushes before it, and the rows
  of scenes are written as a batch. Other writers of a version (API updates, the
  scene registration pipeline, which builds no manifest) are not modelled.
  `TypeOK` there states the types of its variables and is checked by no run.
- In `DetectionRuns` the patch of the evaluation's record with the model's
  identity is uncommitted until the success and so is no step of its own.
- `DetectionInference` takes what a network finds, and which lidar points lie in a
  frustum, from the input; `SceneBuilding` takes frames with their data as read.
- In the dictionaries of `PipelineData` a value is an opaque mark of its origin,
  and default parameters that no task hands on are left out.

## Not modelled

- Storage, migrations, scripts, the command lines: input and output, or calls of
  what is modelled.
- The API's single-row creates, updates and paged lists. One of them was looked
  at: `operations/service.py` applies the offset to each type before it merges and
  cuts, so failures can be missing between pages; no comment or test says
  otherwise, and the function has no state.
- The Airflow backend, which raises `NotImplementedError`; labeling and simulation
  jobs, whose packages are empty.
- The jobs of a pipeline under `JobLifecycle`: `PipelineExecution` takes the claim
  of a task's own job as given (a hazard listed without a property).
- The scenario set's record and file, the artifact rows of the dataset jobs.

## Plan

Done: 1. `JobLifecycle`, `AbstractJob` and their proofs; 2. `PipelineExecution`,
`AbstractPipeline` and their proofs; 3. `SceneCatalog` and its proofs;
4. `DetectionRuns` and its safety proofs; 5. `InferenceServer` and `JobWatcher`;
6. `PipelineData`;
7. `SceneBuilding`, `SceneQuality`, `Ingestion`, `DetectionInference`,
`DetectionEvaluation`, `Scenarios`; 8. `SceneViews`, `EvaluationViews`.

The safety properties of all state machines, both refinements, and of `DataFlow` the
properties of segments, mining and the quality views are proved.

Left, in order of importance:

1. Of `DataFlow`, the loops of the associator and the builder (`SamplesFaithful`, then
   `ReportAgrees`), on the lemmas of `ListsProofs`.
2. An abstract catalog, a function of the set of registered scenes, for
   `SceneCatalog`, and the jobs of pipelines under `AbstractJob`.
