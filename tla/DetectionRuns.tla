---------------------------- MODULE DetectionRuns ----------------------------
(***************************************************************************)
(* The jobs predict_detection and evaluate_detection at work: the records  *)
(* of inference and evaluation runs in the database, the files of the runs *)
(* in the artifact store, and the rows of artifacts.                       *)
(*                                                                         *)
(* A job's handler commits a RUNNING record, writes files one by one, and  *)
(* commits artifact rows together with the SUCCEEDED record; an exception  *)
(* rolls back and commits a FAILED record.  Files stay when a transaction  *)
(* is rolled back.  A job that FAILED, be it after its handler was done,   *)
(* is executed again under the same id, hence with the same run id and the *)
(* same file names; a request may also give one run id to two jobs.  The   *)
(* jobs are those of JobLifecycle: at most one execution of a job at a     *)
(* time.                                                                   *)
(*                                                                         *)
(* A run id has one execution.  The first record of another one would be   *)
(* an UPDATE of the row, with created_at NULL as build_initial_record      *)
(* leaves it, which the column refuses: that execution ends as BeginFails. *)
(*                                                                         *)
(* One action is one file, one commit, or one read that a later step       *)
(* relies on.  An attempt <<job, n>> stands for the started_at of a record *)
(* and marks the files it wrote.                                           *)
(***************************************************************************)
EXTENDS Naturals, FiniteSets

CONSTANTS
    Predictors,     \* predict_detection jobs
    Evaluators,     \* evaluate_detection jobs
    RunOf,          \* RunOf[j]: the run id of a job, by default one of its own
    Judged,         \* Judged[e]: the inference run that e evaluates
    Samples,
    MaxAttempts     \* bound on the executions of each job

Jobs == Predictors \union Evaluators
InferenceRuns == {RunOf[j] : j \in Predictors}
EvaluationRuns == {RunOf[j] : j \in Evaluators}

ASSUME RunsAssumption ==
    /\ Predictors \intersect Evaluators = {}
    /\ Judged \in [Evaluators -> InferenceRuns]
    /\ InferenceRuns \intersect EvaluationRuns = {}
    /\ MaxAttempts \in Nat

VARIABLES
    records,     \* per run: its row
    predictions, \* per inference run: its files
    reports,     \* per evaluation run: its files
    artifacts,   \* the rows of artifacts
    job          \* per job: where it stands

vars == <<records, predictions, reports, artifacts, job>>

-----------------------------------------------------------------------------
(* Data *)

Nobody == <<>>
Attempts == Jobs \X (1..MaxAttempts)

\* samples: those that the run's manifest lists; read: the attempts whose
\* files an evaluation has used (auxiliary: no column of the row).
Status == {"none", "RUNNING", "SUCCEEDED", "FAILED"}
Record == [status : Status, by : Attempts \union {Nobody}, samples : SUBSET Samples,
           read : SUBSET Attempts]
NoRecord == [status |-> "none", by |-> Nobody, samples |-> {}, read |-> {}]

\* shards: who wrote the file of a sample; listed: the samples of the
\* prediction manifest; manifest, run: who wrote the manifests.
Files == [shards : [Samples -> Attempts \union {Nobody}],
          manifest : Attempts \union {Nobody}, listed : SUBSET Samples,
          run : Attempts \union {Nobody}]
NoFiles == [shards |-> [s \in Samples |-> Nobody], manifest |-> Nobody, listed |-> {}, run |-> Nobody]

\* The files of an evaluation: per sample, evaluation.json, metrics.json.
Report == [shards : [Samples -> Attempts \union {Nobody}],
           manifest : Attempts \union {Nobody}, metrics : Attempts \union {Nobody}]
NoReport == [shards |-> [s \in Samples |-> Nobody], manifest |-> Nobody, metrics |-> Nobody]

Points == {"begin", "prepare", "write", "runManifest", "load", "read", "metrics", "commit", "close"}
AtRest == {"created", "failed", "lost", "succeeded"}

\* todo: the samples still to write, or to evaluate; all: what the manifest
\* will list, or has listed; read: the attempts whose files were read.
Progress == [pc : Points \union AtRest, attempt : 0..MaxAttempts, todo : SUBSET Samples,
             all : SUBSET Samples, read : SUBSET Attempts]
NewJob == [pc |-> "created", attempt |-> 0, todo |-> {}, all |-> {}, read |-> {}]

Working(j) == job[j].pc \in Points
At(j, kind, pc) == j \in kind /\ job[j].pc = pc
Me(j) == <<j, job[j].attempt>>
Goto(j, pc) == job' = [job EXCEPT ![j].pc = pc]
Rest(j, pc) == job' = [job EXCEPT ![j] = [NewJob EXCEPT !.pc = pc, !.attempt = job[j].attempt]]

Init ==
    /\ records = [r \in InferenceRuns \union EvaluationRuns |-> NoRecord]
    /\ predictions = [r \in InferenceRuns |-> NoFiles]
    /\ reports = [r \in EvaluationRuns |-> NoReport]
    /\ artifacts = {}
    /\ job = [j \in Jobs |-> NewJob]

-----------------------------------------------------------------------------
(* RunRecordHandler.run *)

\* The job is claimed: for the first time, or executed again.
Execute(j) ==
    /\ job[j].pc \in {"created", "failed"}
    /\ job[j].attempt < MaxAttempts
    /\ job' = [job EXCEPT ![j].pc = "begin", ![j].attempt = @ + 1]
    /\ UNCHANGED <<records, predictions, reports, artifacts>>

\* Variant: the record of an earlier execution is replaced.
BeginReplaces(j) ==
    /\ job[j].pc = "begin"
    /\ records' = [records EXCEPT ![RunOf[j]] = [NoRecord EXCEPT !.status = "RUNNING", !.by = Me(j)]]
    /\ Goto(j, "prepare")
    /\ UNCHANGED <<predictions, reports, artifacts>>

\* The RUNNING record is inserted and committed before the work.
Begin(j) ==
    /\ job[j].pc = "begin"
    /\ records[RunOf[j]] = NoRecord
    /\ records' = [records EXCEPT ![RunOf[j]] = [NoRecord EXCEPT !.status = "RUNNING", !.by = Me(j)]]
    /\ Goto(j, "prepare")
    /\ UNCHANGED <<predictions, reports, artifacts>>

\* An exception before that, or of an insert or update that is refused, leaves
\* no trace in the records: it is raised outside of the try.
BeginFails(j) ==
    /\ job[j].pc = "begin"
    /\ Rest(j, "failed")
    /\ UNCHANGED <<records, predictions, reports, artifacts>>

InExecute(j) == Working(j) /\ job[j].pc \notin {"begin", "close"}

\* Variant: the artifact rows are not rolled back.
FailKeepsRows(j) ==
    /\ InExecute(j)
    /\ records' = [records EXCEPT ![RunOf[j]] = [NoRecord EXCEPT !.status = "FAILED", !.by = Me(j)]]
    /\ artifacts' = IF job[j].pc = "commit" THEN artifacts \union {<<RunOf[j], Me(j)>>} ELSE artifacts
    /\ Rest(j, "failed")
    /\ UNCHANGED <<predictions, reports>>

\* An exception in execute, or in the last commit: FAILED is upserted from the
\* initial record.
Fail(j) ==
    /\ InExecute(j)
    /\ records' = [records EXCEPT ![RunOf[j]] = [NoRecord EXCEPT !.status = "FAILED", !.by = Me(j)]]
    /\ Rest(j, "failed")
    /\ UNCHANGED <<predictions, reports, artifacts>>

\* And when that commit raises too, the record stays RUNNING.
FailUnrecorded(j) ==
    /\ InExecute(j)
    /\ Rest(j, "failed")
    /\ UNCHANGED <<records, predictions, reports, artifacts>>

\* The artifact rows and the SUCCEEDED record, in one transaction.
Succeed(j, record) ==
    /\ records' = [records EXCEPT ![RunOf[j]] = record]
    /\ artifacts' = artifacts \union {<<RunOf[j], Me(j)>>}
    /\ Goto(j, "close")
    /\ UNCHANGED <<predictions, reports>>

\* The job itself is closed, or fails to be.
Close(j) ==
    /\ job[j].pc = "close"
    /\ \E pc \in {"succeeded", "failed"} : Rest(j, pc)
    /\ UNCHANGED <<records, predictions, reports, artifacts>>

\* The worker is lost: nobody touches the job again.
Crash(j) ==
    /\ Working(j)
    /\ Rest(j, "lost")
    /\ UNCHANGED <<records, predictions, reports, artifacts>>

-----------------------------------------------------------------------------
(* PredictDetectionJobHandler.execute *)

\* Model and version are fit; the samples are chosen from the dataset's
\* manifest, which need not be the one of an earlier attempt.
PreparePrediction(p) ==
    /\ At(p, Predictors, "prepare")
    /\ \E chosen \in SUBSET Samples :
         job' = [job EXCEPT ![p].pc = "write", ![p].todo = chosen, ![p].all = chosen]
    /\ UNCHANGED <<records, predictions, reports, artifacts>>

WriteSample(p) ==
    /\ At(p, Predictors, "write")
    /\ \E s \in job[p].todo :
         /\ predictions' = [predictions EXCEPT ![RunOf[p]].shards[s] = Me(p)]
         /\ job' = [job EXCEPT ![p].todo = @ \ {s}]
    /\ UNCHANGED <<records, reports, artifacts>>

\* predictions/manifest.json, when the last shard is written.
WritePredictionManifest(p) ==
    /\ At(p, Predictors, "write")
    /\ job[p].todo = {}
    /\ predictions' = [predictions EXCEPT ![RunOf[p]].manifest = Me(p), ![RunOf[p]].listed = job[p].all]
    /\ Goto(p, "runManifest")
    /\ UNCHANGED <<records, reports, artifacts>>

\* manifest.json of the run.
WriteRunManifest(p) ==
    /\ At(p, Predictors, "runManifest")
    /\ predictions' = [predictions EXCEPT ![RunOf[p]].run = Me(p)]
    /\ Goto(p, "commit")
    /\ UNCHANGED <<records, reports, artifacts>>

SucceedPrediction(p) ==
    /\ At(p, Predictors, "commit")
    /\ Succeed(p, [status |-> "SUCCEEDED", by |-> Me(p), samples |-> job[p].all, read |-> {}])

-----------------------------------------------------------------------------
(* EvaluateDetectionJobHandler.execute *)

\* Variant: any inference run that has a record will do.
PrepareUnchecked(e) ==
    /\ At(e, Evaluators, "prepare")
    /\ records[Judged[e]].status # "none"
    /\ Goto(e, "load")
    /\ UNCHANGED <<records, predictions, reports, artifacts>>

\* The inference run must have SUCCEEDED; otherwise Fail.  (The evaluation's own
\* record then gets the model's identity, uncommitted until Succeed.)
PrepareEvaluation(e) ==
    /\ At(e, Evaluators, "prepare")
    /\ records[Judged[e]].status = "SUCCEEDED"
    /\ Goto(e, "load")
    /\ UNCHANGED <<records, predictions, reports, artifacts>>

LoadPredictions(e) ==
    LET f == predictions[Judged[e]]
    IN /\ At(e, Evaluators, "load")
       /\ f.manifest # Nobody
       /\ job' = [job EXCEPT ![e].pc = "read", ![e].todo = f.listed, ![e].all = f.listed,
                             ![e].read = {f.manifest}]
       /\ UNCHANGED <<records, predictions, reports, artifacts>>

\* A shard is read, evaluated, and its evaluation written.
EvaluateShard(e) ==
    /\ At(e, Evaluators, "read")
    /\ \E s \in job[e].todo :
         /\ predictions[Judged[e]].shards[s] # Nobody
         /\ job' = [job EXCEPT ![e].todo = @ \ {s},
                               ![e].read = @ \union {predictions[Judged[e]].shards[s]}]
         /\ reports' = [reports EXCEPT ![RunOf[e]].shards[s] = Me(e)]
    /\ UNCHANGED <<records, predictions, artifacts>>

\* evaluation.json, then metrics.json.
WriteEvaluation(e) ==
    /\ At(e, Evaluators, "read")
    /\ job[e].todo = {}
    /\ reports' = [reports EXCEPT ![RunOf[e]].manifest = Me(e)]
    /\ Goto(e, "metrics")
    /\ UNCHANGED <<records, predictions, artifacts>>

WriteMetrics(e) ==
    /\ At(e, Evaluators, "metrics")
    /\ reports' = [reports EXCEPT ![RunOf[e]].metrics = Me(e)]
    /\ Goto(e, "commit")
    /\ UNCHANGED <<records, predictions, artifacts>>

SucceedEvaluation(e) ==
    /\ At(e, Evaluators, "commit")
    /\ Succeed(e, [status |-> "SUCCEEDED", by |-> Me(e), samples |-> job[e].all, read |-> job[e].read])

-----------------------------------------------------------------------------
Run(j) == Begin(j) \/ BeginFails(j) \/ Fail(j) \/ FailUnrecorded(j) \/ Close(j) \/ Crash(j)
Predict(p) == PreparePrediction(p) \/ WriteSample(p) \/ WritePredictionManifest(p) \/ WriteRunManifest(p)
              \/ SucceedPrediction(p)
Evaluate(e) == PrepareEvaluation(e) \/ LoadPredictions(e) \/ EvaluateShard(e) \/ WriteEvaluation(e)
               \/ WriteMetrics(e) \/ SucceedEvaluation(e)

Next == \E j \in Jobs : Execute(j) \/ Run(j) \/ Predict(j) \/ Evaluate(j)

Spec == Init /\ [][Next]_vars
-----------------------------------------------------------------------------
(* Properties *)

\* Records, files, artifact rows and the jobs' progress have their types.
TypeOK ==
    /\ records \in [InferenceRuns \union EvaluationRuns -> Record]
    /\ predictions \in [InferenceRuns -> Files]
    /\ reports \in [EvaluationRuns -> Report]
    /\ artifacts \subseteq ((InferenceRuns \union EvaluationRuns) \X Attempts)
    /\ job \in [Jobs -> Progress]

\* Whoever reads the record of a run that SUCCEEDED finds the files of that very
\* attempt: manifests and all the shards they list, none of another attempt or
\* of another job with the same run id, although all write to the same names.
RecordMatchesFiles ==
    /\ \A r \in InferenceRuns : records[r].status = "SUCCEEDED" =>
         LET f == predictions[r]
         IN /\ f.manifest = records[r].by /\ f.run = records[r].by
            /\ f.listed = records[r].samples
            /\ \A s \in f.listed : f.shards[s] = records[r].by
    /\ \A r \in EvaluationRuns : records[r].status = "SUCCEEDED" =>
         LET f == reports[r]
         IN /\ f.manifest = records[r].by /\ f.metrics = records[r].by
            /\ \A s \in records[r].samples : f.shards[s] = records[r].by

\* An evaluation that SUCCEEDED has used the predictions of one attempt, all of
\* them, and that attempt is the one whose record is there as SUCCEEDED; the
\* record is checked once and the files are read long after it.
EvaluatesOneAttempt ==
    \A r \in EvaluationRuns : records[r].status = "SUCCEEDED" =>
      LET inference == records[Judged[records[r].by[1]]]
      IN /\ inference.status = "SUCCEEDED"
         /\ records[r].read \subseteq {inference.by}
         /\ records[r].samples = inference.samples

\* The rows of artifacts that an attempt registers are in the database exactly
\* when its record says SUCCEEDED, be it rolled back, lost or executed again.
RowsIffSucceeded ==
    \A r \in InferenceRuns \union EvaluationRuns :
      records[r].by # Nobody =>
        (<<r, records[r].by>> \in artifacts <=> records[r].status = "SUCCEEDED")
=============================================================================
