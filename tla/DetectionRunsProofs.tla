------------------------ MODULE DetectionRunsProofs ------------------------
(***************************************************************************)
(* Proofs about DetectionRuns, for any jobs, run ids, samples and number   *)
(* of executions.                                                          *)
(***************************************************************************)
EXTENDS DetectionRuns, TLAPS

Runs == InferenceRuns \union EvaluationRuns

-----------------------------------------------------------------------------
(* The inductive invariant *)

\* Whoever is at work has begun an attempt.
Started == \A j \in Jobs : Working(j) => job[j].attempt \in 1..MaxAttempts

\* A handler at work owns the record of its run, which is RUNNING.
Owner == \A j \in Jobs : InExecute(j) =>
           records[RunOf[j]].status = "RUNNING" /\ records[RunOf[j]].by = Me(j)

\* Artifact rows are those of attempts whose handler is done.
RowsAreOfThePast ==
    \A r \in Runs, j \in Jobs, n \in 1..MaxAttempts : <<r, <<j, n>>>> \in artifacts =>
      n <= job[j].attempt /\ (n = job[j].attempt => ~InExecute(j) /\ job[j].pc # "begin")

\* A successful record has an author, and that of an evaluation is an evaluator.
Authors == \A r \in Runs : records[r].status = "SUCCEEDED" =>
             /\ records[r].by # Nobody
             /\ r \in EvaluationRuns => records[r].by[1] \in Evaluators

\* What a prediction at work has written so far is in the files.
PredictionProgress ==
    \A p \in Predictors :
      LET f == predictions[RunOf[p]]
      IN /\ job[p].pc \in {"write", "runManifest", "commit"} =>
              \A s \in job[p].all \ job[p].todo : f.shards[s] = Me(p)
         /\ job[p].pc \in {"runManifest", "commit"} =>
              job[p].todo = {} /\ f.manifest = Me(p) /\ f.listed = job[p].all
         /\ job[p].pc = "commit" => f.run = Me(p)

\* And that of an evaluation.
EvaluationProgress ==
    \A e \in Evaluators :
      LET f == reports[RunOf[e]]
      IN /\ job[e].pc \in {"read", "metrics", "commit"} =>
              \A s \in job[e].all \ job[e].todo : f.shards[s] = Me(e)
         /\ job[e].pc \in {"metrics", "commit"} => job[e].todo = {} /\ f.manifest = Me(e)
         /\ job[e].pc = "commit" => f.metrics = Me(e)

\* An evaluation past its check has a successful inference run before it, and
\* has read nothing else.
EvaluationReads ==
    \A e \in Evaluators :
      LET inference == records[Judged[e]]
      IN /\ job[e].pc \in {"load", "read", "metrics", "commit"} => inference.status = "SUCCEEDED"
         /\ job[e].pc \in {"read", "metrics", "commit"} =>
              /\ job[e].read \subseteq {inference.by}
              /\ job[e].all = inference.samples
              /\ job[e].todo \subseteq job[e].all

Inv ==
    /\ TypeOK /\ Started /\ Owner /\ RowsAreOfThePast /\ RowsIffSucceeded /\ Authors
    /\ PredictionProgress /\ EvaluationProgress /\ EvaluationReads
    /\ RecordMatchesFiles /\ EvaluatesOneAttempt

-----------------------------------------------------------------------------
(* Initial states *)

\* Nobody is no attempt.
LEMMA NobodyIsNone == Nobody \notin Attempts
  BY DEF Nobody, Attempts

\* The run of a job is a run, and that of a predictor is none of an evaluator.
LEMMA RunsOfJobs ==
    /\ \A j \in Jobs : RunOf[j] \in Runs
    /\ \A p \in Predictors : RunOf[p] \in InferenceRuns
    /\ \A e \in Evaluators : RunOf[e] \in EvaluationRuns
    /\ \A e \in Evaluators : Judged[e] \in InferenceRuns
    /\ InferenceRuns \intersect EvaluationRuns = {}
    /\ \A j \in Jobs : (j \in Predictors <=> j \notin Evaluators)
  BY RunsAssumption DEF Runs, Jobs, InferenceRuns, EvaluationRuns

\* All parts hold where no job has begun.
LEMMA InitInv == Init => Inv
  <1> SUFFICES ASSUME Init PROVE Inv
    OBVIOUS
  <1> USE RunsAssumption DEF Init
  <1>1. \A r \in Runs : records[r] = NoRecord
    BY DEF Runs
  <1>2. \A j \in Jobs : job[j] = NewJob
    OBVIOUS
  <1>3. TypeOK
    <2>1. NoRecord \in Record
      BY DEF NoRecord, Record, Status
    <2>2. NoFiles \in Files
      BY DEF NoFiles, Files
    <2>3. NoReport \in Report
      BY DEF NoReport, Report
    <2>4. NewJob \in Progress
      BY DEF NewJob, Progress, AtRest
    <2>. QED
      BY <2>1, <2>2, <2>3, <2>4 DEF TypeOK
  <1>4. Started /\ Owner
    BY <1>2 DEF Started, Owner, InExecute, Working, Points, NewJob
  <1>5. RowsAreOfThePast
    BY DEF RowsAreOfThePast
  <1>6. RowsIffSucceeded /\ Authors
    BY <1>1 DEF RowsIffSucceeded, Authors, NoRecord, Runs
  <1>7. PredictionProgress /\ EvaluationProgress /\ EvaluationReads
    BY <1>2 DEF PredictionProgress, EvaluationProgress, EvaluationReads, NewJob, Jobs
  <1>8. RecordMatchesFiles /\ EvaluatesOneAttempt
    BY <1>1 DEF RecordMatchesFiles, EvaluatesOneAttempt, NoRecord, Runs
  <1>. QED
    BY <1>3, <1>4, <1>5, <1>6, <1>7, <1>8 DEF Inv

-----------------------------------------------------------------------------
(* What the steps have in common *)

\* A step inside execute: job j works on, and only files may change.
WorksOn(j) ==
    \/ PreparePrediction(j) \/ WriteSample(j) \/ WritePredictionManifest(j) \/ WriteRunManifest(j)
    \/ PrepareEvaluation(j) \/ LoadPredictions(j) \/ EvaluateShard(j)
    \/ WriteEvaluation(j) \/ WriteMetrics(j)

\* The handler of j ends well.
Succeeds(j) == SucceedPrediction(j) \/ SucceedEvaluation(j)

\* Job j ends, or its handler does without a success.
Ends(j) == BeginFails(j) \/ Fail(j) \/ FailUnrecorded(j) \/ Close(j) \/ Crash(j)

\* These are all steps.
LEMMA Steps ==
    ASSUME Next
    PROVE  \E j \in Jobs : Execute(j) \/ Begin(j) \/ Ends(j) \/ WorksOn(j) \/ Succeeds(j)
  BY DEF Next, Run, Predict, Evaluate, Ends, WorksOn, Succeeds

\* The step of a job leaves the other jobs alone.
LEMMA OneJobMoves ==
    ASSUME TypeOK, NEW j \in Jobs,
           Execute(j) \/ Begin(j) \/ Ends(j) \/ WorksOn(j) \/ Succeeds(j)
    PROVE  \A k \in Jobs \ {j} : job'[k] = job[k]
  <1>1. CASE Execute(j) \/ Begin(j)
    BY <1>1 DEF Execute, Begin, Goto, TypeOK
  <1>2. CASE Ends(j)
    BY <1>2 DEF Ends, BeginFails, Fail, FailUnrecorded, Close, Crash, Rest, TypeOK
  <1>3. CASE Succeeds(j)
    BY <1>3 DEF Succeeds, SucceedPrediction, SucceedEvaluation, Succeed, Goto, TypeOK
  <1>4. CASE WorksOn(j)
    BY <1>4 DEF WorksOn, PreparePrediction, WriteSample, WritePredictionManifest, WriteRunManifest,
                PrepareEvaluation, LoadPredictions, EvaluateShard, WriteEvaluation, WriteMetrics,
                Goto, TypeOK
  <1>. QED
    BY <1>1, <1>2, <1>3, <1>4

\* Inside execute the job keeps its attempt, and records and rows are not touched.
LEMMA WorkIsQuiet ==
    ASSUME TypeOK, NEW j \in Jobs, WorksOn(j)
    PROVE  /\ InExecute(j) /\ InExecute(j)' /\ Me(j)' = Me(j)
           /\ job'[j].attempt = job[j].attempt
           /\ UNCHANGED <<records, artifacts>>
  <1> USE DEF TypeOK, Progress, InExecute, Working, Points, At, Goto, Me
  <1>1. CASE PreparePrediction(j)
    BY <1>1 DEF PreparePrediction
  <1>2. CASE WriteSample(j)
    BY <1>2 DEF WriteSample
  <1>3. CASE WritePredictionManifest(j)
    BY <1>3 DEF WritePredictionManifest
  <1>4. CASE WriteRunManifest(j)
    BY <1>4 DEF WriteRunManifest
  <1>5. CASE PrepareEvaluation(j)
    BY <1>5 DEF PrepareEvaluation
  <1>6. CASE LoadPredictions(j)
    BY <1>6 DEF LoadPredictions
  <1>7. CASE EvaluateShard(j)
    BY <1>7 DEF EvaluateShard
  <1>8. CASE WriteEvaluation(j)
    BY <1>8 DEF WriteEvaluation
  <1>9. CASE WriteMetrics(j)
    BY <1>9 DEF WriteMetrics
  <1>. QED
    BY <1>1, <1>2, <1>3, <1>4, <1>5, <1>6, <1>7, <1>8, <1>9 DEF WorksOn

\* Two handlers at work do not share a run.
LEMMA Alone ==
    ASSUME Owner, NEW j \in Jobs, NEW k \in Jobs, InExecute(j), InExecute(k), RunOf[j] = RunOf[k]
    PROVE  j = k
  BY DEF Owner, Me

\* A job that rests keeps its attempt.
LEMMA RestEffect ==
    ASSUME TypeOK, NEW j \in Jobs, NEW pc \in AtRest, Rest(j, pc)
    PROVE  job'[j].pc = pc /\ job'[j].attempt = job[j].attempt /\ ~Working(j)'
  <1>1. job'[j] = [NewJob EXCEPT !.pc = pc, !.attempt = job[j].attempt]
    BY DEF Rest, TypeOK
  <1>. QED
    BY <1>1 DEF NewJob, Working, Points, AtRest

\* A claimed job has one attempt more and has not begun.
LEMMA ExecuteEffect ==
    ASSUME TypeOK, NEW j \in Jobs, Execute(j)
    PROVE  /\ ~Working(j)
           /\ job'[j].pc = "begin" /\ job'[j].attempt = job[j].attempt + 1
           /\ job'[j].attempt \in 1..MaxAttempts
           /\ UNCHANGED <<records, predictions, reports, artifacts>>
  BY RunsAssumption DEF Execute, TypeOK, Progress, Working, Points

\* The first record is that of the attempt.
LEMMA BeginEffect ==
    ASSUME TypeOK, NEW j \in Jobs, Begin(j)
    PROVE  /\ job[j].pc = "begin" /\ job'[j].pc = "prepare" /\ job'[j].attempt = job[j].attempt
           /\ records[RunOf[j]] = NoRecord
           /\ records'[RunOf[j]].status = "RUNNING" /\ records'[RunOf[j]].by = Me(j)
           /\ \A r \in Runs \ {RunOf[j]} : records'[r] = records[r]
           /\ UNCHANGED <<predictions, reports, artifacts>>
  <1>1. job'[j].pc = "prepare" /\ job'[j].attempt = job[j].attempt
    BY DEF Begin, Goto, TypeOK, Progress
  <1>2. /\ records'[RunOf[j]] = [NoRecord EXCEPT !.status = "RUNNING", !.by = Me(j)]
        /\ \A r \in Runs \ {RunOf[j]} : records'[r] = records[r]
    BY RunsOfJobs DEF Begin, TypeOK, Runs
  <1>. QED
    BY <1>1, <1>2 DEF Begin, NoRecord

\* An end without success touches at most the record, which then says FAILED.
LEMMA EndsEffect ==
    ASSUME TypeOK, NEW j \in Jobs, Ends(j)
    PROVE  /\ ~Working(j)' /\ job'[j].attempt = job[j].attempt
           /\ UNCHANGED <<predictions, reports, artifacts>>
           /\ \/ UNCHANGED records
              \/ /\ InExecute(j)
                 /\ records'[RunOf[j]].status = "FAILED" /\ records'[RunOf[j]].by = Me(j)
                 /\ \A r \in Runs \ {RunOf[j]} : records'[r] = records[r]
  <1>1. PICK pc \in AtRest : Rest(j, pc)
    BY DEF Ends, BeginFails, Fail, FailUnrecorded, Close, Crash, AtRest
  <1>2. ~Working(j)' /\ job'[j].attempt = job[j].attempt
    BY <1>1, RestEffect
  <1>3. CASE Fail(j)
    <2>1. /\ records'[RunOf[j]] = [NoRecord EXCEPT !.status = "FAILED", !.by = Me(j)]
          /\ \A r \in Runs \ {RunOf[j]} : records'[r] = records[r]
      BY <1>3, RunsOfJobs DEF Fail, TypeOK, Runs
    <2>2. records'[RunOf[j]].status = "FAILED" /\ records'[RunOf[j]].by = Me(j)
      BY <2>1 DEF NoRecord
    <2>. QED
      BY <1>2, <1>3, <2>1, <2>2 DEF Fail
  <1>. QED
    BY <1>2, <1>3 DEF Ends, BeginFails, FailUnrecorded, Close, Crash

\* Success writes the record and the row of the attempt.
LEMMA SucceedsEffect ==
    ASSUME TypeOK, NEW j \in Jobs, Succeeds(j)
    PROVE  /\ job[j].pc = "commit" /\ job'[j].pc = "close" /\ job'[j].attempt = job[j].attempt
           /\ records'[RunOf[j]].status = "SUCCEEDED" /\ records'[RunOf[j]].by = Me(j)
           /\ records'[RunOf[j]].samples = job[j].all
           /\ j \in Evaluators => records'[RunOf[j]].read = job[j].read
           /\ \A r \in Runs \ {RunOf[j]} : records'[r] = records[r]
           /\ artifacts' = artifacts \union {<<RunOf[j], Me(j)>>}
           /\ UNCHANGED <<predictions, reports>>
  <1>1. /\ job[j].pc = "commit"
        /\ \E read \in {{}, job[j].read} :
             /\ j \in Evaluators => read = job[j].read
             /\ Succeed(j, [status |-> "SUCCEEDED", by |-> Me(j), samples |-> job[j].all, read |-> read])
    BY RunsOfJobs DEF Succeeds, SucceedPrediction, SucceedEvaluation, At
  <1>2. PICK read \in {{}, job[j].read} :
          /\ j \in Evaluators => read = job[j].read
          /\ Succeed(j, [status |-> "SUCCEEDED", by |-> Me(j), samples |-> job[j].all, read |-> read])
    BY <1>1
  <1>3. job'[j].pc = "close" /\ job'[j].attempt = job[j].attempt
    BY <1>2 DEF Succeed, Goto, TypeOK, Progress
  <1>4. /\ records'[RunOf[j]] = [status |-> "SUCCEEDED", by |-> Me(j), samples |-> job[j].all, read |-> read]
        /\ \A r \in Runs \ {RunOf[j]} : records'[r] = records[r]
    BY <1>2, RunsOfJobs DEF Succeed, TypeOK, Runs
  <1>. QED
    BY <1>1, <1>2, <1>3, <1>4 DEF Succeed

-----------------------------------------------------------------------------
(* Type correctness *)

\* Whoever is at work names an attempt.
LEMMA MeType ==
    ASSUME TypeOK, Started, NEW j \in Jobs, Working(j)
    PROVE  Me(j) \in Attempts
  BY DEF Me, Attempts, Started

\* A job that rests is typed.
LEMMA RestType ==
    ASSUME TypeOK, NEW j \in Jobs, NEW pc \in AtRest, Rest(j, pc)
    PROVE  job' \in [Jobs -> Progress]
  BY DEF Rest, TypeOK, Progress, NewJob

\* And so is one whose place alone changes.
LEMMA GotoType ==
    ASSUME TypeOK, NEW j \in Jobs, NEW pc \in Points, Goto(j, pc)
    PROVE  job' \in [Jobs -> Progress]
  BY DEF Goto, TypeOK, Progress

\* A record written by a job at work is typed.
LEMMA RecordType ==
    ASSUME TypeOK, Started, NEW j \in Jobs, Working(j), NEW status \in Status,
           records' = [records EXCEPT ![RunOf[j]] = [NoRecord EXCEPT !.status = status, !.by = Me(j)]]
    PROVE  records' \in [Runs -> Record]
  <1>1. [NoRecord EXCEPT !.status = status, !.by = Me(j)] \in Record
    BY MeType DEF NoRecord, Record
  <1>. QED
    BY <1>1 DEF TypeOK, Runs

\* Success writes a typed record and typed rows.
LEMMA SucceedType ==
    ASSUME TypeOK, Started, NEW j \in Jobs, Working(j), NEW record \in Record, Succeed(j, record)
    PROVE  TypeOK'
  <1>1. records' \in [Runs -> Record]
    BY DEF Succeed, TypeOK, Runs
  <1>2. artifacts' \subseteq (Runs \X Attempts)
    BY MeType, RunsOfJobs DEF Succeed, TypeOK, Runs
  <1>3. job' \in [Jobs -> Progress]
    BY GotoType DEF Succeed, Points
  <1>. QED
    BY <1>1, <1>2, <1>3 DEF Succeed, TypeOK, Runs

\* Work on files is typed.
LEMMA WorkType ==
    ASSUME TypeOK, Started, NEW j \in Jobs, WorksOn(j)
    PROVE  TypeOK'
  <1>1. Me(j) \in Attempts /\ records' = records /\ artifacts' = artifacts
    BY WorkIsQuiet, MeType DEF InExecute
  <1>2. /\ job[j] \in Progress
        /\ j \in Predictors => predictions[RunOf[j]] \in Files
        /\ j \in Evaluators => reports[RunOf[j]] \in Report /\ predictions[Judged[j]] \in Files
    BY RunsOfJobs DEF TypeOK
  <1> SUFFICES /\ predictions' \in [InferenceRuns -> Files]
               /\ reports' \in [EvaluationRuns -> Report]
               /\ job' \in [Jobs -> Progress]
    BY <1>1 DEF TypeOK
  <1>3. CASE PreparePrediction(j)
    <2>1. PICK chosen \in SUBSET Samples :
            job' = [job EXCEPT ![j].pc = "write", ![j].todo = chosen, ![j].all = chosen]
      BY <1>3 DEF PreparePrediction
    <2>2. [job[j] EXCEPT !.pc = "write", !.todo = chosen, !.all = chosen] \in Progress
      BY <1>2 DEF Progress, Points
    <2>. QED
      BY <1>3, <2>1, <2>2 DEF PreparePrediction, TypeOK
  <1>4. CASE WriteSample(j)
    <2>1. PICK s \in job[j].todo :
            /\ predictions' = [predictions EXCEPT ![RunOf[j]].shards[s] = Me(j)]
            /\ job' = [job EXCEPT ![j].todo = @ \ {s}]
      BY <1>4 DEF WriteSample
    <2>2. [predictions[RunOf[j]] EXCEPT !.shards = [@ EXCEPT ![s] = Me(j)]] \in Files
      BY <1>1, <1>2, <1>4 DEF WriteSample, At, Files
    <2>. QED
      BY <1>2, <1>4, <2>1, <2>2 DEF WriteSample, TypeOK, Progress
  <1>5. CASE WritePredictionManifest(j)
    <2>1. [predictions[RunOf[j]] EXCEPT !.manifest = Me(j), !.listed = job[j].all] \in Files
      BY <1>1, <1>2, <1>5 DEF WritePredictionManifest, At, Files, Progress
    <2>. QED
      BY <1>5, <2>1, GotoType DEF WritePredictionManifest, TypeOK, Points
  <1>6. CASE WriteRunManifest(j)
    <2>1. [predictions[RunOf[j]] EXCEPT !.run = Me(j)] \in Files
      BY <1>1, <1>2, <1>6 DEF WriteRunManifest, At, Files
    <2>. QED
      BY <1>6, <2>1, GotoType DEF WriteRunManifest, TypeOK, Points
  <1>7. CASE PrepareEvaluation(j)
    BY <1>7, GotoType DEF PrepareEvaluation, TypeOK, Points
  <1>8. CASE LoadPredictions(j)
    BY <1>2, <1>8 DEF LoadPredictions, At, TypeOK, Progress, Points, Files
  <1>9. CASE EvaluateShard(j)
    <2>1. PICK s \in job[j].todo :
            /\ predictions[Judged[j]].shards[s] # Nobody
            /\ job' = [job EXCEPT ![j].todo = @ \ {s},
                                  ![j].read = @ \union {predictions[Judged[j]].shards[s]}]
            /\ reports' = [reports EXCEPT ![RunOf[j]].shards[s] = Me(j)]
      BY <1>9 DEF EvaluateShard
    <2>2. predictions[Judged[j]].shards[s] \in Attempts
      BY <1>2, <1>9, <2>1 DEF EvaluateShard, At, Files, Progress
    <2>3. [reports[RunOf[j]] EXCEPT !.shards = [@ EXCEPT ![s] = Me(j)]] \in Report
      BY <1>1, <1>2, <1>9 DEF EvaluateShard, At, Report
    <2>4. job' \in [Jobs -> Progress]
      BY <1>2, <2>1, <2>2 DEF TypeOK, Progress
    <2>. QED
      BY <1>9, <2>1, <2>3, <2>4 DEF EvaluateShard, TypeOK
  <1>10. CASE WriteEvaluation(j)
    <2>1. [reports[RunOf[j]] EXCEPT !.manifest = Me(j)] \in Report
      BY <1>1, <1>2, <1>10 DEF WriteEvaluation, At, Report
    <2>. QED
      BY <1>10, <2>1, GotoType DEF WriteEvaluation, TypeOK, Points
  <1>11. CASE WriteMetrics(j)
    <2>1. [reports[RunOf[j]] EXCEPT !.metrics = Me(j)] \in Report
      BY <1>1, <1>2, <1>11 DEF WriteMetrics, At, Report
    <2>. QED
      BY <1>11, <2>1, GotoType DEF WriteMetrics, TypeOK, Points
  <1>. QED
    BY <1>3, <1>4, <1>5, <1>6, <1>7, <1>8, <1>9, <1>10, <1>11 DEF WorksOn

\* Every step keeps the types.
LEMMA NextType ==
    ASSUME TypeOK, Started, NEW j \in Jobs,
           Execute(j) \/ Begin(j) \/ Ends(j) \/ WorksOn(j) \/ Succeeds(j)
    PROVE  TypeOK'
  <1> USE RunsAssumption
  <1>1. CASE Execute(j)
    BY <1>1 DEF Execute, TypeOK, Progress, Points
  <1>2. CASE Begin(j)
    <2>1. records' \in [Runs -> Record]
      BY <1>2, RecordType DEF Begin, Working, Points, Status
    <2>. QED
      BY <1>2, <2>1, GotoType DEF Begin, TypeOK, Runs, Points
  <1>3. CASE Fail(j)
    <2>1. records' \in [Runs -> Record]
      BY <1>3, RecordType DEF Fail, InExecute, Status
    <2>. QED
      BY <1>3, <2>1, RestType DEF Fail, TypeOK, Runs, AtRest
  <1>4. CASE BeginFails(j) \/ FailUnrecorded(j) \/ Crash(j)
    BY <1>4, RestType DEF BeginFails, FailUnrecorded, Crash, TypeOK, AtRest
  <1>5. CASE Close(j)
    BY <1>5, RestType DEF Close, TypeOK, AtRest
  <1>6. CASE Succeeds(j)
    <2>1. Working(j) /\ Me(j) \in Attempts /\ job[j] \in Progress
      BY <1>6, MeType DEF Succeeds, SucceedPrediction, SucceedEvaluation, At, Working, Points, TypeOK
    <2>2. /\ [status |-> "SUCCEEDED", by |-> Me(j), samples |-> job[j].all, read |-> {}] \in Record
          /\ [status |-> "SUCCEEDED", by |-> Me(j), samples |-> job[j].all, read |-> job[j].read] \in Record
      BY <2>1 DEF Record, Status, Progress
    <2>. QED
      BY <1>6, <2>1, <2>2, SucceedType DEF Succeeds, SucceedPrediction, SucceedEvaluation
  <1>7. CASE WorksOn(j)
    BY <1>7, WorkType
  <1>. QED
    BY <1>1, <1>2, <1>3, <1>4, <1>5, <1>6, <1>7 DEF Ends

\* Who is at work has begun an attempt.
LEMMA NextStarted ==
    ASSUME TypeOK, Started, NEW j \in Jobs,
           Execute(j) \/ Begin(j) \/ Ends(j) \/ WorksOn(j) \/ Succeeds(j)
    PROVE  Started'
  <1>1. Working(j)' => job'[j].attempt \in 1..MaxAttempts
    <2>1. CASE Execute(j)
      BY <2>1, ExecuteEffect
    <2>2. CASE Begin(j)
      BY <2>2, BeginEffect DEF Started, Working, Points
    <2>3. CASE Ends(j)
      BY <2>3, EndsEffect
    <2>4. CASE WorksOn(j)
      BY <2>4, WorkIsQuiet DEF InExecute, Started
    <2>5. CASE Succeeds(j)
      BY <2>5, SucceedsEffect DEF Started, Working, Points
    <2>. QED
      BY <2>1, <2>2, <2>3, <2>4, <2>5
  <1>. QED
    BY <1>1, OneJobMoves DEF Started, Working

-----------------------------------------------------------------------------
(* Owners, rows and authors *)

\* Only its owner changes the record of a run.
LEMMA OthersRecords ==
    ASSUME TypeOK, Owner, NEW j \in Jobs, NEW k \in Jobs, k # j, InExecute(k),
           Execute(j) \/ Begin(j) \/ Ends(j) \/ WorksOn(j) \/ Succeeds(j)
    PROVE  records'[RunOf[k]] = records[RunOf[k]]
  <1>1. RunOf[k] \in Runs /\ records[RunOf[k]].status = "RUNNING"
    BY RunsOfJobs DEF Owner
  <1>2. InExecute(j) => RunOf[k] \in Runs \ {RunOf[j]}
    BY <1>1, Alone
  <1>3. CASE Begin(j)
    BY <1>1, <1>3, BeginEffect DEF NoRecord
  <1>4. CASE Ends(j)
    BY <1>2, <1>4, EndsEffect
  <1>5. CASE Succeeds(j)
    BY <1>2, <1>5, SucceedsEffect DEF InExecute, Working, Points
  <1>. QED
    BY <1>3, <1>4, <1>5, ExecuteEffect, WorkIsQuiet

\* Every step keeps the owners.
LEMMA NextOwner ==
    ASSUME TypeOK, Owner, NEW j \in Jobs,
           Execute(j) \/ Begin(j) \/ Ends(j) \/ WorksOn(j) \/ Succeeds(j)
    PROVE  Owner'
  <1> SUFFICES ASSUME NEW k \in Jobs, InExecute(k)'
               PROVE  records'[RunOf[k]].status = "RUNNING" /\ records'[RunOf[k]].by = Me(k)'
    BY DEF Owner
  <1>1. CASE k # j
    <2>1. job'[k] = job[k]
      BY <1>1, OneJobMoves
    <2>2. InExecute(k) /\ Me(k)' = Me(k)
      BY <2>1 DEF InExecute, Working, Me
    <2>. QED
      BY <1>1, <2>2, OthersRecords DEF Owner
  <1>2. CASE k = j
    <2>1. CASE Execute(j)
      BY <1>2, <2>1, ExecuteEffect DEF InExecute
    <2>2. CASE Begin(j)
      BY <1>2, <2>2, BeginEffect DEF Me
    <2>3. CASE Ends(j)
      BY <1>2, <2>3, EndsEffect DEF InExecute
    <2>4. CASE WorksOn(j)
      BY <1>2, <2>4, WorkIsQuiet DEF Owner
    <2>5. CASE Succeeds(j)
      BY <1>2, <2>5, SucceedsEffect DEF InExecute
    <2>. QED
      BY <2>1, <2>2, <2>3, <2>4, <2>5
  <1>. QED
    BY <1>1, <1>2

\* No attempt registers its rows before its success.
LEMMA NextRowsOfThePast ==
    ASSUME TypeOK, RowsAreOfThePast, NEW j \in Jobs,
           Execute(j) \/ Begin(j) \/ Ends(j) \/ WorksOn(j) \/ Succeeds(j)
    PROVE  RowsAreOfThePast'
  <1> SUFFICES ASSUME NEW r \in Runs, NEW k \in Jobs, NEW n \in 1..MaxAttempts, <<r, <<k, n>>>> \in artifacts'
               PROVE  n <= job'[k].attempt /\ (n = job'[k].attempt => ~InExecute(k)' /\ job'[k].pc # "begin")
    BY DEF RowsAreOfThePast
  <1>1. job[j].attempt \in Nat
    BY RunsAssumption DEF TypeOK, Progress
  <1>2. CASE k # j
    <2>1. job'[k] = job[k]
      BY <1>2, OneJobMoves
    <2>2. <<r, <<k, n>>>> \in artifacts
      BY <1>2, ExecuteEffect, BeginEffect, EndsEffect, WorkIsQuiet, SucceedsEffect DEF Me
    <2>. QED
      BY <2>1, <2>2 DEF RowsAreOfThePast, InExecute, Working
  <1>3. CASE k = j
    <2>1. CASE Execute(j)
      BY <1>1, <1>3, <2>1, ExecuteEffect DEF RowsAreOfThePast
    <2>2. CASE Begin(j)
      BY <1>3, <2>2, BeginEffect DEF RowsAreOfThePast
    <2>3. CASE Ends(j)
      BY <1>3, <2>3, EndsEffect DEF RowsAreOfThePast, InExecute, Working, Points
    <2>4. CASE WorksOn(j)
      BY <1>3, <2>4, WorkIsQuiet DEF RowsAreOfThePast
    <2>5. CASE Succeeds(j)
      <3>1. ~InExecute(j)' /\ job'[j].pc # "begin" /\ job'[j].attempt = job[j].attempt
        BY <2>5, SucceedsEffect DEF InExecute
      <3>2. <<r, <<k, n>>>> \in artifacts \/ n = job[j].attempt
        BY <1>3, <2>5, SucceedsEffect DEF Me
      <3>. QED
        BY <1>1, <1>3, <3>1, <3>2 DEF RowsAreOfThePast
    <2>. QED
      BY <2>1, <2>2, <2>3, <2>4, <2>5
  <1>. QED
    BY <1>2, <1>3

\* An attempt that is at work, or about to begin, has no rows.
LEMMA NoRowsYet ==
    ASSUME TypeOK, Started, RowsAreOfThePast, NEW j \in Jobs, InExecute(j) \/ job[j].pc = "begin",
           NEW r \in Runs
    PROVE  <<r, Me(j)>> \notin artifacts
  BY DEF Started, RowsAreOfThePast, InExecute, Working, Points, Me

\* Rows and successful records go together.
LEMMA NextRowsIff ==
    ASSUME TypeOK, Started, RowsAreOfThePast, RowsIffSucceeded, NEW j \in Jobs,
           Execute(j) \/ Begin(j) \/ Ends(j) \/ WorksOn(j) \/ Succeeds(j)
    PROVE  RowsIffSucceeded'
  <1> SUFFICES ASSUME NEW r \in Runs, records'[r].by # Nobody
               PROVE  <<r, records'[r].by>> \in artifacts' <=> records'[r].status = "SUCCEEDED"
    BY DEF RowsIffSucceeded, Runs
  <1>1. CASE records'[r] = records[r] /\ artifacts' = artifacts
    BY <1>1 DEF RowsIffSucceeded, Runs
  <1>2. CASE Begin(j)
    BY <1>1, <1>2, BeginEffect, NoRowsYet
  <1>3. CASE Ends(j)
    BY <1>1, <1>3, EndsEffect, NoRowsYet
  <1>4. CASE Succeeds(j)
    BY <1>4, SucceedsEffect DEF RowsIffSucceeded, Runs
  <1>. QED
    BY <1>1, <1>2, <1>3, <1>4, ExecuteEffect, WorkIsQuiet

\* A success has an author of the right kind.
LEMMA NextAuthors ==
    ASSUME TypeOK, Started, Authors, NEW j \in Jobs,
           Execute(j) \/ Begin(j) \/ Ends(j) \/ WorksOn(j) \/ Succeeds(j)
    PROVE  Authors'
  <1> SUFFICES ASSUME NEW r \in Runs, records'[r].status = "SUCCEEDED"
               PROVE  /\ records'[r].by # Nobody
                      /\ r \in EvaluationRuns => records'[r].by[1] \in Evaluators
    BY DEF Authors
  <1>1. CASE records'[r] = records[r]
    BY <1>1 DEF Authors
  <1>2. CASE Succeeds(j) /\ r = RunOf[j]
    <2>1. Me(j) \in Attempts /\ records'[r].by = Me(j)
      BY <1>2, SucceedsEffect, MeType DEF Working, Points
    <2>. QED
      BY <1>2, <2>1, NobodyIsNone, RunsOfJobs DEF Me
  <1>. QED
    BY <1>1, <1>2, ExecuteEffect, BeginEffect, EndsEffect, WorkIsQuiet, SucceedsEffect

-----------------------------------------------------------------------------
(* Files *)

\* A step writes only files of the run of its job, and only inside execute.
LEMMA OthersFiles ==
    ASSUME TypeOK, NEW j \in Jobs, NEW r \in Runs,
           Execute(j) \/ Begin(j) \/ Ends(j) \/ WorksOn(j) \/ Succeeds(j),
           InExecute(j) => r # RunOf[j]
    PROVE  /\ r \in InferenceRuns => predictions'[r] = predictions[r]
           /\ r \in EvaluationRuns => reports'[r] = reports[r]
  <1>1. CASE WorksOn(j)
    <2>1. r # RunOf[j]
      BY <1>1, WorkIsQuiet
    <2>2. CASE WriteSample(j)
      BY <2>1, <2>2 DEF WriteSample, TypeOK
    <2>3. CASE WritePredictionManifest(j) \/ WriteRunManifest(j)
      BY <2>1, <2>3 DEF WritePredictionManifest, WriteRunManifest, TypeOK
    <2>4. CASE EvaluateShard(j)
      BY <2>1, <2>4 DEF EvaluateShard, TypeOK
    <2>5. CASE WriteEvaluation(j) \/ WriteMetrics(j)
      BY <2>1, <2>5 DEF WriteEvaluation, WriteMetrics, TypeOK
    <2>. QED
      BY <1>1, <2>2, <2>3, <2>4, <2>5
      DEF WorksOn, PreparePrediction, PrepareEvaluation, LoadPredictions
  <1>. QED
    BY <1>1, ExecuteEffect, BeginEffect, EndsEffect, SucceedsEffect

\* A successful record is final, and so are the files of its run.
LEMMA SuccessIsFinal ==
    ASSUME TypeOK, Owner, NEW j \in Jobs, NEW r \in Runs, records[r].status = "SUCCEEDED",
           Execute(j) \/ Begin(j) \/ Ends(j) \/ WorksOn(j) \/ Succeeds(j)
    PROVE  /\ records'[r] = records[r]
           /\ r \in InferenceRuns => predictions'[r] = predictions[r]
           /\ r \in EvaluationRuns => reports'[r] = reports[r]
  <1>1. InExecute(j) => r # RunOf[j]
    BY DEF Owner
  <1>2. records'[r] = records[r]
    <2>1. CASE Begin(j)
      BY <2>1, BeginEffect DEF NoRecord
    <2>2. CASE Ends(j)
      BY <1>1, <2>2, EndsEffect
    <2>3. CASE Succeeds(j)
      BY <1>1, <2>3, SucceedsEffect DEF InExecute, Working, Points
    <2>. QED
      BY <2>1, <2>2, <2>3, ExecuteEffect, WorkIsQuiet
  <1>. QED
    BY <1>1, <1>2, OthersFiles

\* The files of a handler at work are written by none but itself.
LEMMA OwnFiles ==
    ASSUME TypeOK, Owner, NEW j \in Jobs, NEW k \in Jobs, k # j, InExecute(k),
           Execute(j) \/ Begin(j) \/ Ends(j) \/ WorksOn(j) \/ Succeeds(j)
    PROVE  /\ k \in Predictors => predictions'[RunOf[k]] = predictions[RunOf[k]]
           /\ k \in Evaluators => reports'[RunOf[k]] = reports[RunOf[k]]
  BY OthersFiles, RunsOfJobs, Alone

\* Every step keeps what predictions at work have written.
LEMMA NextPrediction ==
    ASSUME TypeOK, Started, Owner, PredictionProgress, NEW j \in Jobs,
           Execute(j) \/ Begin(j) \/ Ends(j) \/ WorksOn(j) \/ Succeeds(j)
    PROVE  PredictionProgress'
  <1> DEFINE Wrote(p) ==
        LET f == predictions[RunOf[p]]
        IN /\ job[p].pc \in {"write", "runManifest", "commit"} =>
                \A s \in job[p].all \ job[p].todo : f.shards[s] = Me(p)
           /\ job[p].pc \in {"runManifest", "commit"} =>
                job[p].todo = {} /\ f.manifest = Me(p) /\ f.listed = job[p].all
           /\ job[p].pc = "commit" => f.run = Me(p)
  <1> SUFFICES ASSUME NEW p \in Predictors, job'[p].pc \in {"write", "runManifest", "commit"}
               PROVE  Wrote(p)'
    BY DEF PredictionProgress
  <1>1. p \in Jobs /\ RunOf[p] \in InferenceRuns /\ p \notin Evaluators
    BY RunsOfJobs DEF Jobs
  <1>2. Wrote(p)
    BY DEF PredictionProgress
  <1>3. CASE p # j
    <2>1. job'[p] = job[p]
      BY <1>1, <1>3, OneJobMoves
    <2>2. InExecute(p)
      BY <2>1 DEF InExecute, Working, Points
    <2>3. predictions'[RunOf[p]] = predictions[RunOf[p]] /\ Me(p)' = Me(p)
      BY <1>1, <1>3, <2>1, <2>2, OwnFiles DEF Me
    <2>. QED
      BY <1>2, <2>1, <2>3
  <1>4. CASE p = j
    <2>1. WorksOn(p)
      BY <1>4, ExecuteEffect, BeginEffect, EndsEffect, SucceedsEffect DEF Working, Points
    <2>2. Me(p)' = Me(p) /\ job[p] \in Progress /\ predictions[RunOf[p]] \in Files
      BY <1>1, <2>1, WorkIsQuiet DEF TypeOK
    <2>3. CASE PreparePrediction(p)
      <3>1. job'[p].pc = "write" /\ job'[p].all \ job'[p].todo = {}
        BY <1>1, <2>3 DEF PreparePrediction, TypeOK, Progress
      <3>. QED
        BY <3>1
    <2>4. CASE WriteSample(p)
      <3>1. PICK s \in job[p].todo :
              /\ predictions' = [predictions EXCEPT ![RunOf[p]].shards[s] = Me(p)]
              /\ job' = [job EXCEPT ![p].todo = @ \ {s}]
        BY <2>4 DEF WriteSample
      <3>2. job'[p].pc = "write" /\ job'[p].all = job[p].all /\ job'[p].todo = job[p].todo \ {s}
        BY <1>1, <2>2, <2>4, <3>1 DEF WriteSample, At, TypeOK, Progress
      <3>3. \A t \in Samples : predictions'[RunOf[p]].shards[t] =
                                 IF t = s THEN Me(p) ELSE predictions[RunOf[p]].shards[t]
        BY <1>1, <2>2, <3>1 DEF TypeOK, Files
      <3>4. job[p].pc = "write" /\ job[p].all \subseteq Samples
        BY <2>2, <2>4 DEF WriteSample, At, Progress
      <3>. QED
        BY <1>2, <2>2, <3>2, <3>3, <3>4
    <2>5. CASE WritePredictionManifest(p)
      <3>1. /\ job[p].pc = "write" /\ job[p].todo = {}
            /\ predictions'[RunOf[p]].manifest = Me(p)
            /\ predictions'[RunOf[p]].listed = job[p].all
            /\ predictions'[RunOf[p]].shards = predictions[RunOf[p]].shards
        BY <1>1, <2>2, <2>5 DEF WritePredictionManifest, At, TypeOK, Files
      <3>2. /\ job'[p].pc = "runManifest"
            /\ job'[p].todo = job[p].todo /\ job'[p].all = job[p].all
        BY <1>1, <2>2, <2>5 DEF WritePredictionManifest, Goto, TypeOK, Progress
      <3>. QED
        BY <1>2, <2>2, <3>1, <3>2
    <2>6. CASE WriteRunManifest(p)
      <3>1. /\ job[p].pc = "runManifest"
            /\ predictions'[RunOf[p]] = [predictions[RunOf[p]] EXCEPT !.run = Me(p)]
        BY <1>1, <2>6 DEF WriteRunManifest, At, TypeOK
      <3>2. /\ job'[p].pc = "commit"
            /\ job'[p].todo = job[p].todo /\ job'[p].all = job[p].all
        BY <1>1, <2>2, <2>6 DEF WriteRunManifest, Goto, TypeOK, Progress
      <3>3. /\ predictions'[RunOf[p]].run = Me(p)
            /\ predictions'[RunOf[p]].manifest = predictions[RunOf[p]].manifest
            /\ predictions'[RunOf[p]].listed = predictions[RunOf[p]].listed
            /\ predictions'[RunOf[p]].shards = predictions[RunOf[p]].shards
        BY <2>2, <3>1 DEF Files
      <3>. QED
        BY <1>2, <2>2, <3>1, <3>2, <3>3
    <2>. QED
      BY <1>1, <2>1, <2>3, <2>4, <2>5, <2>6
      DEF WorksOn, PrepareEvaluation, LoadPredictions, EvaluateShard, WriteEvaluation, WriteMetrics, At
  <1>. QED
    BY <1>3, <1>4

\* And what evaluations at work have written.
LEMMA NextEvaluation ==
    ASSUME TypeOK, Started, Owner, EvaluationProgress, NEW j \in Jobs,
           Execute(j) \/ Begin(j) \/ Ends(j) \/ WorksOn(j) \/ Succeeds(j)
    PROVE  EvaluationProgress'
  <1> DEFINE Wrote(e) ==
        LET f == reports[RunOf[e]]
        IN /\ job[e].pc \in {"read", "metrics", "commit"} =>
                \A s \in job[e].all \ job[e].todo : f.shards[s] = Me(e)
           /\ job[e].pc \in {"metrics", "commit"} => job[e].todo = {} /\ f.manifest = Me(e)
           /\ job[e].pc = "commit" => f.metrics = Me(e)
  <1> SUFFICES ASSUME NEW e \in Evaluators, job'[e].pc \in {"read", "metrics", "commit"}
               PROVE  Wrote(e)'
    BY DEF EvaluationProgress
  <1>1. e \in Jobs /\ RunOf[e] \in EvaluationRuns /\ e \notin Predictors /\ Judged[e] \in InferenceRuns
    BY RunsOfJobs DEF Jobs
  <1>2. Wrote(e)
    BY DEF EvaluationProgress
  <1>3. CASE e # j
    <2>1. job'[e] = job[e]
      BY <1>1, <1>3, OneJobMoves
    <2>2. InExecute(e)
      BY <2>1 DEF InExecute, Working, Points
    <2>3. reports'[RunOf[e]] = reports[RunOf[e]] /\ Me(e)' = Me(e)
      BY <1>1, <1>3, <2>1, <2>2, OwnFiles DEF Me
    <2>. QED
      BY <1>2, <2>1, <2>3
  <1>4. CASE e = j
    <2>1. WorksOn(e)
      BY <1>4, ExecuteEffect, BeginEffect, EndsEffect, SucceedsEffect DEF Working, Points
    <2>2. Me(e)' = Me(e) /\ job[e] \in Progress /\ reports[RunOf[e]] \in Report
      BY <1>1, <2>1, WorkIsQuiet DEF TypeOK
    <2>3. CASE PrepareEvaluation(e)
      BY <1>1, <2>3 DEF PrepareEvaluation, Goto, TypeOK, Progress
    <2>4. CASE LoadPredictions(e)
      <3>1. job'[e].pc = "read" /\ job'[e].all = job'[e].todo
        BY <1>1, <2>4 DEF LoadPredictions, TypeOK, Progress
      <3>. QED
        BY <3>1
    <2>5. CASE EvaluateShard(e)
      <3>1. PICK s \in job[e].todo :
              /\ job' = [job EXCEPT ![e].todo = @ \ {s},
                                    ![e].read = @ \union {predictions[Judged[e]].shards[s]}]
              /\ reports' = [reports EXCEPT ![RunOf[e]].shards[s] = Me(e)]
        BY <2>5 DEF EvaluateShard
      <3>2. job'[e].pc = "read" /\ job'[e].all = job[e].all /\ job'[e].todo = job[e].todo \ {s}
        BY <1>1, <2>2, <2>5, <3>1 DEF EvaluateShard, At, TypeOK, Progress
      <3>3. \A t \in Samples : reports'[RunOf[e]].shards[t] =
                                 IF t = s THEN Me(e) ELSE reports[RunOf[e]].shards[t]
        BY <1>1, <2>2, <3>1 DEF TypeOK, Report
      <3>4. job[e].pc = "read" /\ job[e].all \subseteq Samples
        BY <2>2, <2>5 DEF EvaluateShard, At, Progress
      <3>. QED
        BY <1>2, <2>2, <3>2, <3>3, <3>4
    <2>6. CASE WriteEvaluation(e)
      <3>1. /\ job[e].pc = "read" /\ job[e].todo = {}
            /\ reports'[RunOf[e]].manifest = Me(e)
            /\ reports'[RunOf[e]].shards = reports[RunOf[e]].shards
        BY <1>1, <2>2, <2>6 DEF WriteEvaluation, At, TypeOK, Report
      <3>2. /\ job'[e].pc = "metrics"
            /\ job'[e].todo = job[e].todo /\ job'[e].all = job[e].all
        BY <1>1, <2>2, <2>6 DEF WriteEvaluation, Goto, TypeOK, Progress
      <3>. QED
        BY <1>2, <2>2, <3>1, <3>2
    <2>7. CASE WriteMetrics(e)
      <3>1. /\ job[e].pc = "metrics"
            /\ reports'[RunOf[e]].metrics = Me(e)
            /\ reports'[RunOf[e]].manifest = reports[RunOf[e]].manifest
            /\ reports'[RunOf[e]].shards = reports[RunOf[e]].shards
        BY <1>1, <2>2, <2>7 DEF WriteMetrics, At, TypeOK, Report
      <3>2. /\ job'[e].pc = "commit"
            /\ job'[e].todo = job[e].todo /\ job'[e].all = job[e].all
        BY <1>1, <2>2, <2>7 DEF WriteMetrics, Goto, TypeOK, Progress
      <3>. QED
        BY <1>2, <2>2, <3>1, <3>2
    <2>. QED
      BY <1>1, <2>1, <2>3, <2>4, <2>5, <2>6, <2>7
      DEF WorksOn, PreparePrediction, WriteSample, WritePredictionManifest, WriteRunManifest, At
  <1>. QED
    BY <1>3, <1>4

-----------------------------------------------------------------------------
(* Records and files *)

\* An evaluation past its check has read the one attempt that has SUCCEEDED.
LEMMA NextReads ==
    ASSUME TypeOK, Started, Owner, EvaluationReads, RecordMatchesFiles, NEW j \in Jobs,
           Execute(j) \/ Begin(j) \/ Ends(j) \/ WorksOn(j) \/ Succeeds(j)
    PROVE  EvaluationReads'
  <1> DEFINE Reads(e) ==
        LET inference == records[Judged[e]]
        IN /\ job[e].pc \in {"load", "read", "metrics", "commit"} => inference.status = "SUCCEEDED"
           /\ job[e].pc \in {"read", "metrics", "commit"} =>
                /\ job[e].read \subseteq {inference.by}
                /\ job[e].all = inference.samples
                /\ job[e].todo \subseteq job[e].all
  <1> SUFFICES ASSUME NEW e \in Evaluators, job'[e].pc \in {"load", "read", "metrics", "commit"}
               PROVE  Reads(e)'
    BY DEF EvaluationReads
  <1>1. /\ e \in Jobs /\ e \notin Predictors
        /\ Judged[e] \in InferenceRuns /\ Judged[e] \in Runs
    BY RunsOfJobs DEF Jobs, Runs
  <1>2. Reads(e)
    BY DEF EvaluationReads
  <1>3. ASSUME records[Judged[e]].status = "SUCCEEDED"
        PROVE  records'[Judged[e]] = records[Judged[e]]
    BY <1>1, <1>3, SuccessIsFinal
  <1>4. CASE e # j
    <2>1. job'[e] = job[e]
      BY <1>1, <1>4, OneJobMoves
    <2>. QED
      BY <1>2, <1>3, <2>1
  <1>5. CASE e = j
    <2>1. WorksOn(e)
      BY <1>5, ExecuteEffect, BeginEffect, EndsEffect, SucceedsEffect DEF Working, Points
    <2>2. job[e] \in Progress
      BY <1>1 DEF TypeOK
    <2>3. CASE PrepareEvaluation(e)
      <3>1. job'[e].pc = "load" /\ records[Judged[e]].status = "SUCCEEDED"
        BY <1>1, <2>2, <2>3 DEF PrepareEvaluation, Goto, TypeOK, Progress
      <3>. QED
        BY <1>3, <3>1
    <2>4. CASE LoadPredictions(e)
      <3>1. /\ job[e].pc = "load"
            /\ job'[e].all = predictions[Judged[e]].listed /\ job'[e].todo = predictions[Judged[e]].listed
            /\ job'[e].read = {predictions[Judged[e]].manifest}
        BY <1>1, <2>2, <2>4 DEF LoadPredictions, At, TypeOK, Progress
      <3>2. /\ records[Judged[e]].status = "SUCCEEDED"
            /\ predictions[Judged[e]].listed = records[Judged[e]].samples
            /\ predictions[Judged[e]].manifest = records[Judged[e]].by
        BY <1>1, <1>2, <3>1 DEF RecordMatchesFiles
      <3>. QED
        BY <1>3, <3>1, <3>2
    <2>5. CASE EvaluateShard(e)
      <3>1. PICK s \in job[e].todo :
              job' = [job EXCEPT ![e].todo = @ \ {s},
                                 ![e].read = @ \union {predictions[Judged[e]].shards[s]}]
        BY <2>5 DEF EvaluateShard
      <3>2. /\ job[e].pc = "read" /\ job'[e].all = job[e].all /\ job'[e].todo = job[e].todo \ {s}
            /\ job'[e].read = job[e].read \union {predictions[Judged[e]].shards[s]}
        BY <1>1, <2>2, <2>5, <3>1 DEF EvaluateShard, At, TypeOK, Progress
      <3>3. predictions[Judged[e]].shards[s] = records[Judged[e]].by
        BY <1>1, <1>2, <3>2 DEF RecordMatchesFiles
      <3>. QED
        BY <1>2, <1>3, <3>2, <3>3
    <2>6. CASE WriteEvaluation(e) \/ WriteMetrics(e)
      <3>1. /\ job[e].pc \in {"read", "metrics"}
            /\ job'[e].all = job[e].all /\ job'[e].todo = job[e].todo /\ job'[e].read = job[e].read
        BY <1>1, <2>2, <2>6 DEF WriteEvaluation, WriteMetrics, At, Goto, TypeOK, Progress
      <3>. QED
        BY <1>2, <1>3, <3>1
    <2>. QED
      BY <1>1, <2>1, <2>3, <2>4, <2>5, <2>6
      DEF WorksOn, PreparePrediction, WriteSample, WritePredictionManifest, WriteRunManifest, At
  <1>. QED
    BY <1>4, <1>5

\* The files of a run that SUCCEEDED are of the attempt of its record.
LEMMA NextMatches ==
    ASSUME TypeOK, Owner, PredictionProgress, EvaluationProgress, EvaluationReads, RecordMatchesFiles,
           NEW j \in Jobs, Execute(j) \/ Begin(j) \/ Ends(j) \/ WorksOn(j) \/ Succeeds(j)
    PROVE  RecordMatchesFiles'
  <1>1. ASSUME NEW r \in Runs, records'[r].status = "SUCCEEDED", records[r].status # "SUCCEEDED"
        PROVE  /\ Succeeds(j) /\ r = RunOf[j] /\ job[j].pc = "commit"
               /\ records'[r].by = Me(j) /\ records'[r].samples = job[j].all
               /\ UNCHANGED <<predictions, reports>>
    <2>1. records'[r] # records[r]
      BY <1>1
    <2>2. Succeeds(j) /\ r = RunOf[j]
      BY <1>1, <2>1, ExecuteEffect, BeginEffect, EndsEffect, WorkIsQuiet, SucceedsEffect
    <2>. QED
      BY <2>2, SucceedsEffect
  <1>2. ASSUME NEW r \in InferenceRuns, records'[r].status = "SUCCEEDED"
        PROVE  /\ predictions'[r].manifest = records'[r].by /\ predictions'[r].run = records'[r].by
               /\ predictions'[r].listed = records'[r].samples
               /\ \A s \in predictions'[r].listed : predictions'[r].shards[s] = records'[r].by
    <2>1. r \in Runs
      BY DEF Runs
    <2>2. CASE records[r].status = "SUCCEEDED"
      BY <1>2, <2>1, <2>2, SuccessIsFinal DEF RecordMatchesFiles
    <2>3. CASE records[r].status # "SUCCEEDED"
      <3>1. /\ r = RunOf[j] /\ job[j].pc = "commit" /\ predictions' = predictions
            /\ records'[r].by = Me(j) /\ records'[r].samples = job[j].all
        BY <1>1, <1>2, <2>1, <2>3
      <3>2. j \in Predictors
        BY <3>1, RunsOfJobs
      <3>. QED
        BY <3>1, <3>2 DEF PredictionProgress
    <2>. QED
      BY <2>2, <2>3
  <1>3. ASSUME NEW r \in EvaluationRuns, records'[r].status = "SUCCEEDED"
        PROVE  /\ reports'[r].manifest = records'[r].by /\ reports'[r].metrics = records'[r].by
               /\ \A s \in records'[r].samples : reports'[r].shards[s] = records'[r].by
    <2>1. r \in Runs
      BY DEF Runs
    <2>2. CASE records[r].status = "SUCCEEDED"
      BY <1>3, <2>1, <2>2, SuccessIsFinal DEF RecordMatchesFiles
    <2>3. CASE records[r].status # "SUCCEEDED"
      <3>1. /\ r = RunOf[j] /\ job[j].pc = "commit" /\ reports' = reports
            /\ records'[r].by = Me(j) /\ records'[r].samples = job[j].all
        BY <1>1, <1>3, <2>1, <2>3
      <3>2. j \in Evaluators
        BY <3>1, RunsOfJobs DEF Jobs
      <3>. QED
        BY <3>1, <3>2 DEF EvaluationProgress
    <2>. QED
      BY <2>2, <2>3
  <1>. QED
    BY <1>2, <1>3 DEF RecordMatchesFiles

\* A successful evaluation is one of a successful inference run.
LEMMA NextEvaluates ==
    ASSUME TypeOK, Owner, Authors, EvaluationReads, EvaluatesOneAttempt,
           NEW j \in Jobs, Execute(j) \/ Begin(j) \/ Ends(j) \/ WorksOn(j) \/ Succeeds(j)
    PROVE  EvaluatesOneAttempt'
  <1> SUFFICES ASSUME NEW r \in EvaluationRuns, records'[r].status = "SUCCEEDED"
               PROVE  /\ records'[Judged[records'[r].by[1]]].status = "SUCCEEDED"
                      /\ records'[r].read \subseteq {records'[Judged[records'[r].by[1]]].by}
                      /\ records'[r].samples = records'[Judged[records'[r].by[1]]].samples
    BY DEF EvaluatesOneAttempt
  <1>1. r \in Runs
    BY DEF Runs
  <1>2. CASE records[r].status = "SUCCEEDED"
    <2>1. records'[r] = records[r]
      BY <1>1, <1>2, SuccessIsFinal
    <2>2. Judged[records[r].by[1]] \in Runs
      BY <1>1, <1>2, RunsOfJobs DEF Authors, Runs
    <2>3. records'[Judged[records[r].by[1]]] = records[Judged[records[r].by[1]]]
      BY <1>2, <2>2, SuccessIsFinal DEF EvaluatesOneAttempt
    <2>. QED
      BY <1>2, <2>1, <2>3 DEF EvaluatesOneAttempt
  <1>3. CASE records[r].status # "SUCCEEDED"
    <2>1. records'[r] # records[r]
      BY <1>3
    <2>2. Succeeds(j) /\ r = RunOf[j]
      BY <1>1, <1>3, <2>1, ExecuteEffect, BeginEffect, EndsEffect, WorkIsQuiet, SucceedsEffect
    <2>3. j \in Evaluators /\ Judged[j] \in Runs \ {RunOf[j]}
      BY <2>2, RunsOfJobs DEF Jobs, Runs
    <2>4. /\ records'[r].by[1] = j /\ records'[r].read = job[j].read /\ records'[r].samples = job[j].all
          /\ records'[Judged[j]] = records[Judged[j]]
          /\ job[j].pc = "commit"
      BY <2>2, <2>3, SucceedsEffect DEF Me
    <2>. QED
      BY <2>3, <2>4 DEF EvaluationReads
  <1>. QED
    BY <1>2, <1>3

-----------------------------------------------------------------------------
(* Theorems *)

\* The invariant is inductive.
THEOREM Inductive == Inv /\ [Next]_vars => Inv'
  <1> SUFFICES ASSUME Inv, [Next]_vars
               PROVE  Inv'
    OBVIOUS
  <1>1. CASE Next
    <2>1. PICK j \in Jobs : Execute(j) \/ Begin(j) \/ Ends(j) \/ WorksOn(j) \/ Succeeds(j)
      BY <1>1, Steps
    <2>2. TypeOK' /\ Started'
      BY <2>1, NextType, NextStarted DEF Inv
    <2>3. Owner' /\ RowsAreOfThePast' /\ RowsIffSucceeded' /\ Authors'
      BY <2>1, NextOwner, NextRowsOfThePast, NextRowsIff, NextAuthors DEF Inv
    <2>4. PredictionProgress' /\ EvaluationProgress' /\ EvaluationReads'
      BY <2>1, NextPrediction, NextEvaluation, NextReads DEF Inv
    <2>5. RecordMatchesFiles' /\ EvaluatesOneAttempt'
      BY <2>1, NextMatches, NextEvaluates DEF Inv
    <2>. QED
      BY <2>2, <2>3, <2>4, <2>5 DEF Inv
  <1>2. CASE UNCHANGED vars
    <2>1. UNCHANGED <<records, predictions, reports, artifacts, job>>
      BY <1>2 DEF vars
    <2>2. TypeOK' /\ Started'
      BY <2>1 DEF Inv, TypeOK, Started, Working
    <2>3. Owner' /\ RowsAreOfThePast'
      BY <2>1 DEF Inv, Owner, RowsAreOfThePast, InExecute, Working, Me
    <2>4. RowsIffSucceeded' /\ Authors'
      BY <2>1 DEF Inv, RowsIffSucceeded, Authors
    <2>5. PredictionProgress'
      BY <2>1 DEF Inv, PredictionProgress, Me
    <2>6. EvaluationProgress'
      BY <2>1 DEF Inv, EvaluationProgress, Me
    <2>7. EvaluationReads'
      BY <2>1 DEF Inv, EvaluationReads
    <2>8. RecordMatchesFiles' /\ EvaluatesOneAttempt'
      BY <2>1 DEF Inv, RecordMatchesFiles, EvaluatesOneAttempt
    <2>. QED
      BY <2>2, <2>3, <2>4, <2>5, <2>6, <2>7, <2>8 DEF Inv
  <1>. QED
    BY <1>1, <1>2

\* All parts of the invariant hold of every behaviour.
THEOREM InvHolds == Spec => []Inv
  BY InitInv, Inductive, PTL DEF Spec

\* Records, files, artifact rows and the progress of jobs keep their types.
THEOREM DetectionTypeCorrect == Spec => []TypeOK
  <1>1. Inv => TypeOK
    BY DEF Inv
  <1>. QED
    BY <1>1, InvHolds, PTL

\* Whatever fails, is lost or is executed again, the record of a run that
\* SUCCEEDED has the files of its own attempt beside it, and no other's.
THEOREM RecordsMatchFiles == Spec => []RecordMatchesFiles
  <1>1. Inv => RecordMatchesFiles
    BY DEF Inv
  <1>. QED
    BY <1>1, InvHolds, PTL

\* An evaluation that SUCCEEDED is of one attempt of a run that SUCCEEDED, though
\* it looks at the record once and reads the files later, one by one.
THEOREM EvaluationsAreOfOneAttempt == Spec => []EvaluatesOneAttempt
  <1>1. Inv => EvaluatesOneAttempt
    BY DEF Inv
  <1>. QED
    BY <1>1, InvHolds, PTL

\* The rows of artifacts are there exactly with the record of their success.
THEOREM RowsGoWithSuccess == Spec => []RowsIffSucceeded
  <1>1. Inv => RowsIffSucceeded
    BY DEF Inv
  <1>. QED
    BY <1>1, InvHolds, PTL
=============================================================================
