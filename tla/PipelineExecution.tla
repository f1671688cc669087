-------------------------- MODULE PipelineExecution --------------------------
(***************************************************************************)
(* One pipeline run: the API that queues it, the broker that carries it,   *)
(* and the pipeline workers, whose PipelineRunner takes the tasks of the   *)
(* run in order and has a PipelineTaskRunner execute each of them as a job *)
(* in the same process.                                                    *)
(*                                                                         *)
(* Shared state is the run's row, the rows of its tasks and the jobs.      *)
(* Unlike a job, a run is never claimed: a worker reads the row, checks    *)
(* the status and later saves its copy.  A task row, too, is read once,    *)
(* kept, changed in memory and saved.  As in JobLifecycle a save is a      *)
(* SELECT without a lock, a step of its own here, and later an UPDATE of   *)
(* only the columns that differ from what that SELECT saw.                 *)
(*                                                                         *)
(* Apart from that one action is one transaction, one message or one read; *)
(* a `fault` is an error raised by one of them, a `crash` the loss of a    *)
(* worker process.                                                         *)
(* The job of a task is abstracted to its claim and its end: JobLifecycle  *)
(* is the same code in full.                                               *)
(***************************************************************************)
EXTENDS Naturals, Sequences, FiniteSets

CONSTANTS
    Requests,         \* calls of POST /pipelines/{id}/execute; also Celery task ids
    Runners,          \* slots of the pipeline worker pool
    NumTasks,         \* tasks of the pipeline, numbered in their order
    DependsOn,        \* DependsOn[t]: the tasks that t depends on
    Skippable,        \* optional tasks the run has no parameters for
    Gated,            \* tasks with quality rules
    MaxRetries,       \* retries Celery makes after a raised task (the code's 3)
    MaxFaults,        \* bound on the number of errors raised by a transaction
    MaxCrashes,       \* bound on the number of worker losses
    MaxRedeliveries,  \* bound on the number of early redeliveries
    DisciplinedClient \* TRUE: execute is called only while no call is open and
                      \* no message for the run is live

Tasks == 1..NumTasks

ASSUME PipelineAssumption ==
    /\ NumTasks \in Nat \ {0}
    /\ DependsOn \in [Tasks -> SUBSET Tasks]
    /\ \A t \in Tasks : \A d \in DependsOn[t] : d < t
    /\ Skippable \subseteq Tasks /\ Gated \subseteq Tasks \ Skippable
    /\ MaxRetries \in Nat
    /\ MaxFaults \in Nat /\ MaxCrashes \in Nat /\ MaxRedeliveries \in Nat
    /\ DisciplinedClient \in BOOLEAN

VARIABLES
    run,      \* the row of the run: its status and the result built from the tasks
    tasks,    \* the rows of its tasks
    jobs,     \* the jobs created for tasks, in order of creation
    request,  \* per request: where it stands, the row it read, and what the
              \* SELECT of its save saw
    queue,    \* copies in the broker of each <<task id, attempt>>
    runner,   \* per pipeline worker: where PipelineRunner.run stands, its
              \* copies, and what the SELECT of its save of a row saw
    records,  \* requests whose execution record is committed
    faults, crashes, redeliveries

vars == <<run, tasks, jobs, request, queue, runner, records, faults, crashes, redeliveries>>

-----------------------------------------------------------------------------
(* Data *)

RunStatus == {"PENDING", "QUEUED", "RUNNING", "SUCCEEDED", "FAILED", "BLOCKED"}
TaskStatus == {"PENDING", "RUNNING", "SUCCEEDED", "FAILED", "BLOCKED", "SKIPPED"}
JobStatus == {"PENDING", "RUNNING", "SUCCEEDED", "FAILED"}

\* What the quality rules of a task say of a result; no rules always pass it.
Verdicts == {"good", "blocking"}
VerdictsOf(t) == IF t \in Gated THEN Verdicts ELSE {"good"}

\* A task result names the job it came from.  Job 0 is none, and also stands
\* for the id of a job whose creation was rolled back.
Result == [job : Nat, verdict : Verdicts \cup {"none", "skipped"}]
NoResult == [job |-> 0, verdict |-> "none"]
SkippedResult == [job |-> 0, verdict |-> "skipped"]

RunRow == [status : RunStatus, result : [Tasks -> Result]]
TaskRow == [status : TaskStatus, job : Nat, result : Result]

\* `inputs` are the jobs whose results the task's inputs were resolved from.
Job == [task : Tasks, status : JobStatus, verdict : Verdicts \cup {"none"},
        inputs : [Tasks -> Nat]]

NewRun == [status |-> "PENDING", result |-> [t \in Tasks |-> NoResult]]
NewTask == [status |-> "PENDING", job |-> 0, result |-> NoResult]
NoInputs == [d \in Tasks |-> 0]

\* In place of the row seen: the SELECT of the save has not run.
Unread == [status |-> "ABSENT"]

\* What a save leaves in a column that was `seen` by its SELECT and holds `now`.
Column(new, seen, now) == IF new # seen THEN new ELSE now

\* The rows that PostgresPipelineRunRepository.update may leave.  A result
\* holds more than the model keeps of it: one that looks like the one seen may
\* yet differ from it and be written.
SavedRun(new, seen) ==
    [status : {Column(new.status, seen.status, run.status)},
     result : {Column(new.result, seen.result, run.result), new.result}]

\* The row that PostgresPipelineTaskRunRepository.update leaves of `now`.
SavedTask(new, seen, now) ==
    [status |-> Column(new.status, seen.status, now.status),
     job    |-> Column(new.job, seen.job, now.job),
     result |-> Column(new.result, seen.result, now.result)]

Messages == Requests \X (0..MaxRetries)

\* What execute refuses (validate_executable) ...
NotExecutable == {"RUNNING", "SUCCEEDED"}

\* Variants, each with a plausible mistake, used to test the properties.
NotRunnableNoSucceeded == {"RUNNING", "BLOCKED"}
NotRunnableAlsoQueued == {"SUCCEEDED", "RUNNING", "BLOCKED", "QUEUED"}
DoneNotSucceeded == {"SKIPPED"}
DoneAlsoFailed == {"SUCCEEDED", "SKIPPED", "FAILED"}

\* ... what PipelineRunner refuses (_validate_runnable) ...
NotRunnable == {"SUCCEEDED", "RUNNING", "BLOCKED"}
\* ... and the task statuses that let the runner pass on to the next task
\* (_handle_pre_execution_state).
Done == {"SUCCEEDED", "SKIPPED"}

\* The task statuses a dependency must have (_validate_dependencies).
Acceptable == {"SUCCEEDED", "SKIPPED"}

\* PipelineQualityGate.check_task_result raises.
GateBlocks(t, result) == t \in Gated /\ result.verdict = "blocking"

-----------------------------------------------------------------------------
(* The API and the broker, as for jobs *)

MessageLive ==
    \/ \E m \in Messages : queue[m] > 0
    \/ \E w \in Runners : runner[w].pc # "idle"

Open(r) == request[r].pc \in {"validated", "queued", "sent"}

MayCall == DisciplinedClient => ~MessageLive /\ \A q \in Requests : ~Open(q)

\* PipelineService.validate_executable: BLOCKED runs may be executed again.
ValidateExecutable(r) ==
    /\ request[r].pc = "idle"
    /\ MayCall
    /\ request' = [request EXCEPT ![r] =
          IF run.status \in NotExecutable
          THEN [@ EXCEPT !.pc = "refused"]
          ELSE [pc |-> "validated", copy |-> run, seen |-> Unread]]
    /\ UNCHANGED <<run, tasks, jobs, queue, runner, records, faults, crashes, redeliveries>>

\* PipelineService.mark_queued: the SELECT of the save ...
ReadForQueued(r) ==
    /\ request[r].pc = "validated"
    /\ request[r].seen = Unread
    /\ request' = [request EXCEPT ![r].seen = run]
    /\ UNCHANGED <<run, tasks, jobs, queue, runner, records, faults, crashes, redeliveries>>

\* ... and its UPDATE, with the first commit of the facade.
MarkQueued(r) ==
    /\ request[r].pc = "validated"
    /\ request[r].seen # Unread
    /\ run' \in SavedRun([request[r].copy EXCEPT !.status = "QUEUED"], request[r].seen)
    /\ request' = [request EXCEPT ![r] = [pc |-> "queued", copy |-> NewRun, seen |-> Unread]]
    /\ UNCHANGED <<tasks, jobs, queue, runner, records, faults, crashes, redeliveries>>

SendTask(r) ==
    /\ request[r].pc = "queued"
    /\ queue' = [queue EXCEPT ![<<r, 0>>] = @ + 1]
    /\ request' = [request EXCEPT ![r].pc = "sent"]
    /\ UNCHANGED <<run, tasks, jobs, runner, records, faults, crashes, redeliveries>>

RecordExecution(r) ==
    /\ request[r].pc = "sent"
    /\ records' = records \cup {r}
    /\ request' = [request EXCEPT ![r].pc = "done"]
    /\ UNCHANGED <<run, tasks, jobs, queue, runner, faults, crashes, redeliveries>>

RequestFault(r) ==
    /\ faults < MaxFaults
    /\ Open(r)
    /\ faults' = faults + 1
    /\ request' = [request EXCEPT ![r] = [pc |-> "error", copy |-> NewRun, seen |-> Unread]]
    /\ UNCHANGED <<run, tasks, jobs, queue, runner, records, crashes, redeliveries>>

Api ==
    \E r \in Requests : \/ ValidateExecutable(r) \/ ReadForQueued(r) \/ MarkQueued(r)
                        \/ SendTask(r) \/ RecordExecution(r) \/ RequestFault(r)

IdleRunner == [pc |-> "idle", msg |-> <<>>, cur |-> 1, run |-> NewRun, task |-> NewTask,
               inputs |-> NoInputs, final |-> "SUCCEEDED", snapshot |-> NewRun.result,
               seenRun |-> Unread, seenTask |-> Unread]

Deliver(w, m) ==
    /\ runner[w].pc = "idle"
    /\ queue[m] > 0
    /\ queue' = [queue EXCEPT ![m] = @ - 1]
    /\ runner' = [runner EXCEPT ![w] = [IdleRunner EXCEPT !.pc = "load", !.msg = m]]
    /\ UNCHANGED <<run, tasks, jobs, request, records, faults, crashes, redeliveries>>

\* run_pipeline_task raises: autoretry_for publishes the next attempt.
RaiseTask(w) ==
    LET m == runner[w].msg
    IN  /\ runner[w].pc = "raise"
        /\ runner' = [runner EXCEPT ![w] = IdleRunner]
        /\ IF m[2] < MaxRetries
           THEN queue' = [queue EXCEPT ![<<m[1], m[2] + 1>>] = @ + 1]
           ELSE UNCHANGED queue
        /\ UNCHANGED <<run, tasks, jobs, request, records, faults, crashes, redeliveries>>

\* run_pipeline_task returns: the message is acknowledged.
ReturnTask(w) ==
    /\ runner[w].pc = "return"
    /\ runner' = [runner EXCEPT ![w] = IdleRunner]
    /\ UNCHANGED <<run, tasks, jobs, request, queue, records, faults, crashes, redeliveries>>

Crash(w) ==
    /\ crashes < MaxCrashes
    /\ runner[w].pc # "idle"
    /\ crashes' = crashes + 1
    /\ queue' = [queue EXCEPT ![runner[w].msg] = @ + 1]
    /\ runner' = [runner EXCEPT ![w] = IdleRunner]
    /\ UNCHANGED <<run, tasks, jobs, request, records, faults, redeliveries>>

Redeliver(w) ==
    /\ redeliveries < MaxRedeliveries
    /\ runner[w].pc # "idle"
    /\ redeliveries' = redeliveries + 1
    /\ queue' = [queue EXCEPT ![runner[w].msg] = @ + 1]
    /\ UNCHANGED <<run, tasks, jobs, request, runner, records, faults, crashes>>

-----------------------------------------------------------------------------
(* PipelineRunner.run *)

At(w, pc) == runner[w].pc = pc
Goto(w, pc) == runner' = [runner EXCEPT ![w].pc = pc]
\* PipelineRunner.run is over; the Celery task is to raise or to return.
Over(rn, pc) == [IdleRunner EXCEPT !.pc = pc, !.msg = rn.msg]
Cur(w) == runner[w].cur
Env == <<request, queue, records, faults, crashes, redeliveries>>

\* The execution of a task is over, and what it held is gone.
TaskOver(rn, pc) ==
    [rn EXCEPT !.pc = pc, !.task = NewTask, !.inputs = NoInputs, !.seenTask = Unread]

\* Variant: one turn too many.
NextTurnOffByOne(rn) ==
    IF rn.cur > NumTasks THEN TaskOver(rn, "list")
    ELSE [TaskOver(rn, "task") EXCEPT !.cur = @ + 1]

\* The loop's next turn, with a task execution of its own; after the last task
\* the run is to be SUCCEEDED.
NextTurn(rn) ==
    IF rn.cur = NumTasks THEN [TaskOver(rn, "list") EXCEPT !.final = "SUCCEEDED"]
    ELSE [TaskOver(rn, "task") EXCEPT !.cur = @ + 1]

LoadRun(w) ==
    /\ At(w, "load")
    /\ runner' = [runner EXCEPT ![w] =
          IF run.status \in NotRunnable THEN Over(@, "raise")
          ELSE [@ EXCEPT !.pc = "start", !.run = run]]
    /\ UNCHANGED <<run, tasks, jobs>> /\ UNCHANGED Env

\* The SELECT of a save of the run: of _start_pipeline or of the last save.
ReadRunForSave(w) ==
    /\ runner[w].pc \in {"start", "save"}
    /\ runner[w].seenRun = Unread
    /\ runner' = [runner EXCEPT ![w].seenRun = run]
    /\ UNCHANGED <<run, tasks, jobs>> /\ UNCHANGED Env

\* The saved run is kept, but all that is saved of it later is set anew.
StartPipeline(w) ==
    /\ At(w, "start")
    /\ runner[w].seenRun # Unread
    /\ run' \in SavedRun([runner[w].run EXCEPT !.status = "RUNNING"], runner[w].seenRun)
    /\ runner' = [runner EXCEPT ![w].pc = "task", ![w].run = NewRun, ![w].seenRun = Unread]
    /\ UNCHANGED <<tasks, jobs>> /\ UNCHANGED Env

\* list_tasks, at the end of the run, of a blocked run or of a failed one.
ListTaskRuns(w) ==
    /\ At(w, "list")
    /\ runner' = [runner EXCEPT ![w].pc = "save",
                                ![w].snapshot = [t \in Tasks |-> tasks[t].result]]
    /\ UNCHANGED <<run, tasks, jobs>> /\ UNCHANGED Env

\* Variant: only a run that succeeded or is blocked is saved.
FinishPipelineNoFail(w) ==
    /\ At(w, "save")
    /\ runner[w].seenRun # Unread
    /\ run' \in IF runner[w].final = "FAILED" THEN {run}
                ELSE SavedRun([status |-> runner[w].final, result |-> runner[w].snapshot],
                              runner[w].seenRun)
    /\ runner' = [runner EXCEPT ![w] = Over(@, IF @.final = "FAILED" THEN "raise" ELSE "return")]
    /\ UNCHANGED <<tasks, jobs>> /\ UNCHANGED Env

\* _succeed_pipeline, _block_pipeline and _fail_pipeline.
FinishPipeline(w) ==
    /\ At(w, "save")
    /\ runner[w].seenRun # Unread
    /\ run' \in SavedRun([status |-> runner[w].final, result |-> runner[w].snapshot],
                         runner[w].seenRun)
    /\ runner' = [runner EXCEPT ![w] = Over(@, IF @.final = "FAILED" THEN "raise" ELSE "return")]
    /\ UNCHANGED <<tasks, jobs>> /\ UNCHANGED Env

-----------------------------------------------------------------------------
(* PipelineTaskRunner.run *)

\* _prepare_execution and _handle_pre_execution_state.
PrepareTask(w) ==
    LET row == tasks[Cur(w)]
    IN  /\ At(w, "task")
        /\ runner' = [runner EXCEPT ![w] =
              IF row.status \in Done THEN NextTurn(@)
              ELSE [@ EXCEPT !.pc = IF Cur(w) \in Skippable THEN "skip" ELSE "deps",
                             !.task = row]]
        /\ UNCHANGED <<run, tasks, jobs>> /\ UNCHANGED Env

\* The SELECT of a save of the current task's row.
ReadTaskForSave(w) ==
    /\ runner[w].pc \in {"skip", "startTask", "plan", "record", "blockTask", "failTask"}
    /\ runner[w].seenTask = Unread
    /\ runner' = [runner EXCEPT ![w].seenTask = tasks[Cur(w)]]
    /\ UNCHANGED <<run, tasks, jobs>> /\ UNCHANGED Env

\* What the UPDATE of such a save makes of the row; the copy in memory is then
\* refreshed from it, other runners' columns included.
SavedRow(w, new) == SavedTask(new, runner[w].seenTask, tasks[Cur(w)])

SkipTask(w) ==
    /\ At(w, "skip")
    /\ runner[w].seenTask # Unread
    /\ tasks' = [tasks EXCEPT ![Cur(w)] =
          SavedRow(w, [runner[w].task EXCEPT !.status = "SKIPPED", !.result = SkippedResult])]
    /\ runner' = [runner EXCEPT ![w] = NextTurn(@)]
    /\ UNCHANGED <<run, jobs>> /\ UNCHANGED Env

ValidateDependencies(w) ==
    /\ At(w, "deps")
    /\ Goto(w, IF \A d \in DependsOn[Cur(w)] : tasks[d].status \in Acceptable
               THEN "resolve" ELSE "failTask")
    /\ UNCHANGED <<run, tasks, jobs>> /\ UNCHANGED Env

\* Variant: the resolver also takes the results of tasks that are not SUCCEEDED.
ResolveInputsAnyStatus(w) ==
    /\ At(w, "resolve")
    /\ runner' = [runner EXCEPT ![w].pc = "startTask",
          ![w].inputs = [d \in Tasks |-> IF d \in DependsOn[Cur(w)] THEN tasks[d].job ELSE 0]]
    /\ UNCHANGED <<run, tasks, jobs>> /\ UNCHANGED Env

\* The dependencies are read again, and only a SUCCEEDED one gives its refs.
ResolveInputs(w) ==
    /\ At(w, "resolve")
    /\ runner' = [runner EXCEPT ![w].pc = "startTask",
          ![w].inputs = [d \in Tasks |->
              IF d \in DependsOn[Cur(w)] /\ tasks[d].status = "SUCCEEDED"
              THEN tasks[d].result.job ELSE 0]]
    /\ UNCHANGED <<run, tasks, jobs>> /\ UNCHANGED Env

SaveTask(w, new, pc) ==
    /\ runner[w].seenTask # Unread
    /\ tasks' = [tasks EXCEPT ![Cur(w)] = SavedRow(w, new)]
    /\ runner' = [runner EXCEPT ![w] =
          [@ EXCEPT !.pc = pc, !.task = SavedRow(w, new), !.seenTask = Unread]]

StartTask(w) ==
    /\ At(w, "startTask")
    /\ SaveTask(w, [runner[w].task EXCEPT !.status = "RUNNING"], "plan")
    /\ UNCHANGED <<run, jobs>> /\ UNCHANGED Env

\* _create_and_attach_job; the handler may refuse to build its parameters.
CreateAndAttachJob(w) ==
    /\ At(w, "plan")
    /\ jobs' = Append(jobs, [task |-> Cur(w), status |-> "PENDING", verdict |-> "none",
                             inputs |-> runner[w].inputs])
    /\ SaveTask(w, [runner[w].task EXCEPT !.job = Len(jobs')], "claim")
    /\ UNCHANGED run /\ UNCHANGED Env

PlanningFails(w) ==
    /\ At(w, "plan")
    /\ runner[w].seenTask = Unread
    /\ Goto(w, "failTask")
    /\ UNCHANGED <<run, tasks, jobs>> /\ UNCHANGED Env

\* JobRunner.run, in the same process, on the job just created.
ClaimJob(w) ==
    /\ At(w, "claim")
    /\ jobs' = [jobs EXCEPT ![runner[w].task.job].status = "RUNNING"]
    /\ Goto(w, "job")
    /\ UNCHANGED <<run, tasks>> /\ UNCHANGED Env

FinishJob(w) ==
    /\ At(w, "job")
    /\ \/ \E v \in VerdictsOf(Cur(w)) :
            /\ jobs' = [jobs EXCEPT ![runner[w].task.job].status = "SUCCEEDED",
                                    ![runner[w].task.job].verdict = v]
            /\ Goto(w, "record")
       \/ /\ jobs' = [jobs EXCEPT ![runner[w].task.job].status = "FAILED"]
          /\ Goto(w, "failTask")
    /\ UNCHANGED <<run, tasks>> /\ UNCHANGED Env

\* Variant: a result the row already has is kept.
RecordedRowKeepsResult(row) ==
    [row EXCEPT !.status = "SUCCEEDED",
                !.result = IF @ # NoResult THEN @
                           ELSE [job |-> row.job, verdict |-> jobs[row.job].verdict]]

\* The row in memory once PipelineTaskResultRecorder.record has filled it in.
RecordedRow(row) ==
    [row EXCEPT !.status = "SUCCEEDED",
                !.result = [job |-> row.job, verdict |-> jobs[row.job].verdict]]

\* record commits the SUCCEEDED row; then the quality gate looks at it.
RecordTaskResult(w) ==
    LET row == SavedRow(w, RecordedRow(runner[w].task))
    IN  /\ At(w, "record")
        /\ runner[w].seenTask # Unread
        /\ tasks' = [tasks EXCEPT ![Cur(w)] = row]
        /\ runner' = [runner EXCEPT ![w] =
              IF GateBlocks(Cur(w), row.result)
              THEN [@ EXCEPT !.pc = "blockTask", !.task = row, !.seenTask = Unread]
              ELSE NextTurn([@ EXCEPT !.task = row])]
        /\ UNCHANGED <<run, jobs>> /\ UNCHANGED Env

\* record refuses a result that lacks a required output.
RecordingFails(w) ==
    /\ At(w, "record")
    /\ runner[w].seenTask = Unread
    /\ Goto(w, "failTask")
    /\ UNCHANGED <<run, tasks, jobs>> /\ UNCHANGED Env

\* Variant: the task row is left as record saved it.
BlockTaskNoSave(w) ==
    /\ At(w, "blockTask")
    /\ runner[w].seenTask # Unread
    /\ runner' = [runner EXCEPT ![w] = [TaskOver(@, "list") EXCEPT !.final = "BLOCKED"]]
    /\ UNCHANGED <<run, tasks, jobs>> /\ UNCHANGED Env

\* _block_task, and the runner leaves its loop (_block_pipeline_from_task_result).
BlockTask(w) ==
    LET new == [runner[w].task EXCEPT !.status = "BLOCKED"]
    IN  /\ At(w, "blockTask")
        /\ runner[w].seenTask # Unread
        /\ tasks' = [tasks EXCEPT ![Cur(w)] = SavedRow(w, new)]
        /\ runner' = [runner EXCEPT ![w] = [TaskOver(@, "list") EXCEPT !.final = "BLOCKED"]]
        /\ UNCHANGED <<run, jobs>> /\ UNCHANGED Env

\* _fail_task re-raises, and the runner fails the run (_fail_and_raise).
FailTask(w) ==
    LET new == [runner[w].task EXCEPT !.status = "FAILED"]
    IN  /\ At(w, "failTask")
        /\ runner[w].seenTask # Unread
        /\ tasks' = [tasks EXCEPT ![Cur(w)] = SavedRow(w, new)]
        /\ runner' = [runner EXCEPT ![w] = [TaskOver(@, "list") EXCEPT !.final = "FAILED"]]
        /\ UNCHANGED <<run, jobs>> /\ UNCHANGED Env

-----------------------------------------------------------------------------
(* Errors raised by a read or a transaction *)

\* What the row in memory may hold when the step at which w stands has failed:
\* what the step assigned to it before its save stays there.
Unsaved(w) ==
    LET row == runner[w].task
    IN  CASE At(w, "startTask") -> {[row EXCEPT !.status = "RUNNING"]}
          [] At(w, "plan")      -> {row, [row EXCEPT !.job = 0]}
          [] At(w, "record")    -> {RecordedRow(row)}
          [] OTHER              -> {row}

\* In PipelineTaskRunner's try: rolled back, and on to _fail_task.  An error
\* in the job makes JobRunner fail the job and raise.
FaultInTask(w) ==
    /\ faults < MaxFaults
    /\ runner[w].pc \in {"deps", "resolve", "startTask", "plan", "claim", "job", "record"}
    /\ faults' = faults + 1
    /\ jobs' = IF At(w, "job") THEN [jobs EXCEPT ![runner[w].task.job].status = "FAILED"]
               ELSE jobs
    /\ \E row \in Unsaved(w) :
          runner' = [runner EXCEPT ![w] =
                        [@ EXCEPT !.pc = "failTask", !.task = row, !.seenTask = Unread]]
    /\ UNCHANGED <<run, tasks, request, queue, records, crashes, redeliveries>>

\* Outside of that try but in PipelineRunner's; _block_task and _fail_task are
\* there because they run in except clauses.  The except clause lists the
\* tasks before it rolls back: if the error has broken the transaction, that
\* raises too, and the run is not saved.
FaultInLoop(w) ==
    /\ faults < MaxFaults
    /\ \/ runner[w].pc \in {"task", "skip", "blockTask", "failTask"}
       \/ runner[w].pc \in {"list", "save"} /\ runner[w].final # "FAILED"
    /\ faults' = faults + 1
    /\ \/ runner' = [runner EXCEPT ![w] = [TaskOver(@, "list") EXCEPT !.final = "FAILED",
                                                                    !.seenRun = Unread]]
       \/ runner' = [runner EXCEPT ![w] = Over(@, "raise")]
    /\ UNCHANGED <<run, tasks, jobs, request, queue, records, crashes, redeliveries>>

\* Outside of both: the Celery task raises.
FaultOutside(w) ==
    /\ faults < MaxFaults
    /\ \/ runner[w].pc \in {"load", "start"}
       \/ runner[w].pc \in {"list", "save"} /\ runner[w].final = "FAILED"
    /\ faults' = faults + 1
    /\ runner' = [runner EXCEPT ![w] = Over(@, "raise")]
    /\ UNCHANGED <<run, tasks, jobs, request, queue, records, crashes, redeliveries>>

-----------------------------------------------------------------------------
RunnerStep(w) ==
    \/ LoadRun(w) \/ ReadRunForSave(w) \/ StartPipeline(w) \/ ListTaskRuns(w)
    \/ FinishPipeline(w) \/ PrepareTask(w) \/ ReadTaskForSave(w) \/ SkipTask(w)
    \/ ValidateDependencies(w) \/ ResolveInputs(w) \/ StartTask(w) \/ CreateAndAttachJob(w)
    \/ PlanningFails(w) \/ ClaimJob(w) \/ FinishJob(w) \/ RecordTaskResult(w)
    \/ RecordingFails(w) \/ BlockTask(w) \/ FailTask(w) \/ RaiseTask(w) \/ ReturnTask(w)

RunnerPool ==
    \E w \in Runners : \/ \E m \in Messages : Deliver(w, m)
                       \/ RunnerStep(w) \/ FaultInTask(w) \/ FaultInLoop(w) \/ FaultOutside(w)
                       \/ Crash(w) \/ Redeliver(w)

\* create_pipeline_run commits the run and all its tasks in one transaction.
Init ==
    /\ run = NewRun
    /\ tasks = [t \in Tasks |-> NewTask]
    /\ jobs = <<>>
    /\ request = [r \in Requests |-> [pc |-> "idle", copy |-> NewRun, seen |-> Unread]]
    /\ queue = [m \in Messages |-> 0]
    /\ runner = [w \in Runners |-> IdleRunner]
    /\ records = {}
    /\ faults = 0 /\ crashes = 0 /\ redeliveries = 0

Next == Api \/ RunnerPool

Spec == Init /\ [][Next]_vars

\* As in JobLifecycle: open requests and workers go on, nothing else must happen.
Fairness ==
    /\ \A r \in Requests :
          WF_vars(ReadForQueued(r) \/ MarkQueued(r) \/ SendTask(r) \/ RecordExecution(r))
    /\ \A w \in Runners : WF_vars(RunnerStep(w) \/ \E m \in Messages : Deliver(w, m))

FairSpec == Spec /\ Fairness
-----------------------------------------------------------------------------
(* Properties *)

RequestPcs == {"idle", "validated", "queued", "sent", "done", "refused", "error"}
ActivePcs == {"task", "skip", "deps", "resolve", "startTask", "plan", "claim", "job",
              "record", "blockTask", "failTask", "list", "save"}
RunnerPcs == ActivePcs \cup {"idle", "load", "start", "raise", "return"}

TypeOK ==
    /\ run \in RunRow
    /\ tasks \in [Tasks -> TaskRow]
    /\ jobs \in Seq(Job)
    /\ request \in [Requests -> [pc : RequestPcs, copy : RunRow, seen : RunRow \cup {Unread}]]
    /\ queue \in [Messages -> Nat]
    /\ runner \in [Runners -> [pc : RunnerPcs, msg : Messages \cup {<<>>}, cur : Tasks,
                               run : RunRow, task : TaskRow, inputs : [Tasks -> Nat],
                               final : {"SUCCEEDED", "BLOCKED", "FAILED"},
                               snapshot : [Tasks -> Result],
                               seenRun : RunRow \cup {Unread},
                               seenTask : TaskRow \cup {Unread}]]
    /\ records \subseteq Requests
    /\ faults \in Nat /\ crashes \in Nat /\ redeliveries \in Nat

\* A SUCCEEDED task row is one execution's: its result is that of the job the
\* row names, which belongs to the task and SUCCEEDED, although failed
\* attempts leave job ids and results in it (_validate_recording_contract).
\* This is for one runner at a time: of two, one may record its result, and
\* not its job's id, over the other's (PostgresPipelineTaskRunRepository.update).
TaskRowConsistent ==
    \A t \in Tasks :
        tasks[t].status = "SUCCEEDED" =>
            /\ tasks[t].result.job = tasks[t].job
            /\ tasks[t].job \in DOMAIN jobs
            /\ jobs[tasks[t].job].task = t
            /\ jobs[tasks[t].job].status = "SUCCEEDED"
            /\ jobs[tasks[t].job].verdict = tasks[t].result.verdict

\* What a job was given as input came from jobs that SUCCEEDED, although its
\* dependencies were checked and read in separate transactions, and another
\* runner may have restarted them in between (_resolve_upstream_task_refs).
JobInputsSucceeded ==
    \A j \in DOMAIN jobs : \A d \in Tasks :
        jobs[j].inputs[d] # 0 =>
            /\ d \in DependsOn[jobs[j].task]
            /\ jobs[jobs[j].inputs[d]].task = d
            /\ jobs[jobs[j].inputs[d]].status = "SUCCEEDED"

\* Nothing but a crash or an error of the database leaves a run RUNNING that
\* no runner is at work on: such a run can neither be run nor executed again.
OrphanOnlyAfterFailure ==
    run.status = "RUNNING" /\ ~(\E w \in Runners : runner[w].pc \in ActivePcs)
        => faults + crashes > 0

\* "Raised when a task completed but its result blocks the pipeline"
\* (PipelineQualityBlocked): after a blocking result of a gated task, nothing
\* that comes later in the pipeline has been touched.
GateHolds ==
    \A g, t \in Tasks : g < t /\ GateBlocks(g, tasks[g].result) => tasks[t] = NewTask

\* The lineage of a result is whole: the job a task's result came from took
\* exactly the results its dependencies show now, in spite of failed
\* attempts, retries and re-executions in between.
LineageConsistent ==
    \A t \in Tasks : tasks[t].status = "SUCCEEDED" =>
        \A d \in DependsOn[t] : jobs[tasks[t].result.job].inputs[d] = tasks[d].result.job

\* A SUCCEEDED run is complete: every task is done, and the run's result is
\* made of the results the task rows show (build_pipeline_result_from_task_runs).
SucceededIsComplete ==
    run.status = "SUCCEEDED" =>
        \A t \in Tasks : tasks[t].status \in {"SUCCEEDED", "SKIPPED"}
                        /\ run.result[t] = tasks[t].result

\* Nothing is changed in a run that SUCCEEDED (validate_executable,
\* _validate_runnable): a late message, a retry or a request is refused.
SucceededIsFinal == [][run.status = "SUCCEEDED" => UNCHANGED <<run, tasks, jobs>>]_vars

\* Under a disciplined client, and with no error and no early redelivery, the
\* platform implements AbstractPipeline: the tasks passed are those before
\* the first that is not done, or whose result the gate blocks.
Passed(t) == tasks[t].status \in {"SUCCEEDED", "SKIPPED"} /\ ~GateBlocks(t, tasks[t].result)

Abstract == INSTANCE AbstractPipeline
                WITH status <- run.status,
                     passed <- Cardinality({t \in Tasks : \A u \in 1..t : Passed(u)})

ImplementsAbstractPipeline == Abstract!Spec

\* Without failures a queued run ends: a runner takes its message and walks
\* through the tasks to a terminal status.
PipelineSettles ==
    run.status \in {"QUEUED", "RUNNING"} ~> run.status \in {"SUCCEEDED", "BLOCKED", "FAILED"}
=============================================================================
