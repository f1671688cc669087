---------------------------- MODULE JobLifecycle ----------------------------
(***************************************************************************)
(* The life of one job: the API that queues it, the Celery broker that     *)
(* carries it, and the job workers whose JobRunner executes it.            *)
(*                                                                         *)
(* The job is one row of the `jobs` table.  Three parties write it:        *)
(*   - an `execute` request of the API reads the row, later saves its copy *)
(*     as QUEUED and commits, and only then sends the Celery task          *)
(*     (JobDispatchFacade.dispatch);                                       *)
(*   - a worker claims the row with one conditional UPDATE, which is       *)
(*     atomic, and keeps the returned manifest as its own copy;            *)
(*   - the same worker later saves its copy at every commit point of       *)
(*     JobRunner.run.                                                      *)
(* A save is PostgresJobRepository.update, and it is NOT atomic: it        *)
(* SELECTs the row without a lock, assigns every attribute, and its UPDATE *)
(* writes only the columns that differ from what that SELECT saw.  The     *)
(* SELECT is a step of its own here, and what it saw is kept in `seen`     *)
(* until the UPDATE, so that other commits come in between.                *)
(*                                                                         *)
(* Apart from that one action is one database transaction (or one message  *)
(* sent), because that is what other processes can see.  A `fault` is a    *)
(* database or broker error raised by the transaction instead of its       *)
(* effect, a `crash` is the loss of a worker process, and a `redelivery`   *)
(* is the broker handing a message out again while a worker still holds    *)
(* it.                                                                     *)
(***************************************************************************)
EXTENDS Naturals, FiniteSets

CONSTANTS
    Requests,         \* calls of POST /jobs/{id}/execute; also the Celery task ids
    Workers,          \* slots of the job worker pool
    NumSteps,         \* number of steps in the job's step list
    MaxRetries,       \* retries Celery makes after a raised task (the code's 3)
    MaxFaults,        \* bound on the number of database and broker errors
    MaxCrashes,       \* bound on the number of worker losses
    MaxRedeliveries,  \* bound on the number of early redeliveries
    DisciplinedClient \* TRUE: callers execute one call at a time, and never
                      \* while a message for the still claimable job is live

ASSUME JobLifecycleAssumption ==
    /\ NumSteps \in Nat /\ MaxRetries \in Nat
    /\ MaxFaults \in Nat /\ MaxCrashes \in Nat /\ MaxRedeliveries \in Nat
    /\ DisciplinedClient \in BOOLEAN

VARIABLES
    row,          \* the job's row, or NoRow before create_job
    request,      \* per request: where it stands, the row it read, and what
                  \* the SELECT of its save saw (NoRow: not yet run)
    queue,        \* copies in the broker of each <<task id, attempt>>
    worker,       \* per worker slot: where JobRunner.run stands, its copy,
                  \* and what the SELECT of its save saw
    events,       \* worker events committed to job_events, as <<claim, type>>
    queuedEvents, \* number of QUEUED events committed by the API
    records,      \* requests whose execution record is committed
    claims,       \* history: number of successful claims so far
    faults, crashes, redeliveries

vars == <<row, request, queue, worker, events, queuedEvents, records, claims,
          faults, crashes, redeliveries>>

-----------------------------------------------------------------------------
(* Data *)

\* ABSENT: there is no row yet.  CANCELLED and SKIPPED are never written.
JobStatus == {"ABSENT", "PENDING", "QUEUED", "RUNNING", "SUCCEEDED", "FAILED"}
StepStatus == {"PENDING", "RUNNING", "SUCCEEDED", "FAILED"}

\* The steps of a job, in order.
StepIds == 1..NumSteps

\* `result` is the claim whose handler produced the stored result, 0 for none.
Row == [status : JobStatus, steps : [StepIds -> StepStatus], result : Nat]

NoRow == [status |-> "ABSENT", steps |-> [i \in StepIds |-> "PENDING"], result |-> 0]

\* Variants of the definitions of this module, each with a plausible mistake;
\* the sensitivity of a property is tested by putting one in place.
NotExecutableNoRunning == {"SUCCEEDED"}
NotExecutableNoSucceeded == {"RUNNING"}
RunnableAlsoFailed == {"PENDING", "QUEUED", "FAILED"}
RunnableNotQueued == {"PENDING"}
MarkFirstDropsOthers(steps, from, to) == [i \in {j \in StepIds : steps[j] = from} |-> to]
MarkJobFailedNoSteps(r) == [r EXCEPT !.status = "FAILED"]

\* What execute refuses (validate_executable) ...
NotExecutable == {"RUNNING", "SUCCEEDED"}
\* ... and what claim_for_run accepts.
Runnable == {"PENDING", "QUEUED"}

Messages == Requests \X (0..MaxRetries)

MarkFirst(steps, from, to) ==
    [i \in StepIds |->
        IF steps[i] = from /\ \A j \in StepIds : j < i => steps[j] # from
        THEN to ELSE steps[i]]

MarkAll(steps, from, to) ==
    [i \in StepIds |-> IF steps[i] = from THEN to ELSE steps[i]]

MarkJobRunning(r) ==
    [r EXCEPT !.status = "RUNNING", !.steps = MarkFirst(@, "PENDING", "RUNNING")]

MarkJobSucceeded(r, claim) ==
    [r EXCEPT !.status = "SUCCEEDED", !.result = claim,
              !.steps = MarkFirst(@, "RUNNING", "SUCCEEDED")]

MarkJobFailed(r) ==
    [r EXCEPT !.status = "FAILED", !.steps = MarkAll(@, "RUNNING", "FAILED")]

\* JobResultRecorder.get_running_step, 0 for None.  The code takes the first;
\* the runner's control depends only on whether there is one.
RunningStep(r) ==
    IF \E i \in StepIds : r.steps[i] = "RUNNING"
    THEN CHOOSE i \in StepIds : r.steps[i] = "RUNNING"
    ELSE 0

\* What a save leaves in a column that was `seen` by its SELECT and holds `now`.
Column(new, seen, now) == IF new # seen THEN new ELSE now

\* A step list that has started carries times, which the model leaves out:
\* one that looks like the one seen may yet differ from it and be written.
SavedSteps(new, seen) ==
    {Column(new, seen, row.steps)} \cup {s \in {new} : \E i \in StepIds : s[i] # "PENDING"}

\* The rows that the UPDATE of PostgresJobRepository.update may leave.
Saved(copy, seen) ==
    [status : {Column(copy.status, seen.status, row.status)},
     steps  : SavedSteps(copy.steps, seen.steps),
     result : {Column(copy.result, seen.result, row.result)}]

-----------------------------------------------------------------------------
(* The API *)

\* A message for the job is in the broker or with a worker.
MessageLive ==
    \/ \E m \in Messages : queue[m] > 0
    \/ \E w \in Workers : worker[w].pc # "idle"

Open(r) == request[r].pc \in {"validated", "queued", "sent"}

MayCall(r) ==
    DisciplinedClient =>
        /\ \A q \in Requests : ~Open(q)
        /\ ~(row.status \in Runnable /\ MessageLive)

CreateJob ==
    /\ row.status = "ABSENT"
    /\ row' = [row EXCEPT !.status = "PENDING"]
    /\ UNCHANGED <<request, queue, worker, events, queuedEvents, records, claims,
                   faults, crashes, redeliveries>>

\* JobService.validate_executable: a SELECT outside any lock.
ValidateExecutable(r) ==
    /\ request[r].pc = "idle"
    /\ MayCall(r)
    /\ request' = [request EXCEPT ![r] =
          IF row.status \in NotExecutable \cup {"ABSENT"}
          THEN [@ EXCEPT !.pc = "refused"]
          ELSE [pc |-> "validated", copy |-> row, seen |-> NoRow]]
    /\ UNCHANGED <<row, queue, worker, events, queuedEvents, records, claims,
                   faults, crashes, redeliveries>>

\* JobService.mark_queued: the SELECT of the save ...
ReadForQueued(r) ==
    /\ request[r].pc = "validated"
    /\ request[r].seen = NoRow
    /\ request' = [request EXCEPT ![r].seen = row]
    /\ UNCHANGED <<row, queue, worker, events, queuedEvents, records, claims,
                   faults, crashes, redeliveries>>

\* ... and its UPDATE, with the QUEUED event and the first commit of the
\* facade: the row as it was read, with the status QUEUED.
MarkQueued(r) ==
    /\ request[r].pc = "validated"
    /\ request[r].seen # NoRow
    /\ row' \in Saved([request[r].copy EXCEPT !.status = "QUEUED"], request[r].seen)
    /\ queuedEvents' = queuedEvents + 1
    /\ request' = [request EXCEPT ![r] = [pc |-> "queued", copy |-> NoRow, seen |-> NoRow]]
    /\ UNCHANGED <<queue, worker, events, records, claims, faults, crashes, redeliveries>>

\* CeleryJobExecutionBackend.dispatch_job.
SendTask(r) ==
    /\ request[r].pc = "queued"
    /\ queue' = [queue EXCEPT ![<<r, 0>>] = @ + 1]
    /\ request' = [request EXCEPT ![r].pc = "sent"]
    /\ UNCHANGED <<row, worker, events, queuedEvents, records, claims,
                   faults, crashes, redeliveries>>

\* The execution record and the second commit of the facade.
RecordExecution(r) ==
    /\ request[r].pc = "sent"
    /\ records' = records \cup {r}
    /\ request' = [request EXCEPT ![r].pc = "done"]
    /\ UNCHANGED <<row, queue, worker, events, queuedEvents, claims,
                   faults, crashes, redeliveries>>

\* Any of the three transactions raises: the caller gets an error, what was
\* committed before stays.
RequestFault(r) ==
    /\ faults < MaxFaults
    /\ Open(r)
    /\ faults' = faults + 1
    /\ request' = [request EXCEPT ![r] = [pc |-> "error", copy |-> NoRow, seen |-> NoRow]]
    /\ UNCHANGED <<row, queue, worker, events, queuedEvents, records, claims,
                   crashes, redeliveries>>

Api ==
    \/ CreateJob
    \/ \E r \in Requests : \/ ValidateExecutable(r) \/ ReadForQueued(r) \/ MarkQueued(r)
                           \/ SendTask(r) \/ RecordExecution(r) \/ RequestFault(r)

-----------------------------------------------------------------------------
(* The broker and the Celery task wrapper run_job_task *)

IdleWorker ==
    [pc |-> "idle", msg |-> <<>>, claim |-> 0, step |-> 0, copy |-> NoRow, seen |-> NoRow]

Deliver(w, m) ==
    /\ worker[w].pc = "idle"
    /\ queue[m] > 0
    /\ queue' = [queue EXCEPT ![m] = @ - 1]
    /\ worker' = [worker EXCEPT ![w] = [IdleWorker EXCEPT !.pc = "claim", !.msg = m]]
    /\ UNCHANGED <<row, request, events, queuedEvents, records, claims,
                   faults, crashes, redeliveries>>

\* The task returns: its message is acknowledged.
Return(w) == worker' = [worker EXCEPT ![w] = IdleWorker] /\ UNCHANGED queue

\* The task raises: autoretry_for publishes the next attempt, if one is left.
Raise(w) ==
    LET m == worker[w].msg
    IN  /\ worker' = [worker EXCEPT ![w] = IdleWorker]
        /\ IF m[2] < MaxRetries
           THEN queue' = [queue EXCEPT ![<<m[1], m[2] + 1>>] = @ + 1]
           ELSE UNCHANGED queue

\* The worker process is lost: the message was not acknowledged (acks_late)
\* and goes back to its queue (reject_on_worker_lost).
Crash(w) ==
    /\ crashes < MaxCrashes
    /\ worker[w].pc # "idle"
    /\ crashes' = crashes + 1
    /\ queue' = [queue EXCEPT ![worker[w].msg] = @ + 1]
    /\ worker' = [worker EXCEPT ![w] = IdleWorker]
    /\ UNCHANGED <<row, request, events, queuedEvents, records, claims, faults, redeliveries>>

\* The broker's visibility timeout passes while the worker is still busy.
Redeliver(w) ==
    /\ redeliveries < MaxRedeliveries
    /\ worker[w].pc # "idle"
    /\ redeliveries' = redeliveries + 1
    /\ queue' = [queue EXCEPT ![worker[w].msg] = @ + 1]
    /\ UNCHANGED <<row, request, worker, events, queuedEvents, records, claims,
                   faults, crashes>>

-----------------------------------------------------------------------------
(* JobRunner.run *)

Goto(w, pc) == worker' = [worker EXCEPT ![w].pc = pc]

Emit(w, types) == events' = events \cup ({worker[w].claim} \X types)

\* claim_for_run: the conditional UPDATE, then the commit of _prepare_execution.
Claim(w) ==
    /\ worker[w].pc = "claim"
    /\ row.status \in Runnable
    /\ row' = [row EXCEPT !.status = "RUNNING"]
    /\ claims' = claims + 1
    /\ worker' = [worker EXCEPT ![w].pc = "locked", ![w].copy = row',
                                ![w].claim = claims + 1]
    /\ UNCHANGED <<request, queue, events, queuedEvents, records,
                   faults, crashes, redeliveries>>

\* The UPDATE matches no row: _claim_job raises, outside run's try.
ClaimRefused(w) ==
    /\ worker[w].pc = "claim"
    /\ row.status \notin Runnable
    /\ Raise(w)
    /\ UNCHANGED <<row, request, events, queuedEvents, records, claims,
                   faults, crashes, redeliveries>>

LockedEvent(w) ==
    /\ worker[w].pc = "locked"
    /\ Emit(w, {"LOCKED"})
    /\ Goto(w, "start")
    /\ UNCHANGED <<row, request, queue, queuedEvents, records, claims,
                   faults, crashes, redeliveries>>

\* The SELECT of a save: of _start_job, _complete_job or _fail_execution.
ReadForSave(w) ==
    /\ worker[w].pc \in {"start", "complete", "fail"}
    /\ worker[w].seen = NoRow
    /\ worker' = [worker EXCEPT ![w].seen = row]
    /\ UNCHANGED <<row, request, queue, events, queuedEvents, records, claims,
                   faults, crashes, redeliveries>>

\* The UPDATE of a save and its commit.  The copy is refreshed from the row
\* as it is then, other parties' columns included.
Save(w, new, pc) ==
    /\ worker[w].seen # NoRow
    /\ row' \in Saved(new, worker[w].seen)
    /\ worker' = [worker EXCEPT ![w].pc = pc, ![w].copy = row', ![w].seen = NoRow]

\* The first transaction of _start_job.
StartJob(w) ==
    /\ worker[w].pc = "start"
    /\ Save(w, MarkJobRunning(worker[w].copy), "started")
    /\ UNCHANGED <<request, queue, events, queuedEvents, records, claims,
                   faults, crashes, redeliveries>>

\* The second one, and the look-up of the running step.
StartedEvent(w) ==
    /\ worker[w].pc = "started"
    /\ Emit(w, {"STARTED"})
    /\ worker' = [worker EXCEPT ![w].pc = "step", ![w].step = RunningStep(worker[w].copy)]
    /\ UNCHANGED <<row, request, queue, queuedEvents, records, claims,
                   faults, crashes, redeliveries>>

StartStep(w) ==
    /\ worker[w].pc = "step"
    /\ Emit(w, IF worker[w].step # 0 THEN {"STEP_STARTED"} ELSE {})
    /\ Goto(w, "handle")
    /\ UNCHANGED <<row, request, queue, queuedEvents, records, claims,
                   faults, crashes, redeliveries>>

\* _execute_handler: the parameters are valid and the handler returns, or one
\* of them raises.
ExecuteHandler(w) ==
    /\ worker[w].pc = "handle"
    /\ \E next \in {"complete", "fail"} : Goto(w, next)
    /\ UNCHANGED <<row, request, queue, events, queuedEvents, records, claims,
                   faults, crashes, redeliveries>>

\* The first transaction of _complete_job.
CompleteJob(w) ==
    /\ worker[w].pc = "complete"
    /\ Save(w, MarkJobSucceeded(worker[w].copy, worker[w].claim), "completed")
    /\ UNCHANGED <<request, queue, events, queuedEvents, records, claims,
                   faults, crashes, redeliveries>>

\* Its second one; run returns.
SucceededEvents(w) ==
    /\ worker[w].pc = "completed"
    /\ Emit(w, IF worker[w].step # 0 THEN {"STEP_SUCCEEDED", "SUCCEEDED"} ELSE {"SUCCEEDED"})
    /\ Return(w)
    /\ UNCHANGED <<row, request, queuedEvents, records, claims,
                   faults, crashes, redeliveries>>

\* Variant: the failure is not saved.
FailExecutionNoSave(w) ==
    /\ worker[w].pc = "fail"
    /\ worker[w].seen # NoRow
    /\ worker' = [worker EXCEPT ![w].pc = "failed", ![w].seen = NoRow]
    /\ UNCHANGED <<row, request, queue, events, queuedEvents, records, claims,
                   faults, crashes, redeliveries>>

\* The first transaction of _fail_execution, after the rollback.
FailExecution(w) ==
    /\ worker[w].pc = "fail"
    /\ Save(w, MarkJobFailed(worker[w].copy), "failed")
    /\ UNCHANGED <<request, queue, events, queuedEvents, records, claims,
                   faults, crashes, redeliveries>>

\* Its second one; run raises the handler's error.
FailedEvents(w) ==
    /\ worker[w].pc = "failed"
    /\ Emit(w, IF worker[w].step # 0 THEN {"STEP_FAILED", "FAILED"} ELSE {"FAILED"})
    /\ Raise(w)
    /\ UNCHANGED <<row, request, queuedEvents, records, claims,
                   faults, crashes, redeliveries>>

\* Variant: no rollback, so that the events that were already flushed are
\* committed with the FAILED row.
FaultInTryNoRollback(w) ==
    /\ faults < MaxFaults
    /\ worker[w].pc = "completed"
    /\ faults' = faults + 1
    /\ Emit(w, {"SUCCEEDED"})
    /\ Goto(w, "fail")
    /\ UNCHANGED <<row, request, queue, queuedEvents, records, claims, crashes, redeliveries>>

\* A transaction inside run's try raises.  The manifest in memory keeps what
\* was assigned to it before the save, the database loses it, and control
\* passes to _fail_execution.
FaultInTry(w) ==
    /\ faults < MaxFaults
    /\ worker[w].pc \in {"start", "started", "step", "complete", "completed"}
    /\ faults' = faults + 1
    /\ worker' = [worker EXCEPT ![w].pc = "fail", ![w].seen = NoRow,
          ![w].copy = CASE worker[w].pc = "start"    -> MarkJobRunning(@)
                        [] worker[w].pc = "complete" -> MarkJobSucceeded(@, worker[w].claim)
                        [] OTHER -> @]
    /\ UNCHANGED <<row, request, queue, events, queuedEvents, records, claims,
                   crashes, redeliveries>>

\* A transaction outside the try, or in _fail_execution itself, raises.
FaultOutsideTry(w) ==
    /\ faults < MaxFaults
    /\ worker[w].pc \in {"claim", "locked", "fail", "failed"}
    /\ faults' = faults + 1
    /\ Raise(w)
    /\ UNCHANGED <<row, request, events, queuedEvents, records, claims,
                   crashes, redeliveries>>

RunStep(w) ==
    \/ Claim(w) \/ ClaimRefused(w) \/ LockedEvent(w) \/ ReadForSave(w) \/ StartJob(w)
    \/ StartedEvent(w) \/ StartStep(w) \/ ExecuteHandler(w) \/ CompleteJob(w)
    \/ SucceededEvents(w) \/ FailExecution(w) \/ FailedEvents(w)

WorkerPool ==
    \E w \in Workers : \/ \E m \in Messages : Deliver(w, m)
                       \/ RunStep(w) \/ FaultInTry(w) \/ FaultOutsideTry(w)
                       \/ Crash(w) \/ Redeliver(w)

-----------------------------------------------------------------------------
Init ==
    /\ row = NoRow
    /\ request = [r \in Requests |-> [pc |-> "idle", copy |-> NoRow, seen |-> NoRow]]
    /\ queue = [m \in Messages |-> 0]
    /\ worker = [w \in Workers |-> IdleWorker]
    /\ events = {}
    /\ queuedEvents = 0
    /\ records = {}
    /\ claims = 0
    /\ faults = 0 /\ crashes = 0 /\ redeliveries = 0

Next == Api \/ WorkerPool

Spec == Init /\ [][Next]_vars

\* A request that passed its check goes on, the pool takes messages and runs
\* what it took.  Nobody has to call execute; faults, crashes and
\* redeliveries never have to happen.
Fairness ==
    /\ \A r \in Requests :
          WF_vars(ReadForQueued(r) \/ MarkQueued(r) \/ SendTask(r) \/ RecordExecution(r))
    /\ \A w \in Workers : WF_vars(RunStep(w) \/ \E m \in Messages : Deliver(w, m))

FairSpec == Spec /\ Fairness
-----------------------------------------------------------------------------
(* Properties *)

EventTypes == {"LOCKED", "STARTED", "STEP_STARTED", "STEP_SUCCEEDED", "SUCCEEDED",
               "STEP_FAILED", "FAILED"}

RequestPcs == {"idle", "validated", "queued", "sent", "done", "refused", "error"}

\* From its claim to its last write of the row a worker holds the job.
HoldingPcs == {"locked", "start", "started", "step", "handle", "complete", "completed", "fail"}
WorkerPcs == HoldingPcs \cup {"idle", "claim", "failed"}

Holds(w) == worker[w].pc \in HoldingPcs

TypeOK ==
    /\ row \in Row
    /\ request \in [Requests -> [pc : RequestPcs, copy : Row, seen : Row]]
    /\ queue \in [Messages -> Nat]
    /\ worker \in [Workers -> [pc : WorkerPcs, msg : Messages \cup {<<>>}, claim : Nat,
                               step : 0..NumSteps, copy : Row, seen : Row]]
    /\ events \subseteq Nat \X EventTypes
    /\ queuedEvents \in Nat
    /\ records \subseteq Requests
    /\ claims \in Nat
    /\ faults \in Nat /\ crashes \in Nat /\ redeliveries \in Nat

\* Celery delivers a task again after a raise, a lost worker or a timeout; a
\* job still runs at most once per QUEUED commit of the API, whatever the
\* clients, the broker and the failures do (claim_for_run and its statuses).
ClaimsBounded == claims <= queuedEvents

\* The step list follows the row: a step is RUNNING only in a RUNNING row, and
\* only one is (mark_first_pending_step_running, mark_job_failed).  This is
\* for disciplined clients only: the save of a second `execute` call that saw
\* PENDING writes QUEUED, and not the steps, over a row that was claimed and
\* started in the meantime (PostgresJobRepository.update).
StepsFollowJob ==
    /\ RunningStep(row) # 0 => row.status = "RUNNING"
    /\ \A i, j \in StepIds : row.steps[i] = "RUNNING" /\ row.steps[j] = "RUNNING" => i = j

\* The events of one execution tell one story: never both that the job
\* succeeded and that it failed, although a failure to write the first makes
\* the runner write the second (JobRunner._complete_job inside run's try).
OneOutcomePerClaim ==
    \A c \in 1..claims : ~(<<c, "SUCCEEDED">> \in events /\ <<c, "FAILED">> \in events)

\* Nothing but a crash or a database error leaves a row RUNNING that no
\* worker holds: such a row is never claimed nor executed again.
OrphanOnlyAfterFailure ==
    row.status = "RUNNING" /\ ~(\E w \in Workers : Holds(w)) => faults + crashes > 0

\* One worker at a time holds the job (what claim_for_run is for).
MutualExclusion == \A v, w \in Workers : Holds(v) /\ Holds(w) => v = w

\* The latest execution's final event agrees with the row, until the job is
\* queued again.
EventsTellTheTruth ==
    /\ <<claims, "SUCCEEDED">> \in events => row.status = "SUCCEEDED"
    /\ <<claims, "FAILED">> \in events => row.status \in {"FAILED", "QUEUED"}

\* "commit-before-backend-dispatch prevents worker RUNNING/SUCCEEDED state from
\* being overwritten by delayed API QUEUED commits" (JobDispatchFacade.dispatch).
WorkerStateNotOverwritten ==
    [][row.status \in {"RUNNING", "SUCCEEDED"} => row'.status # "QUEUED"]_vars

\* Under a disciplined client the platform implements AbstractJob: who holds
\* the job is read off where the workers' JobRunners stand.
Abstract == INSTANCE AbstractJob
                WITH status <- row.status, holders <- {w \in Workers : Holds(w)}

ImplementsAbstractJob == Abstract!Spec

\* Without failures a queued job ends: its message arrives, and whoever
\* claims the row writes a terminal status.
JobSettles == row.status \in {"QUEUED", "RUNNING"} ~> row.status \in {"SUCCEEDED", "FAILED"}
=============================================================================
