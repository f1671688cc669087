------------------------- MODULE JobLifecycleProofs -------------------------
(***************************************************************************)
(* Proofs about JobLifecycle, for any requests, workers, steps, retries    *)
(* and failures: types, attempts, the claim, the refinement; then that a   *)
(* row is orphaned only by a failure, an execution reports one outcome,    *)
(* and under a disciplined client the step list follows the row and that   *)
(* outcome is what the row says.                                           *)
(***************************************************************************)
EXTENDS JobLifecycle, TLAPS

-----------------------------------------------------------------------------
(* The operators on rows stay within the type of rows. *)

\* Marking steps returns a step list.
LEMMA MarkType ==
    ASSUME NEW steps \in [StepIds -> StepStatus],
           NEW from \in StepStatus, NEW to \in StepStatus
    PROVE  /\ MarkFirst(steps, from, to) \in [StepIds -> StepStatus]
           /\ MarkAll(steps, from, to) \in [StepIds -> StepStatus]
  BY DEF MarkFirst, MarkAll

\* The missing row is typed as a row.
LEMMA NoRowType == NoRow \in Row
  BY DEF NoRow, Row, StepStatus, JobStatus

\* JobResultRecorder's three marks return rows, with the status they are named for.
LEMMA MarkRowType ==
    ASSUME NEW r \in Row, NEW c \in Nat
    PROVE  /\ MarkJobRunning(r) \in Row /\ MarkJobRunning(r).status = "RUNNING"
           /\ MarkJobSucceeded(r, c) \in Row /\ MarkJobSucceeded(r, c).status = "SUCCEEDED"
           /\ MarkJobFailed(r) \in Row /\ MarkJobFailed(r).status = "FAILED"
  <1>1. r.steps \in [StepIds -> StepStatus]
    BY DEF Row
  <1>2. /\ MarkFirst(r.steps, "PENDING", "RUNNING") \in [StepIds -> StepStatus]
        /\ MarkFirst(r.steps, "RUNNING", "SUCCEEDED") \in [StepIds -> StepStatus]
        /\ MarkAll(r.steps, "RUNNING", "FAILED") \in [StepIds -> StepStatus]
    BY <1>1, MarkType DEF StepStatus
  <1>3. MarkJobRunning(r) \in Row /\ MarkJobRunning(r).status = "RUNNING"
    BY <1>1, <1>2 DEF MarkJobRunning, Row, JobStatus
  <1>4. MarkJobSucceeded(r, c) \in Row /\ MarkJobSucceeded(r, c).status = "SUCCEEDED"
    BY <1>1, <1>2 DEF MarkJobSucceeded, Row, JobStatus
  <1>5. MarkJobFailed(r) \in Row /\ MarkJobFailed(r).status = "FAILED"
    BY <1>1, <1>2 DEF MarkJobFailed, Row, JobStatus
  <1>. QED
    BY <1>3, <1>4, <1>5

\* A save leaves a row: its status is the new one or the one it finds, and
\* certainly the new one if its SELECT saw another.
LEMMA SavedRow ==
    ASSUME row \in Row, NEW copy \in Row, NEW seen \in Row, NEW r \in Saved(copy, seen)
    PROVE  /\ r \in Row
           /\ r.status \in {copy.status, row.status}
           /\ copy.status # seen.status => r.status = copy.status
  <1>1. /\ r = [status |-> r.status, steps |-> r.steps, result |-> r.result]
        /\ r.status = Column(copy.status, seen.status, row.status)
        /\ r.steps \in SavedSteps(copy.steps, seen.steps)
        /\ r.result = Column(copy.result, seen.result, row.result)
    BY DEF Saved
  <1>2. r.steps \in {copy.steps, row.steps}
    BY <1>1 DEF SavedSteps, Column
  <1>3. r.result \in {copy.result, row.result}
    BY <1>1 DEF Column
  <1>4. r.status \in {copy.status, row.status}
    BY <1>1 DEF Column
  <1>5. r \in Row
    BY <1>1, <1>2, <1>3, <1>4 DEF Row
  <1>. QED
    BY <1>1, <1>4, <1>5 DEF Column

\* When nothing was committed since its SELECT, a save leaves the copy.
LEMMA SavedAlone ==
    ASSUME row \in Row, NEW copy \in Row, NEW r \in Saved(copy, row)
    PROVE  r = copy
  <1>1. /\ r = [status |-> r.status, steps |-> r.steps, result |-> r.result]
        /\ r.status = Column(copy.status, row.status, row.status)
        /\ r.steps \in SavedSteps(copy.steps, row.steps)
        /\ r.result = Column(copy.result, row.result, row.result)
    BY DEF Saved
  <1>2. r.status = copy.status /\ r.steps = copy.steps /\ r.result = copy.result
    BY <1>1 DEF SavedSteps, Column
  <1>3. copy = [status |-> copy.status, steps |-> copy.steps, result |-> copy.result]
    BY DEF Row
  <1>. QED
    BY <1>1, <1>2, <1>3

-----------------------------------------------------------------------------
(* Type correctness *)

\* The part of TypeOK that says what a request and a worker slot are.
RequestType == [pc : RequestPcs, copy : Row, seen : Row]
WorkerType == [pc : WorkerPcs, msg : Messages \cup {<<>>}, claim : Nat,
               step : 0..NumSteps, copy : Row, seen : Row]

\* The idle slot is typed.
LEMMA IdleType == IdleWorker \in WorkerType
  BY JobLifecycleAssumption, NoRowType DEF IdleWorker, WorkerType, WorkerPcs, HoldingPcs

\* One more copy of any message keeps the broker's counts typed.
LEMMA QueueUpdate ==
    ASSUME queue \in [Messages -> Nat], NEW m, queue' = [queue EXCEPT ![m] = @ + 1]
    PROVE  queue' \in [Messages -> Nat]
  <1>1. CASE m \in Messages
    BY <1>1
  <1>2. CASE m \notin Messages
    BY <1>2
  <1>. QED
    BY <1>1, <1>2

\* Raise keeps the broker and the worker slots typed.
LEMMA RaiseType ==
    ASSUME TypeOK, NEW w \in Workers, Raise(w)
    PROVE  queue' \in [Messages -> Nat] /\ worker' \in [Workers -> WorkerType]
  <1>1. worker' \in [Workers -> WorkerType]
    BY IdleType DEF Raise, TypeOK, WorkerType
  <1>2. CASE UNCHANGED queue
    BY <1>1, <1>2 DEF TypeOK
  <1>3. CASE ~ UNCHANGED queue
    <2>1. queue' = [queue EXCEPT ![<<worker[w].msg[1], worker[w].msg[2] + 1>>] = @ + 1]
      BY <1>3 DEF Raise
    <2>. QED
      BY <1>1, <2>1, QueueUpdate DEF TypeOK
  <1>. QED
    BY <1>2, <1>3

\* Changing a worker slot field by field keeps it typed.
LEMMA WorkerUpdate ==
    ASSUME TypeOK, NEW w \in Workers, NEW pc \in WorkerPcs,
           NEW claim \in Nat, NEW step \in 0..NumSteps, NEW copy \in Row,
           worker' = [worker EXCEPT ![w] = [@ EXCEPT !.pc = pc, !.claim = claim,
                                            !.step = step, !.copy = copy]]
    PROVE  worker' \in [Workers -> WorkerType]
  BY DEF TypeOK, WorkerType

\* The marks and the save of a worker's copy are typed.
LEMMA SaveType ==
    ASSUME TypeOK, NEW w \in Workers, NEW new \in Row, NEW pc \in WorkerPcs, Save(w, new, pc)
    PROVE  /\ row' \in Row /\ worker' \in [Workers -> WorkerType]
           /\ row'.status \in {new.status, row.status}
           /\ new.status # worker[w].seen.status => row'.status = new.status
  <1>1. row \in Row /\ worker[w].seen \in Row
    BY DEF TypeOK
  <1>2. /\ row' \in Row
        /\ row'.status \in {new.status, row.status}
        /\ new.status # worker[w].seen.status => row'.status = new.status
    BY <1>1, SavedRow DEF Save
  <1>3. worker' \in [Workers -> WorkerType]
    BY <1>2, NoRowType DEF Save, TypeOK, WorkerType
  <1>. QED
    BY <1>2, <1>3

\* Initially every variable has its type.
LEMMA InitType == Init => TypeOK
  BY IdleType, NoRowType DEF Init, TypeOK, WorkerType, RequestPcs

\* Every step keeps the types.
LEMMA NextType == TypeOK /\ [Next]_vars => TypeOK'
  <1> SUFFICES ASSUME TypeOK, [Next]_vars PROVE TypeOK'
    OBVIOUS
  <1> USE JobLifecycleAssumption
  <1>1. CASE CreateJob
    BY <1>1 DEF CreateJob, TypeOK, Row, JobStatus
  <1>2. ASSUME NEW r \in Requests, ValidateExecutable(r) PROVE TypeOK'
    <2>1. request' \in [Requests -> RequestType]
      BY <1>2, NoRowType DEF ValidateExecutable, TypeOK, RequestPcs, RequestType
    <2>. QED
      BY <1>2, <2>1 DEF ValidateExecutable, TypeOK, RequestType
  <1>28. ASSUME NEW r \in Requests, ReadForQueued(r) PROVE TypeOK'
    <2>1. request' \in [Requests -> RequestType]
      BY <1>28 DEF ReadForQueued, TypeOK, RequestType
    <2>. QED
      BY <1>28, <2>1 DEF ReadForQueued, TypeOK, RequestType
  <1>3. ASSUME NEW r \in Requests, MarkQueued(r) PROVE TypeOK'
    <2>1. /\ [request[r].copy EXCEPT !.status = "QUEUED"] \in Row
          /\ request[r].seen \in Row /\ row \in Row
      BY DEF TypeOK, Row, JobStatus
    <2>2. row' \in Row
      BY <1>3, <2>1, SavedRow DEF MarkQueued
    <2>3. request' \in [Requests -> RequestType]
      BY <1>3, NoRowType DEF MarkQueued, TypeOK, RequestPcs, RequestType
    <2>. QED
      BY <1>3, <2>2, <2>3 DEF MarkQueued, TypeOK, RequestType
  <1>4. ASSUME NEW r \in Requests, SendTask(r) PROVE TypeOK'
    <2>1. queue' \in [Messages -> Nat]
      BY <1>4, QueueUpdate DEF SendTask, TypeOK
    <2>2. request' \in [Requests -> RequestType]
      BY <1>4 DEF SendTask, TypeOK, RequestPcs, RequestType
    <2>. QED
      BY <1>4, <2>1, <2>2 DEF SendTask, TypeOK, RequestType
  <1>5. ASSUME NEW r \in Requests, RecordExecution(r) PROVE TypeOK'
    <2>1. request' \in [Requests -> RequestType]
      BY <1>5 DEF RecordExecution, TypeOK, RequestPcs, RequestType
    <2>. QED
      BY <1>5, <2>1 DEF RecordExecution, TypeOK, RequestType
  <1>6. ASSUME NEW r \in Requests, RequestFault(r) PROVE TypeOK'
    <2>1. request' \in [Requests -> RequestType]
      BY <1>6, NoRowType DEF RequestFault, TypeOK, RequestPcs, RequestType
    <2>. QED
      BY <1>6, <2>1 DEF RequestFault, TypeOK, RequestType
  <1>7. ASSUME NEW w \in Workers, NEW m \in Messages, Deliver(w, m) PROVE TypeOK'
    <2>1. [IdleWorker EXCEPT !.pc = "claim", !.msg = m] \in WorkerType
      BY IdleType DEF WorkerType, WorkerPcs
    <2>2. worker' \in [Workers -> WorkerType]
      BY <1>7, <2>1 DEF Deliver, TypeOK, WorkerType
    <2>3. queue' \in [Messages -> Nat]
      BY <1>7 DEF Deliver, TypeOK
    <2>. QED
      BY <1>7, <2>2, <2>3 DEF Deliver, TypeOK, WorkerType
  <1>8. ASSUME NEW w \in Workers, Claim(w) PROVE TypeOK'
    <2>1. row' \in Row
      BY <1>8 DEF Claim, TypeOK, Row, JobStatus
    <2>2. worker' = [worker EXCEPT ![w] = [@ EXCEPT !.pc = "locked", !.claim = claims + 1,
                                           !.step = worker[w].step, !.copy = row']]
      BY <1>8 DEF Claim, TypeOK
    <2>3. worker' \in [Workers -> WorkerType]
      <3>1. claims + 1 \in Nat /\ worker[w].step \in 0..NumSteps /\ "locked" \in WorkerPcs
        BY DEF TypeOK, WorkerPcs, HoldingPcs
      <3>. QED
        BY <2>1, <2>2, <3>1, WorkerUpdate
    <2>. QED
      BY <1>8, <2>1, <2>3 DEF Claim, TypeOK, WorkerType
  <1>9. ASSUME NEW w \in Workers, ClaimRefused(w) PROVE TypeOK'
    BY <1>9, RaiseType DEF ClaimRefused, TypeOK, WorkerType
  <1>10. ASSUME NEW w \in Workers, NEW types \in SUBSET EventTypes, Emit(w, types)
         PROVE  events' \subseteq Nat \X EventTypes
    BY <1>10 DEF Emit, TypeOK
  <1>11. ASSUME NEW w \in Workers, NEW pc \in WorkerPcs, Goto(w, pc)
         PROVE  worker' \in [Workers -> WorkerType]
    BY <1>11 DEF Goto, TypeOK, WorkerType
  <1>12. ASSUME NEW w \in Workers, LockedEvent(w) PROVE TypeOK'
    <2>1. events' \subseteq Nat \X EventTypes
      BY <1>10, <1>12 DEF LockedEvent, EventTypes
    <2>2. worker' \in [Workers -> WorkerType]
      BY <1>11, <1>12 DEF LockedEvent, WorkerPcs, HoldingPcs
    <2>. QED
      BY <1>12, <2>1, <2>2 DEF LockedEvent, TypeOK, WorkerType
  <1>13. ASSUME NEW w \in Workers, ReadForSave(w) PROVE TypeOK'
    <2>1. worker' \in [Workers -> WorkerType]
      BY <1>13 DEF ReadForSave, TypeOK, WorkerType
    <2>. QED
      BY <1>13, <2>1 DEF ReadForSave, TypeOK, WorkerType
  <1>14. ASSUME NEW w \in Workers, StartJob(w) PROVE TypeOK'
    <2>1. MarkJobRunning(worker[w].copy) \in Row /\ "started" \in WorkerPcs
      BY MarkRowType DEF TypeOK, WorkerPcs, HoldingPcs
    <2>2. row' \in Row /\ worker' \in [Workers -> WorkerType]
      BY <1>14, <2>1, SaveType DEF StartJob
    <2>. QED
      BY <1>14, <2>2 DEF StartJob, TypeOK, WorkerType
  <1>15. ASSUME NEW w \in Workers, StartedEvent(w) PROVE TypeOK'
    <2>1. events' \subseteq Nat \X EventTypes
      BY <1>10, <1>15 DEF StartedEvent, EventTypes
    <2>2. RunningStep(worker[w].copy) \in 0..NumSteps
      BY DEF RunningStep, StepIds
    <2>3. [worker[w] EXCEPT !.pc = "step", !.step = RunningStep(worker[w].copy)] \in WorkerType
      BY <2>2 DEF WorkerPcs, HoldingPcs, TypeOK, WorkerType
    <2>4. worker' \in [Workers -> WorkerType]
      BY <1>15, <2>3 DEF StartedEvent, TypeOK, WorkerType
    <2>. QED
      BY <1>15, <2>1, <2>4 DEF StartedEvent, TypeOK, WorkerType
  <1>16. ASSUME NEW w \in Workers, StartStep(w) PROVE TypeOK'
    <2>1. events' \subseteq Nat \X EventTypes
      BY <1>10, <1>16 DEF StartStep, EventTypes
    <2>2. worker' \in [Workers -> WorkerType]
      BY <1>11, <1>16 DEF StartStep, WorkerPcs, HoldingPcs
    <2>. QED
      BY <1>16, <2>1, <2>2 DEF StartStep, TypeOK, WorkerType
  <1>17. ASSUME NEW w \in Workers, ExecuteHandler(w) PROVE TypeOK'
    <2>1. worker' \in [Workers -> WorkerType]
      BY <1>11, <1>17 DEF ExecuteHandler, WorkerPcs, HoldingPcs
    <2>. QED
      BY <1>17, <2>1 DEF ExecuteHandler, TypeOK, WorkerType
  <1>18. ASSUME NEW w \in Workers, CompleteJob(w) PROVE TypeOK'
    <2>1. MarkJobSucceeded(worker[w].copy, worker[w].claim) \in Row /\ "completed" \in WorkerPcs
      BY MarkRowType DEF TypeOK, WorkerPcs, HoldingPcs
    <2>2. row' \in Row /\ worker' \in [Workers -> WorkerType]
      BY <1>18, <2>1, SaveType DEF CompleteJob
    <2>. QED
      BY <1>18, <2>2 DEF CompleteJob, TypeOK, WorkerType
  <1>19. ASSUME NEW w \in Workers, SucceededEvents(w) PROVE TypeOK'
    <2>1. events' \subseteq Nat \X EventTypes
      BY <1>10, <1>19 DEF SucceededEvents, EventTypes
    <2>2. worker' \in [Workers -> WorkerType] /\ UNCHANGED queue
      BY <1>19, IdleType DEF SucceededEvents, Return, TypeOK, WorkerType
    <2>. QED
      BY <1>19, <2>1, <2>2 DEF SucceededEvents, TypeOK, WorkerType
  <1>20. ASSUME NEW w \in Workers, FailExecution(w) PROVE TypeOK'
    <2>1. MarkJobFailed(worker[w].copy) \in Row /\ "failed" \in WorkerPcs
      BY MarkRowType DEF TypeOK, WorkerPcs, HoldingPcs
    <2>2. row' \in Row /\ worker' \in [Workers -> WorkerType]
      BY <1>20, <2>1, SaveType DEF FailExecution
    <2>. QED
      BY <1>20, <2>2 DEF FailExecution, TypeOK, WorkerType
  <1>21. ASSUME NEW w \in Workers, FailedEvents(w) PROVE TypeOK'
    <2>1. events' \subseteq Nat \X EventTypes
      BY <1>10, <1>21 DEF FailedEvents, EventTypes
    <2>. QED
      BY <1>21, <2>1, RaiseType DEF FailedEvents, TypeOK, WorkerType
  <1>22. ASSUME NEW w \in Workers, FaultInTry(w) PROVE TypeOK'
    <2> DEFINE copy == CASE worker[w].pc = "start"    -> MarkJobRunning(worker[w].copy)
                         [] worker[w].pc = "complete" ->
                              MarkJobSucceeded(worker[w].copy, worker[w].claim)
                         [] OTHER -> worker[w].copy
    <2>1. copy \in Row
      BY MarkRowType DEF TypeOK
    <2>2. worker' = [worker EXCEPT ![w].pc = "fail", ![w].seen = NoRow, ![w].copy = copy]
      BY <1>22 DEF FaultInTry
    <2>5. UNCHANGED <<row, request, queue, events, queuedEvents, records, claims,
                      crashes, redeliveries>> /\ faults' = faults + 1
      BY <1>22 DEF FaultInTry
    <2> HIDE DEF copy
    <2>3. [worker[w] EXCEPT !.pc = "fail", !.seen = NoRow, !.copy = copy] \in WorkerType
      BY <2>1, NoRowType DEF WorkerPcs, HoldingPcs, TypeOK, WorkerType
    <2>4. worker' \in [Workers -> WorkerType]
      BY <2>2, <2>3 DEF TypeOK, WorkerType
    <2>. QED
      BY <2>4, <2>5 DEF TypeOK, WorkerType
  <1>23. ASSUME NEW w \in Workers, FaultOutsideTry(w) PROVE TypeOK'
    BY <1>23, RaiseType DEF FaultOutsideTry, TypeOK, WorkerType
  <1>24. ASSUME NEW w \in Workers, Crash(w) PROVE TypeOK'
    <2>1. worker' \in [Workers -> WorkerType] /\ queue' \in [Messages -> Nat]
      BY <1>24, IdleType, QueueUpdate DEF Crash, TypeOK, WorkerType
    <2>. QED
      BY <1>24, <2>1 DEF Crash, TypeOK, WorkerType
  <1>25. ASSUME NEW w \in Workers, Redeliver(w) PROVE TypeOK'
    <2>1. queue' \in [Messages -> Nat]
      BY <1>25, QueueUpdate DEF Redeliver, TypeOK
    <2>. QED
      BY <1>25, <2>1 DEF Redeliver, TypeOK
  <1>26. CASE UNCHANGED vars
    BY <1>26 DEF vars, TypeOK
  <1>. QED
    BY <1>1, <1>2, <1>3, <1>4, <1>5, <1>6, <1>7, <1>8, <1>9, <1>12, <1>13, <1>14, <1>15, <1>16,
       <1>17, <1>18, <1>19, <1>20, <1>21, <1>22, <1>23, <1>24, <1>25, <1>26, <1>28
    DEF Next, Api, WorkerPool, RunStep

\* Every reachable state of JobLifecycle is well typed.
THEOREM TypeCorrect == Spec => []TypeOK
  BY InitType, NextType, PTL DEF Spec

-----------------------------------------------------------------------------
(* A job runs at most once per QUEUED commit.  A row that says QUEUED is a *)
(* claim still to come, and before the first QUEUED commit there is no     *)
(* message that a worker could claim a PENDING job with.  A save that has  *)
(* seen QUEUED may leave the status, but then that commit has happened.    *)

\* Nothing is in flight for the job.
Quiet ==
    /\ \A m \in Messages : queue[m] = 0
    /\ \A w \in Workers : worker[w].pc = "idle"
    /\ \A r \in Requests : request[r].pc \notin {"queued", "sent"}

ClaimInv ==
    /\ claims <= queuedEvents
    /\ row.status = "QUEUED" => claims + 1 <= queuedEvents
    /\ row.status \in {"ABSENT", "PENDING"} => Quiet
    /\ \A r \in Requests : request[r].seen.status = "QUEUED"
                            => row.status \notin {"ABSENT", "PENDING"}

\* Initially there are no claims and nothing is in flight.
LEMMA InitClaim == Init => ClaimInv
  BY DEF Init, ClaimInv, Quiet, NoRow, IdleWorker

\* The status that each of a worker's saves leaves, and how surely.
LEMMA SaveStatus ==
    ASSUME TypeOK, NEW w \in Workers
    PROVE  /\ StartJob(w) => /\ row'.status \in {"RUNNING", row.status}
                             /\ worker[w].seen.status # "RUNNING" => row'.status = "RUNNING"
           /\ CompleteJob(w) => /\ row'.status \in {"SUCCEEDED", row.status}
                                /\ worker[w].seen.status # "SUCCEEDED" => row'.status = "SUCCEEDED"
           /\ FailExecution(w) => /\ row'.status \in {"FAILED", row.status}
                                  /\ worker[w].seen.status # "FAILED" => row'.status = "FAILED"
  <1>1. worker[w].copy \in Row /\ worker[w].claim \in Nat /\ 0 \in Nat
    BY DEF TypeOK
  <1>2. "started" \in WorkerPcs /\ "completed" \in WorkerPcs /\ "failed" \in WorkerPcs
    BY DEF WorkerPcs, HoldingPcs
  <1>3. ASSUME StartJob(w)
        PROVE  /\ row'.status \in {"RUNNING", row.status}
               /\ worker[w].seen.status # "RUNNING" => row'.status = "RUNNING"
    BY <1>1, <1>2, <1>3, MarkRowType, SaveType DEF StartJob
  <1>4. ASSUME CompleteJob(w)
        PROVE  /\ row'.status \in {"SUCCEEDED", row.status}
               /\ worker[w].seen.status # "SUCCEEDED" => row'.status = "SUCCEEDED"
    BY <1>1, <1>2, <1>4, MarkRowType, SaveType DEF CompleteJob
  <1>5. ASSUME FailExecution(w)
        PROVE  /\ row'.status \in {"FAILED", row.status}
               /\ worker[w].seen.status # "FAILED" => row'.status = "FAILED"
    BY <1>1, <1>2, <1>5, MarkRowType, SaveType DEF FailExecution
  <1>. QED
    BY <1>3, <1>4, <1>5

\* So for the save of a request, which writes QUEUED.
LEMMA QueuedStatus ==
    ASSUME TypeOK, NEW r \in Requests, MarkQueued(r)
    PROVE  /\ row'.status \in {"QUEUED", row.status}
           /\ request[r].seen.status # "QUEUED" => row'.status = "QUEUED"
  <1> DEFINE new == [request[r].copy EXCEPT !.status = "QUEUED"]
  <1>1. new \in Row /\ new.status = "QUEUED" /\ request[r].seen \in Row /\ row \in Row
    BY DEF TypeOK, Row, JobStatus
  <1>2. row' \in Saved(new, request[r].seen)
    BY DEF MarkQueued
  <1> HIDE DEF new
  <1>. QED
    BY <1>1, <1>2, SavedRow

\* Every step keeps the account of claims.
LEMMA NextClaim == TypeOK /\ ClaimInv /\ [Next]_vars => ClaimInv'
  <1> SUFFICES ASSUME TypeOK, ClaimInv, [Next]_vars PROVE ClaimInv'
    OBVIOUS
  <1>0. claims \in Nat /\ queuedEvents \in Nat
    BY DEF TypeOK
  <1>1. CASE CreateJob
    BY <1>1 DEF CreateJob, ClaimInv, Quiet, TypeOK, Row
  <1>2. ASSUME NEW r \in Requests, ValidateExecutable(r) PROVE ClaimInv'
    BY <1>2 DEF ValidateExecutable, ClaimInv, Quiet, TypeOK, NoRow
  <1>15. ASSUME NEW r \in Requests, ReadForQueued(r) PROVE ClaimInv'
    BY <1>15 DEF ReadForQueued, ClaimInv, Quiet, TypeOK
  <1>3. ASSUME NEW r \in Requests, MarkQueued(r) PROVE ClaimInv'
    <2>2. /\ row'.status \in {"QUEUED", row.status}
          /\ request[r].seen.status # "QUEUED" => row'.status = "QUEUED"
      BY <1>3, QueuedStatus
    <2>3. row'.status \notin {"ABSENT", "PENDING"}
      BY <2>2 DEF ClaimInv
    <2>. QED
      BY <1>0, <1>3, <2>2, <2>3 DEF MarkQueued, ClaimInv, TypeOK
  <1>4. ASSUME NEW r \in Requests, SendTask(r) PROVE ClaimInv'
    BY <1>4 DEF SendTask, ClaimInv, Quiet, TypeOK
  <1>5. ASSUME NEW r \in Requests, RecordExecution(r) PROVE ClaimInv'
    BY <1>5 DEF RecordExecution, ClaimInv, Quiet, TypeOK
  <1>6. ASSUME NEW r \in Requests, RequestFault(r) PROVE ClaimInv'
    BY <1>6 DEF RequestFault, ClaimInv, Quiet, TypeOK, NoRow
  <1>7. ASSUME NEW w \in Workers, NEW m \in Messages, Deliver(w, m) PROVE ClaimInv'
    BY <1>7 DEF Deliver, ClaimInv, Quiet
  <1>8. ASSUME NEW w \in Workers, Claim(w) PROVE ClaimInv'
    <2>1. row.status = "QUEUED"
      BY <1>8 DEF Claim, ClaimInv, Quiet, Runnable
    <2>2. row'.status = "RUNNING"
      BY <1>8 DEF Claim, TypeOK, Row
    <2>. QED
      BY <1>0, <1>8, <2>1, <2>2 DEF Claim, ClaimInv
  <1>9. ASSUME NEW w \in Workers, worker[w].pc # "idle",
               UNCHANGED <<row, request, claims, queuedEvents>>
        PROVE  ClaimInv'
    BY <1>9 DEF ClaimInv, Quiet
  <1>10. ASSUME row'.status \in {"RUNNING", "SUCCEEDED", "FAILED", row.status},
                row.status \notin {"ABSENT", "PENDING"},
                UNCHANGED <<claims, queuedEvents>>
         PROVE  ClaimInv'
    BY <1>10 DEF ClaimInv
  <1>11. ASSUME NEW w \in Workers, StartJob(w) \/ CompleteJob(w) \/ FailExecution(w)
         PROVE  ClaimInv'
    <2>0. worker[w].copy \in Row /\ worker[w].claim \in Nat
      BY DEF TypeOK
    <2>1. row'.status \in {"RUNNING", "SUCCEEDED", "FAILED", row.status}
      BY <1>11, <2>0, SaveStatus
    <2>2. row.status \notin {"ABSENT", "PENDING"}
      BY <1>11 DEF StartJob, CompleteJob, FailExecution, ClaimInv, Quiet
    <2>. QED
      BY <1>10, <1>11, <2>1, <2>2 DEF StartJob, CompleteJob, FailExecution
  <1>12. ASSUME NEW w \in Workers,
                \/ ClaimRefused(w) \/ LockedEvent(w) \/ ReadForSave(w) \/ StartedEvent(w)
                \/ StartStep(w) \/ ExecuteHandler(w) \/ SucceededEvents(w) \/ FailedEvents(w)
         PROVE  ClaimInv'
    BY <1>9, <1>12 DEF ClaimRefused, LockedEvent, ReadForSave, StartedEvent, StartStep,
                       ExecuteHandler, SucceededEvents, FailedEvents
  <1>13. ASSUME NEW w \in Workers,
                FaultInTry(w) \/ FaultOutsideTry(w) \/ Crash(w) \/ Redeliver(w)
         PROVE  ClaimInv'
    BY <1>9, <1>13 DEF FaultInTry, FaultOutsideTry, Crash, Redeliver
  <1>14. CASE UNCHANGED vars
    BY <1>14 DEF vars, ClaimInv, Quiet
  <1>. QED
    BY <1>1, <1>2, <1>3, <1>4, <1>5, <1>6, <1>7, <1>8, <1>11, <1>12, <1>13, <1>14, <1>15
    DEF Next, Api, WorkerPool, RunStep

\* Whatever the clients, the broker and the failures do, a job is claimed at
\* most as many times as the API committed QUEUED for it.
THEOREM ClaimsAreBounded == Spec => []ClaimsBounded
  <1>1. Init => ClaimInv
    BY InitClaim
  <1>2. TypeOK /\ ClaimInv /\ [Next]_vars => ClaimInv'
    BY NextClaim
  <1>3. ClaimInv => ClaimsBounded
    BY DEF ClaimInv, ClaimsBounded
  <1>. QED
    BY <1>1, <1>2, <1>3, TypeCorrect, PTL DEF Spec

-----------------------------------------------------------------------------
(* Under a disciplined client the job has one holder at a time, and no     *)
(* commit of the API overwrites what a worker wrote.                       *)

\* A holder has the row RUNNING, or SUCCEEDED once it has saved its success;
\* a request that is about to write QUEUED still has the row it read, nothing
\* can claim it, and no other request is open.  So nothing is committed
\* between the SELECT and the UPDATE of a save.
ExclInv ==
    /\ MutualExclusion
    /\ \A w \in Workers : Holds(w) => row.status \in {"RUNNING", "SUCCEEDED"}
    /\ \A w \in Workers : worker[w].pc \in HoldingPcs \ {"completed", "fail"}
                            => row.status = "RUNNING"
    /\ \A r \in Requests : request[r].pc = "validated" =>
          /\ request[r].copy = row /\ request[r].seen \in {NoRow, row}
          /\ row.status \notin NotExecutable \cup {"ABSENT"}
          /\ row.status \in Runnable => ~MessageLive
    /\ \A q, r \in Requests : Open(q) /\ Open(r) => q = r
    /\ \A w \in Workers : worker[w].seen # NoRow => Holds(w) /\ worker[w].seen = row

\* Initially nobody holds the job and no request is open.
LEMMA InitExcl == Init => ExclInv
  BY DEF Init, ExclInv, MutualExclusion, Holds, HoldingPcs, Open, IdleWorker

\* A step that takes a holder or a message away, writes no row and opens no
\* request keeps ExclInv, if no message appears where there was none.
LEMMA ExclFrame ==
    ASSUME ExclInv, UNCHANGED <<row, request>>,
           \A w \in Workers : Holds(w)' => Holds(w),
           \A w \in Workers : worker'[w].pc \in HoldingPcs \ {"completed", "fail"}
                               => row.status = "RUNNING",
           \A w \in Workers : worker'[w].seen # NoRow => Holds(w)' /\ worker'[w].seen = row,
           MessageLive' => MessageLive
    PROVE  ExclInv'
  BY DEF ExclInv, MutualExclusion, Open

\* Every save then leaves what its writer meant to write.
LEMMA SavesAlone ==
    ASSUME TypeOK, ExclInv
    PROVE  /\ \A r \in Requests : MarkQueued(r) => row' = [row EXCEPT !.status = "QUEUED"]
           /\ \A w \in Workers :
                 /\ StartJob(w) => row' = MarkJobRunning(worker[w].copy)
                 /\ CompleteJob(w) => row' = MarkJobSucceeded(worker[w].copy, worker[w].claim)
                 /\ FailExecution(w) => row' = MarkJobFailed(worker[w].copy)
  <1>0. row \in Row
    BY DEF TypeOK
  <1>1. ASSUME NEW r \in Requests, MarkQueued(r) PROVE row' = [row EXCEPT !.status = "QUEUED"]
    <2>1. [row EXCEPT !.status = "QUEUED"] \in Row
      BY <1>0 DEF Row, JobStatus
    <2>2. row' \in Saved([row EXCEPT !.status = "QUEUED"], row)
      BY <1>1 DEF MarkQueued, ExclInv
    <2>. QED
      BY <1>0, <2>1, <2>2, SavedAlone
  <1>2. ASSUME NEW w \in Workers, NEW new \in Row, NEW pc, Save(w, new, pc) PROVE row' = new
    <2>1. row' \in Saved(new, row)
      BY <1>2 DEF Save, ExclInv
    <2>. QED
      BY <1>0, <2>1, SavedAlone
  <1>3. ASSUME NEW w \in Workers
        PROVE  /\ StartJob(w) => row' = MarkJobRunning(worker[w].copy)
               /\ CompleteJob(w) => row' = MarkJobSucceeded(worker[w].copy, worker[w].claim)
               /\ FailExecution(w) => row' = MarkJobFailed(worker[w].copy)
    <2>1. worker[w].copy \in Row /\ worker[w].claim \in Nat
      BY DEF TypeOK
    <2>2. /\ MarkJobRunning(worker[w].copy) \in Row
          /\ MarkJobSucceeded(worker[w].copy, worker[w].claim) \in Row
          /\ MarkJobFailed(worker[w].copy) \in Row
      BY <2>1, MarkRowType
    <2>. QED
      BY <1>2, <2>2 DEF StartJob, CompleteJob, FailExecution
  <1>. QED
    BY <1>1, <1>3

\* The statuses, in particular.
LEMMA SavesStatus ==
    ASSUME TypeOK, ExclInv
    PROVE  /\ \A r \in Requests : MarkQueued(r) => row'.status = "QUEUED"
           /\ \A w \in Workers : /\ StartJob(w) => row'.status = "RUNNING"
                                 /\ CompleteJob(w) => row'.status = "SUCCEEDED"
                                 /\ FailExecution(w) => row'.status = "FAILED"
  <1>1. row \in Row /\ \A w \in Workers : worker[w].copy \in Row /\ worker[w].claim \in Nat
    BY DEF TypeOK
  <1>2. [row EXCEPT !.status = "QUEUED"].status = "QUEUED"
    BY <1>1 DEF Row
  <1>3. \A w \in Workers : /\ MarkJobRunning(worker[w].copy).status = "RUNNING"
                           /\ MarkJobSucceeded(worker[w].copy, worker[w].claim).status = "SUCCEEDED"
                           /\ MarkJobFailed(worker[w].copy).status = "FAILED"
    BY <1>1, MarkRowType
  <1>. QED
    BY <1>2, <1>3, SavesAlone

\* Every step of a disciplined client's system keeps ExclInv.
LEMMA NextExcl == DisciplinedClient /\ TypeOK /\ ExclInv /\ [Next]_vars => ExclInv'
  <1> SUFFICES ASSUME DisciplinedClient, TypeOK, ExclInv, [Next]_vars PROVE ExclInv'
    OBVIOUS
  <1>1. CASE CreateJob
    <2>1. /\ ~(\E r \in Requests : request[r].pc = "validated")
          /\ \A w \in Workers : ~Holds(w) /\ worker[w].seen = NoRow
      BY <1>1 DEF CreateJob, ExclInv
    <2>. QED
      BY <1>1, <2>1 DEF CreateJob, ExclInv, MutualExclusion, Holds, HoldingPcs, Open
  <1>2. ASSUME NEW r \in Requests, ValidateExecutable(r) PROVE ExclInv'
    <2>1. (\A q \in Requests : ~Open(q)) /\ ~(row.status \in Runnable /\ MessageLive)
      BY <1>2 DEF ValidateExecutable, MayCall
    <2>2. \A q \in Requests : q # r => request'[q] = request[q]
      BY <1>2 DEF ValidateExecutable, TypeOK
    <2>3. request'[r].pc = "validated" =>
            /\ request'[r].copy = row /\ request'[r].seen = NoRow
            /\ row.status \notin NotExecutable \cup {"ABSENT"}
      BY <1>2 DEF ValidateExecutable, TypeOK
    <2>4. UNCHANGED <<row, worker, queue>>
      BY <1>2 DEF ValidateExecutable
    <2>5. MessageLive' <=> MessageLive
      BY <2>4 DEF MessageLive
    <2>. QED
      BY <2>1, <2>2, <2>3, <2>4, <2>5 DEF ExclInv, MutualExclusion, Holds, Open
  <1>17. ASSUME NEW r \in Requests, ReadForQueued(r) PROVE ExclInv'
    <2>1. \A q \in Requests : /\ request'[q].pc = request[q].pc
                             /\ request'[q].copy = request[q].copy
                             /\ request'[q].seen \in {request[q].seen, row}
      BY <1>17 DEF ReadForQueued, TypeOK
    <2>2. UNCHANGED <<row, worker, queue>>
      BY <1>17 DEF ReadForQueued
    <2>3. MessageLive' <=> MessageLive
      BY <2>2 DEF MessageLive
    <2>. QED
      BY <2>1, <2>2, <2>3 DEF ExclInv, MutualExclusion, Holds, Open
  <1>3. ASSUME NEW r \in Requests, MarkQueued(r) PROVE ExclInv'
    <2>1. Open(r) /\ \A q \in Requests : q # r => ~Open(q)
      BY <1>3 DEF MarkQueued, ExclInv, Open
    <2>2. \A q \in Requests : q # r => request'[q] = request[q]
      BY <1>3 DEF MarkQueued, TypeOK
    <2>3. request'[r].pc = "queued"
      BY <1>3 DEF MarkQueued, TypeOK
    <2>4. \A w \in Workers : ~Holds(w) /\ worker[w].seen = NoRow
      BY <1>3 DEF MarkQueued, ExclInv, NotExecutable
    <2>. QED
      BY <1>3, <2>1, <2>2, <2>3, <2>4 DEF MarkQueued, ExclInv, MutualExclusion, Holds, Open
  <1>4. ASSUME NEW r \in Requests, SendTask(r) \/ RecordExecution(r) \/ RequestFault(r)
        PROVE  ExclInv'
    <2>1. Open(r) /\ \A q \in Requests : q # r => ~Open(q)
      BY <1>4 DEF SendTask, RecordExecution, RequestFault, ExclInv, Open
    <2>2. \A q \in Requests : q # r => request'[q] = request[q]
      BY <1>4 DEF SendTask, RecordExecution, RequestFault, TypeOK
    <2>3. request'[r].pc \in {"sent", "done", "error"}
      BY <1>4 DEF SendTask, RecordExecution, RequestFault, TypeOK
    <2>4. UNCHANGED <<row, worker>>
      BY <1>4 DEF SendTask, RecordExecution, RequestFault
    <2>. QED
      BY <2>1, <2>2, <2>3, <2>4 DEF ExclInv, MutualExclusion, Holds, Open
  <1>5. ASSUME NEW w \in Workers, NEW m \in Messages, Deliver(w, m) PROVE ExclInv'
    <2>1. MessageLive
      BY <1>5 DEF Deliver, MessageLive
    <2>2. \A v \in Workers :
             worker'[v] = worker[v] \/ (worker'[v].pc = "claim" /\ worker'[v].seen = NoRow)
      BY <1>5 DEF Deliver, TypeOK, IdleWorker
    <2>3. UNCHANGED <<row, request>>
      BY <1>5 DEF Deliver
    <2>. QED
      BY <2>1, <2>2, <2>3, ExclFrame DEF Holds, HoldingPcs, ExclInv
  <1>6. ASSUME NEW w \in Workers, Claim(w) PROVE ExclInv'
    <2>1. \A v \in Workers : ~Holds(v) /\ worker[v].seen = NoRow
      BY <1>6 DEF Claim, ExclInv, Runnable
    <2>2. \A r \in Requests : request[r].pc # "validated"
      BY <1>6 DEF Claim, ExclInv, MessageLive
    <2>3. row'.status = "RUNNING"
      BY <1>6 DEF Claim, TypeOK, Row
    <2>4. /\ \A v \in Workers : v # w => worker'[v] = worker[v]
          /\ worker'[w].seen = worker[w].seen
      BY <1>6 DEF Claim, TypeOK
    <2>. QED
      BY <1>6, <2>1, <2>2, <2>3, <2>4 DEF Claim, ExclInv, MutualExclusion, Holds, Open
  <1>7. ASSUME NEW w \in Workers, Holds(w), UNCHANGED request, row'.status = "RUNNING",
               \A v \in Workers : v # w => worker'[v] = worker[v], worker'[w].seen = NoRow
        PROVE  ExclInv'
    <2>1. \A r \in Requests : request[r].pc # "validated"
      BY <1>7 DEF ExclInv, NotExecutable
    <2>2. \A v \in Workers : v # w => ~Holds(v)
      BY <1>7 DEF ExclInv, MutualExclusion
    <2>. QED
      BY <1>7, <2>1, <2>2 DEF ExclInv, MutualExclusion, Holds, Open
  <1>8. ASSUME NEW w \in Workers, StartJob(w) PROVE ExclInv'
    <2>1. row'.status = "RUNNING"
      BY <1>8, SavesStatus
    <2>2. /\ \A v \in Workers : v # w => worker'[v] = worker[v]
          /\ worker'[w].seen = NoRow
      BY <1>8 DEF StartJob, Save, TypeOK
    <2>. QED
      BY <1>7, <1>8, <2>1, <2>2 DEF StartJob, Holds, HoldingPcs
  <1>9. ASSUME NEW w \in Workers, CompleteJob(w) PROVE ExclInv'
    <2>1. \A r \in Requests : request[r].pc # "validated"
      BY <1>9 DEF CompleteJob, ExclInv, NotExecutable, Holds, HoldingPcs
    <2>2. \A v \in Workers : v # w => ~Holds(v)
      BY <1>9 DEF CompleteJob, ExclInv, MutualExclusion, Holds, HoldingPcs
    <2>3. row'.status = "SUCCEEDED"
      BY <1>9, SavesStatus
    <2>4. /\ \A v \in Workers : v # w => worker'[v] = worker[v]
          /\ worker'[w].pc = "completed" /\ worker'[w].seen = NoRow
      BY <1>9 DEF CompleteJob, Save, TypeOK
    <2>. QED
      BY <1>9, <2>1, <2>2, <2>3, <2>4 DEF CompleteJob, ExclInv, MutualExclusion, Holds, Open
  <1>10. ASSUME NEW w \in Workers, FailExecution(w) PROVE ExclInv'
    <2>1. \A r \in Requests : request[r].pc # "validated"
      BY <1>10 DEF FailExecution, ExclInv, NotExecutable, Holds, HoldingPcs
    <2>2. \A v \in Workers : v # w => ~Holds(v)
      BY <1>10 DEF FailExecution, ExclInv, MutualExclusion, Holds, HoldingPcs
    <2>3. /\ \A v \in Workers : v # w => worker'[v] = worker[v]
          /\ worker'[w].pc = "failed" /\ worker'[w].seen = NoRow
      BY <1>10 DEF FailExecution, Save, TypeOK
    <2>. QED
      BY <1>10, <2>1, <2>2, <2>3
      DEF FailExecution, ExclInv, MutualExclusion, Holds, HoldingPcs, Open
  <1>11. ASSUME NEW w \in Workers, worker[w].pc # "idle", UNCHANGED <<row, request>>,
                \A v \in Workers : v # w => worker'[v] = worker[v],
                \/ worker'[w].pc \notin HoldingPcs
                \/ worker[w].pc \in HoldingPcs /\ worker'[w].pc = "fail"
                \/ worker[w].pc \in HoldingPcs \ {"completed", "fail"},
                worker'[w].seen # NoRow => Holds(w)' /\ worker'[w].seen = row
         PROVE  ExclInv'
    <2>1. MessageLive
      BY <1>11 DEF MessageLive
    <2>2. \A v \in Workers : Holds(v)' => Holds(v)
      BY <1>11 DEF Holds
    <2>3. \A v \in Workers : worker'[v].pc \in HoldingPcs \ {"completed", "fail"}
                             => row.status = "RUNNING"
      BY <1>11 DEF ExclInv
    <2>4. \A v \in Workers : worker'[v].seen # NoRow => Holds(v)' /\ worker'[v].seen = row
      BY <1>11 DEF ExclInv, Holds
    <2>. QED
      BY <1>11, <2>1, <2>2, <2>3, <2>4, ExclFrame
  <1>12. ASSUME NEW w \in Workers,
                LockedEvent(w) \/ StartedEvent(w) \/ StartStep(w) \/ ExecuteHandler(w)
         PROVE  ExclInv'
    <2>1. /\ \A v \in Workers : v # w => worker'[v] = worker[v]
          /\ worker'[w].seen = worker[w].seen /\ worker'[w].pc \in HoldingPcs
      BY <1>12 DEF LockedEvent, StartedEvent, StartStep, ExecuteHandler, Goto, TypeOK, HoldingPcs
    <2>2. worker'[w].seen # NoRow => Holds(w)' /\ worker'[w].seen = row
      BY <2>1 DEF ExclInv, Holds
    <2>. QED
      BY <1>11, <1>12, <2>1, <2>2
      DEF LockedEvent, StartedEvent, StartStep, ExecuteHandler, HoldingPcs
  <1>18. ASSUME NEW w \in Workers, ReadForSave(w) PROVE ExclInv'
    <2>1. /\ \A v \in Workers : worker'[v].pc = worker[v].pc
          /\ \A v \in Workers : v # w => worker'[v] = worker[v]
          /\ worker'[w].seen = row /\ worker[w].pc \in HoldingPcs
          /\ UNCHANGED <<row, request, queue>>
      BY <1>18 DEF ReadForSave, TypeOK, HoldingPcs
    <2>2. MessageLive' => MessageLive
      BY <2>1 DEF MessageLive
    <2>3. \A v \in Workers : worker'[v].seen # NoRow => Holds(v)' /\ worker'[v].seen = row
      BY <2>1 DEF ExclInv, Holds
    <2>4. /\ \A v \in Workers : Holds(v)' => Holds(v)
          /\ \A v \in Workers : worker'[v].pc \in HoldingPcs \ {"completed", "fail"}
                                => row.status = "RUNNING"
      BY <2>1 DEF ExclInv, Holds
    <2>. QED
      BY <2>1, <2>2, <2>3, <2>4, ExclFrame
  <1>13. ASSUME NEW w \in Workers,
                \/ ClaimRefused(w) \/ SucceededEvents(w) \/ FailedEvents(w)
                \/ FaultOutsideTry(w) \/ Crash(w)
         PROVE  ExclInv'
    <2>1. worker' = [worker EXCEPT ![w] = IdleWorker]
      BY <1>13 DEF ClaimRefused, SucceededEvents, FailedEvents, FaultOutsideTry, Crash,
                   Raise, Return
    <2>2. /\ \A v \in Workers : v # w => worker'[v] = worker[v]
          /\ worker'[w].pc \notin HoldingPcs /\ worker'[w].seen = NoRow
      BY <2>1 DEF TypeOK, IdleWorker, HoldingPcs
    <2>. QED
      BY <1>11, <1>13, <2>2
      DEF ClaimRefused, SucceededEvents, FailedEvents, FaultOutsideTry, Crash
  <1>14. ASSUME NEW w \in Workers, FaultInTry(w) PROVE ExclInv'
    <2>1. /\ \A v \in Workers : v # w => worker'[v] = worker[v]
          /\ worker'[w].pc = "fail" /\ worker'[w].seen = NoRow
      BY <1>14 DEF FaultInTry, TypeOK
    <2>. QED
      BY <1>11, <1>14, <2>1 DEF FaultInTry, HoldingPcs
  <1>15. ASSUME NEW w \in Workers, Redeliver(w) PROVE ExclInv'
    <2>1. MessageLive
      BY <1>15 DEF Redeliver, MessageLive
    <2>. QED
      BY <1>15, <2>1, ExclFrame DEF Redeliver, Holds, ExclInv
  <1>16. CASE UNCHANGED vars
    <2>1. MessageLive' => MessageLive
      BY <1>16 DEF vars, MessageLive
    <2>. QED
      BY <1>16, <2>1, ExclFrame DEF vars, Holds, ExclInv
  <1>. QED
    BY <1>1, <1>2, <1>3, <1>4, <1>5, <1>6, <1>8, <1>9, <1>10, <1>12, <1>13, <1>14, <1>15, <1>16,
       <1>17, <1>18
    DEF Next, Api, WorkerPool, RunStep

\* Under a disciplined client ExclInv holds in every reachable state.
LEMMA ExclReachable == ASSUME DisciplinedClient PROVE Spec => []ExclInv
  <1>1. TypeOK /\ ExclInv /\ [Next]_vars => ExclInv'
    BY NextExcl
  <1>. QED
    BY <1>1, InitExcl, TypeCorrect, PTL DEF Spec

\* At most one worker holds the job at any time.
THEOREM ClientsGetMutualExclusion ==
    ASSUME DisciplinedClient PROVE Spec => []MutualExclusion
  <1>1. ExclInv => MutualExclusion
    BY DEF ExclInv
  <1>. QED
    BY <1>1, ExclReachable, PTL

\* No QUEUED commit of the API overwrites a RUNNING or SUCCEEDED row.
THEOREM ClientsKeepWorkerState ==
    ASSUME DisciplinedClient PROVE Spec => WorkerStateNotOverwritten
  <1>1. TypeOK /\ ExclInv /\ [Next]_vars
          => [row.status \in {"RUNNING", "SUCCEEDED"} => row'.status # "QUEUED"]_vars
    <2> SUFFICES ASSUME TypeOK, ExclInv, Next, row.status \in {"RUNNING", "SUCCEEDED"}
                 PROVE  row'.status # "QUEUED"
      OBVIOUS
    <2>1. CASE UNCHANGED row
      BY <2>1
    <2>2. CASE CreateJob
      BY <2>2 DEF CreateJob
    <2>3. ASSUME NEW r \in Requests, MarkQueued(r) PROVE FALSE
      BY <2>3 DEF MarkQueued, ExclInv, NotExecutable
    <2>4. ASSUME NEW w \in Workers, Claim(w) \/ StartJob(w) \/ CompleteJob(w) \/ FailExecution(w)
          PROVE  row'.status # "QUEUED"
      BY <2>4, SavesStatus DEF Claim, Runnable
    <2>. QED
      BY <2>1, <2>2, <2>3, <2>4
      DEF Next, Api, WorkerPool, RunStep, ValidateExecutable, ReadForQueued, SendTask,
          RecordExecution, RequestFault, Deliver, ClaimRefused, LockedEvent, ReadForSave,
          StartedEvent, StartStep,
          ExecuteHandler, SucceededEvents, FailedEvents, FaultInTry, FaultOutsideTry,
          Crash, Redeliver
  <1>. QED
    BY <1>1, ExclReachable, TypeCorrect, PTL DEF Spec, WorkerStateNotOverwritten

-----------------------------------------------------------------------------
(* Under a disciplined client the platform implements AbstractJob.         *)

Holders == {w \in Workers : Holds(w)}

\* Each step is a step of AbstractJob or leaves status and holders alone.
LEMMA StepImplements ==
    TypeOK /\ ExclInv /\ [Next]_vars => [Abstract!Next]_<<row.status, Holders>>
  <1> SUFFICES ASSUME TypeOK, ExclInv, [Next]_vars
               PROVE  Abstract!Next \/ (row'.status = row.status /\ Holders' = Holders)
    BY DEF Holders
  <1> DEFINE Done == Abstract!Next \/ (row'.status = row.status /\ Holders' = Holders)
  <1>0. \A w \in Workers : Holds(w) => Holders = {w}
    BY DEF ExclInv, MutualExclusion, Holders
  <1>1. CASE CreateJob
    <2>1. Abstract!Create
      BY <1>1 DEF CreateJob, Abstract!Create, Holds, TypeOK, Row
    <2>. QED
      BY <2>1 DEF Abstract!Next
  <1>2. ASSUME NEW r \in Requests, MarkQueued(r) PROVE Done
    <2>1. row.status \in {"PENDING", "QUEUED", "FAILED"} /\ row'.status = "QUEUED"
      BY <1>2, SavesStatus DEF MarkQueued, ExclInv, NotExecutable, TypeOK, Row, JobStatus
    <2>2. Holders = {} /\ Holders' = {}
      BY <1>2, <2>1 DEF MarkQueued, ExclInv, Holders, Holds
    <2>3. Abstract!Queue
      BY <2>1, <2>2 DEF Abstract!Queue, Holders
    <2>. QED
      BY <2>3 DEF Abstract!Next
  <1>3. ASSUME NEW w \in Workers, Claim(w) PROVE Done
    <2>1. row.status \in {"PENDING", "QUEUED"} /\ row'.status = "RUNNING"
      BY <1>3 DEF Claim, Runnable, TypeOK, Row
    <2>2. Holders = {}
      BY <2>1 DEF ExclInv, Holders
    <2>3. Holders' = {w}
      BY <1>3, <2>2 DEF Claim, Holders, Holds, HoldingPcs, TypeOK
    <2>4. Abstract!Take(w)
      BY <2>1, <2>2, <2>3 DEF Abstract!Take, Holders
    <2>. QED
      BY <2>4 DEF Abstract!Next
  <1>4. ASSUME NEW w \in Workers, StartJob(w) PROVE Done
    <2>1. row.status = "RUNNING" /\ row'.status = "RUNNING"
      BY <1>4, SavesStatus DEF StartJob, ExclInv, HoldingPcs
    <2>2. Holders' = Holders
      BY <1>4 DEF StartJob, Save, Holders, Holds, HoldingPcs, TypeOK
    <2>. QED
      BY <2>1, <2>2
  <1>5. ASSUME NEW w \in Workers, CompleteJob(w) PROVE Done
    <2>1. row.status = "RUNNING"
      BY <1>5 DEF CompleteJob, ExclInv, HoldingPcs
    <2>2. row'.status = "SUCCEEDED"
      BY <1>5, SavesStatus
    <2>3. Holders = {w}
      BY <1>0, <1>5 DEF CompleteJob, Holds, HoldingPcs
    <2>4. Holders' = Holders
      BY <1>5 DEF CompleteJob, Save, Holders, Holds, HoldingPcs, TypeOK
    <2>5. Abstract!Succeed(w)
      BY <2>1, <2>2, <2>3, <2>4 DEF Abstract!Succeed, Holders
    <2>. QED
      BY <2>5 DEF Abstract!Next
  <1>6. ASSUME NEW w \in Workers, FailExecution(w) PROVE Done
    <2>1. row.status \in {"RUNNING", "SUCCEEDED"} /\ Holders = {w}
      BY <1>0, <1>6 DEF FailExecution, ExclInv, Holds, HoldingPcs
    <2>2. row'.status = "FAILED"
      BY <1>6, SavesStatus
    <2>3. Holders' = {}
      BY <1>6, <2>1 DEF FailExecution, Save, Holders, Holds, HoldingPcs, TypeOK
    <2>4. Abstract!Fail(w)
      BY <2>1, <2>2, <2>3 DEF Abstract!Fail, Holders
    <2>. QED
      BY <2>4 DEF Abstract!Next
  <1>7. ASSUME NEW w \in Workers, UNCHANGED row, worker' = [worker EXCEPT ![w] = IdleWorker]
        PROVE  Done
    <2>1. CASE Holds(w)
      <3>1. row.status \in {"RUNNING", "SUCCEEDED"} /\ Holders = {w}
        BY <1>0, <2>1 DEF ExclInv
      <3>2. Holders' = {}
        BY <1>7, <3>1 DEF Holders, Holds, HoldingPcs, IdleWorker, TypeOK
      <3>3. Abstract!Leave(w)
        BY <1>7, <3>1, <3>2 DEF Abstract!Leave, Holders
      <3>. QED
        BY <3>3 DEF Abstract!Next
    <2>2. CASE ~Holds(w)
      <3>1. Holders' = Holders
        BY <1>7, <2>2 DEF Holders, Holds, HoldingPcs, IdleWorker, TypeOK
      <3>. QED
        BY <1>7, <3>1
    <2>. QED
      BY <2>1, <2>2
  <1>8. ASSUME NEW w \in Workers,
               \/ ClaimRefused(w) \/ SucceededEvents(w) \/ FailedEvents(w)
               \/ FaultOutsideTry(w) \/ Crash(w)
        PROVE  Done
    BY <1>7, <1>8 DEF ClaimRefused, SucceededEvents, FailedEvents, FaultOutsideTry, Crash,
                      Raise, Return
  <1>9. ASSUME NEW w \in Workers,
               \/ LockedEvent(w) \/ ReadForSave(w) \/ StartedEvent(w) \/ StartStep(w)
               \/ ExecuteHandler(w) \/ FaultInTry(w) \/ Redeliver(w)
        PROVE  Done
    <2>2. \A v \in Workers : Holds(v)' <=> Holds(v)
      <3>1. CASE ReadForSave(w)
        <4>1. \A v \in Workers : worker'[v].pc = worker[v].pc
          BY <3>1 DEF ReadForSave, TypeOK
        <4>. QED
          BY <4>1 DEF Holds
      <3>2. CASE FaultInTry(w) \/ Redeliver(w)
        <4>1. /\ \A v \in Workers : v # w => worker'[v] = worker[v]
              /\ \/ worker'[w] = worker[w]
                 \/ worker[w].pc \in HoldingPcs /\ worker'[w].pc = "fail"
          BY <3>2 DEF FaultInTry, Redeliver, HoldingPcs, TypeOK
        <4>. QED
          BY <4>1 DEF Holds, HoldingPcs
      <3>3. CASE LockedEvent(w) \/ StartedEvent(w) \/ StartStep(w) \/ ExecuteHandler(w)
        <4>1. /\ worker[w].pc \in HoldingPcs /\ worker'[w].pc \in HoldingPcs
              /\ \A v \in Workers : v # w => worker'[v] = worker[v]
          BY <3>3 DEF LockedEvent, StartedEvent, StartStep, ExecuteHandler, Goto, HoldingPcs, TypeOK
        <4>. QED
          BY <4>1 DEF Holds
      <3>. QED
        BY <1>9, <3>1, <3>2, <3>3
    <2>1. Holders' = Holders
      BY <2>2 DEF Holders
    <2>. QED
      BY <1>9, <2>1 DEF LockedEvent, ReadForSave, StartedEvent, StartStep, ExecuteHandler,
                        FaultInTry, Redeliver
  <1>10. ASSUME NEW w \in Workers, NEW m \in Messages, Deliver(w, m) PROVE Done
    <2>1. Holders' = Holders
      BY <1>10 DEF Deliver, Holders, Holds, HoldingPcs, IdleWorker, TypeOK
    <2>. QED
      BY <1>10, <2>1 DEF Deliver
  <1>11. ASSUME NEW r \in Requests,
                \/ ValidateExecutable(r) \/ ReadForQueued(r) \/ SendTask(r)
                \/ RecordExecution(r) \/ RequestFault(r)
         PROVE  Done
    BY <1>11 DEF ValidateExecutable, ReadForQueued, SendTask, RecordExecution, RequestFault,
                 Holders, Holds
  <1>12. CASE UNCHANGED vars
    BY <1>12 DEF vars, Holders, Holds
  <1>. QED
    BY <1>1, <1>2, <1>3, <1>4, <1>5, <1>6, <1>8, <1>9, <1>10, <1>11, <1>12
    DEF Next, Api, WorkerPool, RunStep

\* The API, the broker and the workers together implement AbstractJob.
THEOREM JobRefinement ==
    ASSUME DisciplinedClient PROVE Spec => ImplementsAbstractJob
  <1>1. Init => Abstract!Init
    BY DEF Init, Abstract!Init, NoRow, Holds, HoldingPcs, IdleWorker
  <1>2. TypeOK /\ ExclInv /\ [Next]_vars => [Abstract!Next]_<<row.status, Holders>>
    BY StepImplements
  <1>3. [Abstract!Next]_<<row.status, Holders>>
          <=> [Abstract!Next]_<<row.status, {w \in Workers : Holds(w)}>>
    BY DEF Holders
  <1>. QED
    BY <1>1, <1>2, <1>3, ExclReachable, TypeCorrect, PTL
    DEF Spec, ImplementsAbstractJob, Abstract!Spec

-----------------------------------------------------------------------------
(* The step list, under a disciplined client.  The saves write from copies *)
(* read earlier, so that what is true of the row must be true of every copy *)
(* that may still be written; that a save writes the whole copy is ExclInv. *)

NoneRunning(r) == \A i \in StepIds : r.steps[i] # "RUNNING"

OneRunning(r) ==
    \A i, j \in StepIds : r.steps[i] = "RUNNING" /\ r.steps[j] = "RUNNING" => i = j

\* A worker gets a row no step of which is RUNNING with its claim, and has at
\* most one such step from start to completion.
StepsInv ==
    /\ row.status # "RUNNING" => NoneRunning(row)
    /\ OneRunning(row)
    /\ \A w \in Workers : worker[w].pc \in {"locked", "start"} => NoneRunning(worker[w].copy)
    /\ \A w \in Workers : worker[w].pc \in {"started", "step", "handle", "complete"}
                            => OneRunning(worker[w].copy)

\* No step is RUNNING exactly when the recorder finds none.
LEMMA NoRunningStep == ASSUME NEW r PROVE RunningStep(r) # 0 => ~NoneRunning(r)
  BY DEF RunningStep, NoneRunning

\* Of the three marks, the first leaves one step RUNNING, the others none.
LEMMA MarkSteps ==
    ASSUME NEW r \in Row, NEW c \in Nat
    PROVE  /\ NoneRunning(r) => OneRunning(MarkJobRunning(r))
           /\ OneRunning(r) => NoneRunning(MarkJobSucceeded(r, c))
           /\ NoneRunning(MarkJobFailed(r))
  <1>0. r.steps \in [StepIds -> StepStatus] /\ StepIds \subseteq Nat
    BY DEF Row, StepIds
  <1>1. MarkJobRunning(r).steps = MarkFirst(r.steps, "PENDING", "RUNNING")
    BY DEF MarkJobRunning, Row
  <1>2. MarkJobSucceeded(r, c).steps = MarkFirst(r.steps, "RUNNING", "SUCCEEDED")
    BY DEF MarkJobSucceeded, Row
  <1>3. MarkJobFailed(r).steps = MarkAll(r.steps, "RUNNING", "FAILED")
    BY DEF MarkJobFailed, Row
  <1>4. ASSUME NoneRunning(r) PROVE OneRunning(MarkJobRunning(r))
    BY <1>0, <1>1, <1>4 DEF NoneRunning, OneRunning, MarkFirst
  <1>5. ASSUME OneRunning(r) PROVE NoneRunning(MarkJobSucceeded(r, c))
    BY <1>0, <1>2, <1>5 DEF NoneRunning, OneRunning, MarkFirst
  <1>6. NoneRunning(MarkJobFailed(r))
    BY <1>0, <1>3 DEF NoneRunning, MarkAll
  <1>. QED
    BY <1>4, <1>5, <1>6

\* Initially no step is RUNNING.
LEMMA InitSteps == Init => StepsInv
  BY DEF Init, StepsInv, NoneRunning, OneRunning, NoRow, IdleWorker

\* Every step of a disciplined client's system keeps StepsInv.
LEMMA NextSteps == TypeOK /\ ExclInv /\ StepsInv /\ [Next]_vars => StepsInv'
  <1> SUFFICES ASSUME TypeOK, ExclInv, StepsInv, [Next]_vars PROVE StepsInv'
    OBVIOUS
  <1>0. /\ row \in Row
        /\ \A w \in Workers : worker[w].copy \in Row /\ worker[w].claim \in Nat
    BY DEF TypeOK
  <1>1. ASSUME row'.steps = row.steps, row'.status = row.status, UNCHANGED worker
        PROVE  StepsInv'
    BY <1>1 DEF StepsInv, NoneRunning, OneRunning
  <1>2. CASE CreateJob
    <2>1. row'.steps = row.steps /\ NoneRunning(row)
      BY <1>2 DEF CreateJob, StepsInv, TypeOK, Row
    <2>. QED
      BY <1>2, <2>1 DEF CreateJob, StepsInv, NoneRunning, OneRunning
  <1>3. ASSUME NEW r \in Requests,
               \/ ValidateExecutable(r) \/ ReadForQueued(r) \/ SendTask(r)
               \/ RecordExecution(r) \/ RequestFault(r)
        PROVE  StepsInv'
    BY <1>1, <1>3 DEF ValidateExecutable, ReadForQueued, SendTask, RecordExecution, RequestFault
  <1>4. ASSUME NEW r \in Requests, MarkQueued(r) PROVE StepsInv'
    <2>1. row' = [row EXCEPT !.status = "QUEUED"]
      BY <1>4, SavesAlone
    <2>2. row'.steps = row.steps
      BY <1>0, <2>1 DEF Row
    <2>3. NoneRunning(row)
      BY <1>4 DEF MarkQueued, ExclInv, NotExecutable, StepsInv
    <2>. QED
      BY <1>4, <2>2, <2>3 DEF MarkQueued, StepsInv, NoneRunning, OneRunning
  \* What a step of a worker owes: its row and its copy, if it still has one.
  <1>6. ASSUME NEW w \in Workers,
               \A v \in Workers : v # w => worker'[v] = worker[v],
               row'.status # "RUNNING" => NoneRunning(row'), OneRunning(row'),
               worker'[w].pc \in {"locked", "start"} => NoneRunning(worker'[w].copy),
               worker'[w].pc \in {"started", "step", "handle", "complete"}
                 => OneRunning(worker'[w].copy)
        PROVE  StepsInv'
    BY <1>6 DEF StepsInv, NoneRunning, OneRunning
  <1>7. ASSUME NEW w \in Workers, NEW m \in Messages, Deliver(w, m) PROVE StepsInv'
    <2>1. /\ \A v \in Workers : v # w => worker'[v] = worker[v]
          /\ worker'[w].pc = "claim"
      BY <1>7 DEF Deliver, TypeOK, IdleWorker
    <2>. QED
      BY <1>6, <1>7, <2>1 DEF Deliver, StepsInv, NoneRunning, OneRunning
  <1>8. ASSUME NEW w \in Workers, Claim(w) PROVE StepsInv'
    <2>1. row'.steps = row.steps /\ NoneRunning(row)
      BY <1>8 DEF Claim, StepsInv, Runnable, TypeOK, Row
    <2>2. NoneRunning(row') /\ OneRunning(row')
      BY <2>1 DEF NoneRunning, OneRunning
    <2>3. /\ \A v \in Workers : v # w => worker'[v] = worker[v]
          /\ worker'[w].pc = "locked" /\ worker'[w].copy = row'
      BY <1>8 DEF Claim, TypeOK
    <2>. QED
      BY <1>6, <1>8, <2>2, <2>3 DEF Claim
  <1>9. ASSUME NEW w \in Workers, StartJob(w) PROVE StepsInv'
    <2>1. row' = MarkJobRunning(worker[w].copy) /\ NoneRunning(worker[w].copy)
      BY <1>9, SavesAlone DEF StartJob, StepsInv
    <2>3. row'.status = "RUNNING" /\ OneRunning(row')
      BY <1>0, <2>1, MarkRowType, MarkSteps
    <2>2. /\ \A v \in Workers : v # w => worker'[v] = worker[v]
          /\ worker'[w].pc = "started" /\ worker'[w].copy = row'
      BY <1>9 DEF StartJob, Save, TypeOK
    <2>. QED
      BY <1>6, <1>9, <2>2, <2>3
  <1>10. ASSUME NEW w \in Workers, CompleteJob(w) \/ FailExecution(w) PROVE StepsInv'
    <2>1. NoneRunning(row')
      <3>1. CASE CompleteJob(w)
        BY <1>0, <3>1, MarkSteps, SavesAlone DEF CompleteJob, StepsInv
      <3>2. CASE FailExecution(w)
        BY <1>0, <3>2, MarkSteps, SavesAlone
      <3>. QED
        BY <1>10, <3>1, <3>2
    <2>2. OneRunning(row')
      BY <2>1 DEF NoneRunning, OneRunning
    <2>3. /\ \A v \in Workers : v # w => worker'[v] = worker[v]
          /\ worker'[w].pc \in {"completed", "failed"}
      BY <1>10 DEF CompleteJob, FailExecution, Save, TypeOK
    <2>. QED
      BY <1>6, <2>1, <2>2, <2>3
  <1>15. ASSUME NEW w \in Workers, ReadForSave(w) PROVE StepsInv'
    <2>1. /\ \A v \in Workers : v # w => worker'[v] = worker[v]
          /\ worker'[w].pc = worker[w].pc /\ worker'[w].copy = worker[w].copy
          /\ row' = row
      BY <1>15 DEF ReadForSave, TypeOK
    <2>. QED
      BY <1>6, <2>1 DEF StepsInv
  <1>11. ASSUME NEW w \in Workers,
                LockedEvent(w) \/ StartedEvent(w) \/ StartStep(w) \/ ExecuteHandler(w)
         PROVE  StepsInv'
    <2>1. /\ \A v \in Workers : v # w => worker'[v] = worker[v]
          /\ worker'[w].copy = worker[w].copy
          /\ \/ worker[w].pc = "locked" /\ worker'[w].pc = "start"
             \/ /\ worker[w].pc \in {"started", "step", "handle"}
                /\ worker'[w].pc \in {"step", "handle", "complete", "fail"}
      BY <1>11 DEF LockedEvent, StartedEvent, StartStep, ExecuteHandler, Goto, TypeOK
    <2>2. UNCHANGED <<row, request>>
      BY <1>11 DEF LockedEvent, StartedEvent, StartStep, ExecuteHandler
    <2>. QED
      BY <1>6, <2>1, <2>2 DEF StepsInv, NoneRunning, OneRunning
  <1>12. ASSUME NEW w \in Workers,
                \/ ClaimRefused(w) \/ SucceededEvents(w) \/ FailedEvents(w)
                \/ FaultInTry(w) \/ FaultOutsideTry(w) \/ Crash(w)
         PROVE  StepsInv'
    <2>1. /\ \A v \in Workers : v # w => worker'[v] = worker[v]
          /\ worker'[w].pc \in {"idle", "fail"}
      BY <1>12 DEF ClaimRefused, SucceededEvents, FailedEvents, FaultInTry, FaultOutsideTry,
                   Crash, Raise, Return, IdleWorker, TypeOK
    <2>2. UNCHANGED <<row, request>>
      BY <1>12 DEF ClaimRefused, SucceededEvents, FailedEvents, FaultInTry, FaultOutsideTry, Crash
    <2>. QED
      BY <1>6, <2>1, <2>2 DEF StepsInv, NoneRunning, OneRunning
  <1>13. ASSUME NEW w \in Workers, Redeliver(w) PROVE StepsInv'
    BY <1>1, <1>13 DEF Redeliver
  <1>14. CASE UNCHANGED vars
    BY <1>1, <1>14 DEF vars
  <1>. QED
    BY <1>2, <1>3, <1>4, <1>7, <1>8, <1>9, <1>10, <1>11, <1>12, <1>13, <1>14, <1>15
    DEF Next, Api, WorkerPool, RunStep

\* With disciplined clients a step is RUNNING only in a RUNNING row and only
\* one is, over errors, crashes, redeliveries and retries, although requests
\* and workers write from copies they read earlier, column by column.
THEOREM StepListFollowsJob ==
    ASSUME DisciplinedClient PROVE Spec => []StepsFollowJob
  <1>1. StepsInv => StepsFollowJob
    BY NoRunningStep DEF StepsInv, StepsFollowJob, OneRunning
  <1>2. TypeOK /\ ExclInv /\ StepsInv /\ [Next]_vars => StepsInv'
    BY NextSteps
  <1>. QED
    BY <1>1, <1>2, InitSteps, ExclReachable, TypeCorrect, PTL DEF Spec

-----------------------------------------------------------------------------
(* What one step of a worker does to its slot, in the terms that the other *)
(* invariants need: where it stands, under which claim, and what the step  *)
(* reports or writes.                                                      *)

AtWork(w) == worker[w].pc \notin {"idle", "claim"}

\* The other slots stay as they are.
LEMMA OneWorkerMoves ==
    ASSUME TypeOK, NEW w \in Workers,
           \/ \E m \in Messages : Deliver(w, m)
           \/ RunStep(w) \/ FaultInTry(w) \/ FaultOutsideTry(w) \/ Crash(w) \/ Redeliver(w)
    PROVE  UNCHANGED request /\ \A v \in Workers : v # w => worker'[v] = worker[v]
  <1>1. ASSUME NEW m \in Messages, Deliver(w, m)
        PROVE  UNCHANGED request /\ \A v \in Workers : v # w => worker'[v] = worker[v]
    BY <1>1 DEF Deliver, TypeOK
  <1>2. CASE RunStep(w)
    BY <1>2 DEF RunStep, Claim, ClaimRefused, LockedEvent, ReadForSave, StartJob, StartedEvent,
                StartStep, ExecuteHandler, CompleteJob, SucceededEvents, FailExecution,
                FailedEvents, Goto, Raise, Return, Save, TypeOK
  <1>3. CASE FaultInTry(w) \/ FaultOutsideTry(w) \/ Crash(w) \/ Redeliver(w)
    BY <1>3 DEF FaultInTry, FaultOutsideTry, Crash, Redeliver, Raise, TypeOK
  <1>. QED
    BY <1>1, <1>2, <1>3

\* A step that a worker takes at work, without writing the row or reporting
\* an outcome: it keeps its claim, or returns to idle.
Continues(w) ==
    /\ UNCHANGED <<row, claims>>
    /\ AtWork(w)
    /\ \/ Holds(w) /\ Holds(w)' /\ worker'[w].claim = worker[w].claim
       \/ worker'[w].pc = "idle"
    /\ \A e \in events' \ events :
          /\ e[1] = worker[w].claim
          /\ e[2] \notin {"SUCCEEDED", "FAILED"}

\* A step without a job: it changes neither the row nor the events.
WithoutJob(w) ==
    /\ UNCHANGED <<row, claims, events>>
    /\ worker[w].pc \in {"idle", "claim"} /\ worker'[w].pc \in {"idle", "claim"}

\* The steps at which a worker saves, and the SELECT and the UPDATE of a save.
SavePcs == {"start", "complete", "fail"}

Reads(w) ==
    /\ worker[w].pc \in SavePcs /\ worker'[w].pc = worker[w].pc
    /\ worker'[w].seen = row

Writes(w, from, to, status) ==
    /\ worker[w].pc = from /\ worker[w].seen # NoRow
    /\ worker'[w].pc = to /\ worker'[w].claim = worker[w].claim
    /\ row'.status \in {status, row.status}
    /\ worker[w].seen.status # status => row'.status = status
    /\ UNCHANGED <<claims, events>>

Claims(w) ==
    /\ worker[w].pc = "claim" /\ row.status \in Runnable
    /\ worker'[w].pc = "locked" /\ worker'[w].claim = claims + 1 /\ claims' = claims + 1
    /\ row'.status = "RUNNING"
    /\ UNCHANGED events

Reports(w, from, outcome) ==
    /\ worker[w].pc = from /\ worker'[w].pc = "idle"
    /\ UNCHANGED <<row, claims>>
    /\ <<worker[w].claim, outcome>> \in events'
    /\ \A e \in events' \ events :
          /\ e[1] = worker[w].claim
          /\ e[2] \in {"SUCCEEDED", "FAILED"} => e[2] = outcome

\* Every step of JobRunner.run is of one of these forms.
LEMMA RunStepForms ==
    ASSUME TypeOK, NEW w \in Workers, RunStep(w)
    PROVE  \/ WithoutJob(w) \/ Claims(w)
           \/ Writes(w, "start", "started", "RUNNING")
           \/ Writes(w, "complete", "completed", "SUCCEEDED")
           \/ Writes(w, "fail", "failed", "FAILED")
           \/ Reports(w, "completed", "SUCCEEDED") \/ Reports(w, "failed", "FAILED")
           \/ /\ Continues(w) /\ Holds(w)'
              /\ worker[w].pc = "completed" <=> worker'[w].pc = "completed"
              /\ \/ Reads(w)
                 \/ worker[w].pc \notin SavePcs /\ worker'[w].seen = worker[w].seen
  <1>0. row \in Row /\ worker[w].copy \in Row /\ worker[w].claim \in Nat
    BY DEF TypeOK
  <1>1. CASE Claim(w)
    <2>1. row'.status = "RUNNING"
      BY <1>0, <1>1 DEF Claim, Row
    <2>2. worker'[w].pc = "locked" /\ worker'[w].claim = claims + 1
      BY <1>1 DEF Claim, TypeOK
    <2>. QED
      BY <1>1, <2>1, <2>2 DEF Claim, Claims
  <1>2. CASE ClaimRefused(w)
    BY <1>2 DEF ClaimRefused, Raise, IdleWorker, TypeOK, WithoutJob
  <1>3. CASE StartJob(w)
    <2>1. /\ row'.status \in {"RUNNING", row.status}
          /\ worker[w].seen.status # "RUNNING" => row'.status = "RUNNING"
      BY <1>3, SaveStatus
    <2>. QED
      BY <1>3, <2>1 DEF StartJob, Save, TypeOK, Writes
  <1>4. CASE CompleteJob(w)
    <2>1. /\ row'.status \in {"SUCCEEDED", row.status}
          /\ worker[w].seen.status # "SUCCEEDED" => row'.status = "SUCCEEDED"
      BY <1>4, SaveStatus
    <2>. QED
      BY <1>4, <2>1 DEF CompleteJob, Save, TypeOK, Writes
  <1>5. CASE FailExecution(w)
    <2>1. /\ row'.status \in {"FAILED", row.status}
          /\ worker[w].seen.status # "FAILED" => row'.status = "FAILED"
      BY <1>5, SaveStatus
    <2>. QED
      BY <1>5, <2>1 DEF FailExecution, Save, TypeOK, Writes
  <1>9. CASE ReadForSave(w)
    <2>1. /\ worker[w].pc \in SavePcs /\ worker'[w].pc = worker[w].pc
          /\ worker'[w].claim = worker[w].claim /\ worker'[w].seen = row
          /\ UNCHANGED <<row, claims, events>>
      BY <1>9 DEF ReadForSave, SavePcs, TypeOK
    <2>2. Holds(w) /\ Holds(w)' /\ AtWork(w) /\ worker[w].pc # "completed"
      BY <2>1 DEF AtWork, Holds, HoldingPcs, SavePcs
    <2>3. Continues(w) /\ Reads(w)
      BY <2>1, <2>2 DEF Continues, Reads
    <2>. QED
      BY <2>1, <2>2, <2>3
  <1>6. CASE SucceededEvents(w)
    <2>1. worker'[w].pc = "idle" /\ worker[w].pc = "completed" /\ UNCHANGED <<row, claims>>
      BY <1>6 DEF SucceededEvents, Return, IdleWorker, TypeOK
    <2>2. PICK types : /\ Emit(w, types) /\ "SUCCEEDED" \in types
                       /\ types \subseteq {"STEP_SUCCEEDED", "SUCCEEDED"}
      BY <1>6 DEF SucceededEvents
    <2>3. events' = events \cup ({worker[w].claim} \X types)
      BY <2>2 DEF Emit
    <2>. QED
      BY <2>1, <2>2, <2>3 DEF Reports
  <1>7. CASE FailedEvents(w)
    <2>1. worker'[w].pc = "idle" /\ worker[w].pc = "failed" /\ UNCHANGED <<row, claims>>
      BY <1>7 DEF FailedEvents, Raise, IdleWorker, TypeOK
    <2>2. PICK types : /\ Emit(w, types) /\ "FAILED" \in types
                       /\ types \subseteq {"STEP_FAILED", "FAILED"}
      BY <1>7 DEF FailedEvents
    <2>3. events' = events \cup ({worker[w].claim} \X types)
      BY <2>2 DEF Emit
    <2>. QED
      BY <2>1, <2>2, <2>3 DEF Reports
  <1>8. CASE LockedEvent(w) \/ StartedEvent(w) \/ StartStep(w) \/ ExecuteHandler(w)
    <2>1. /\ worker[w].pc \in {"locked", "started", "step", "handle"}
          /\ worker'[w].pc \in {"start", "step", "handle", "complete", "fail"}
          /\ worker'[w].claim = worker[w].claim /\ worker'[w].seen = worker[w].seen
          /\ UNCHANGED <<row, claims>>
      BY <1>8 DEF LockedEvent, StartedEvent, StartStep, ExecuteHandler, Goto, TypeOK
    <2>2. \A e \in events' \ events : e[1] = worker[w].claim /\ e[2] \notin {"SUCCEEDED", "FAILED"}
      <3>1. CASE ExecuteHandler(w)
        BY <3>1 DEF ExecuteHandler
      <3>2. CASE LockedEvent(w)
        BY <3>2 DEF LockedEvent, Emit
      <3>3. CASE StartedEvent(w)
        BY <3>3 DEF StartedEvent, Emit
      <3>4. CASE StartStep(w)
        BY <3>4 DEF StartStep, Emit
      <3>. QED
        BY <1>8, <3>1, <3>2, <3>3, <3>4
    <2>. QED
      BY <2>1, <2>2 DEF Continues, AtWork, Holds, HoldingPcs, SavePcs
  <1>. QED
    BY <1>1, <1>2, <1>3, <1>4, <1>5, <1>6, <1>7, <1>8, <1>9 DEF RunStep

\* So is every error, crash and redelivery, and the arrival of a message.
LEMMA OtherStepForms ==
    ASSUME TypeOK, NEW w \in Workers,
           \/ \E m \in Messages : Deliver(w, m)
           \/ FaultInTry(w) \/ FaultOutsideTry(w) \/ Crash(w) \/ Redeliver(w)
    PROVE  /\ WithoutJob(w) \/ Continues(w) \/ UNCHANGED <<row, worker, events, claims>>
           /\ worker'[w].pc = "completed" => worker[w].pc = "completed"
           /\ \/ faults' + crashes' > 0
              \/ row' = row /\ (worker' = worker \/ worker[w].pc = "idle")
  <1>0. faults \in Nat /\ crashes \in Nat
    BY DEF TypeOK
  <1>1. ASSUME NEW m \in Messages, Deliver(w, m)
        PROVE  /\ WithoutJob(w) /\ worker[w].pc = "idle"
               /\ worker'[w].pc # "completed"
    BY <1>1 DEF Deliver, IdleWorker, TypeOK, WithoutJob
  <1>2. CASE FaultInTry(w)
    <2>1. worker'[w].pc = "fail" /\ worker'[w].claim = worker[w].claim
      BY <1>2 DEF FaultInTry, TypeOK
    <2>. QED
      BY <1>0, <1>2, <2>1 DEF FaultInTry, Continues, AtWork, Holds, HoldingPcs
  <1>3. CASE FaultOutsideTry(w) \/ Crash(w)
    <2>1. worker'[w].pc = "idle" /\ UNCHANGED <<row, events, claims>> /\ worker[w].pc # "idle"
      BY <1>3 DEF FaultOutsideTry, Crash, Raise, IdleWorker, TypeOK
    <2>2. faults' + crashes' > 0
      BY <1>0, <1>3 DEF FaultOutsideTry, Crash
    <2>. QED
      BY <2>1, <2>2 DEF Continues, WithoutJob, AtWork
  <1>4. CASE Redeliver(w)
    BY <1>4 DEF Redeliver
  <1>. QED
    BY <1>1, <1>2, <1>3, <1>4 DEF WithoutJob

\* Every step of the system is a step of the API, which leaves workers, claims
\* and events alone and changes the status to PENDING or QUEUED if at all, or
\* a step of one worker.
LEMMA StepForms ==
    ASSUME TypeOK, [Next]_vars
    PROVE  \/ UNCHANGED <<row, worker, claims, events>>
           \/ CreateJob
           \/ \E r \in Requests : MarkQueued(r)
           \/ \E w \in Workers :
                 \/ \E m \in Messages : Deliver(w, m)
                 \/ RunStep(w) \/ FaultInTry(w) \/ FaultOutsideTry(w) \/ Crash(w)
                 \/ Redeliver(w)
  BY DEF Next, Api, WorkerPool, ValidateExecutable, ReadForQueued, SendTask, RecordExecution,
         RequestFault, vars

\* Failures that are counted are not forgotten.
LEMMA FailuresGrow ==
    ASSUME TypeOK, [Next]_vars
    PROVE  faults' + crashes' >= faults + crashes
  <1>0. faults \in Nat /\ crashes \in Nat
    BY DEF TypeOK
  <1>1. CASE UNCHANGED <<faults, crashes>>
    BY <1>0, <1>1
  <1>2. CASE \E r \in Requests : RequestFault(r)
    BY <1>0, <1>2 DEF RequestFault
  <1>3. CASE \E w \in Workers : FaultInTry(w) \/ FaultOutsideTry(w) \/ Crash(w)
    BY <1>0, <1>3 DEF FaultInTry, FaultOutsideTry, Crash
  <1>4. ASSUME NEW w \in Workers, NEW m \in Messages, Deliver(w, m)
        PROVE  UNCHANGED <<faults, crashes>>
    BY <1>4 DEF Deliver
  <1>5. ASSUME NEW w \in Workers, RunStep(w) PROVE UNCHANGED <<faults, crashes>>
    BY <1>5 DEF RunStep, Claim, ClaimRefused, LockedEvent, ReadForSave, StartJob, StartedEvent,
                StartStep, ExecuteHandler, CompleteJob, SucceededEvents, FailExecution,
                FailedEvents
  <1>. QED
    BY <1>1, <1>2, <1>3, <1>4, <1>5
    DEF Next, Api, WorkerPool, CreateJob, ValidateExecutable, ReadForQueued, MarkQueued,
        SendTask, RecordExecution, Redeliver, vars

-----------------------------------------------------------------------------
(* Orphans.  A RUNNING row has a worker that will still write it, until an *)
(* error or a crash takes that worker away.  A save that has seen its own  *)
(* status would not write it: the witness has not, because the row was     *)
(* RUNNING when its SELECT saw it.                                         *)

\* Only a save that is under way has seen the row.
SeenAtSave == \A w \in Workers : worker[w].seen # NoRow => worker[w].pc \in SavePcs

WillWrite(w) ==
    /\ worker[w].pc \in HoldingPcs \ {"completed"}
    /\ worker[w].pc \in {"complete", "fail"} /\ worker[w].seen # NoRow
         => worker[w].seen.status = "RUNNING"

OrphanInv ==
    /\ SeenAtSave
    /\ row.status = "RUNNING" /\ faults + crashes = 0 => \E w \in Workers : WillWrite(w)

\* Every UPDATE forgets what its SELECT saw.
LEMMA NextSeen == TypeOK /\ SeenAtSave /\ [Next]_vars => SeenAtSave'
  <1> SUFFICES ASSUME TypeOK, SeenAtSave, [Next]_vars PROVE SeenAtSave'
    OBVIOUS
  <1>1. CASE UNCHANGED worker
    BY <1>1 DEF SeenAtSave
  <1>2. ASSUME NEW w \in Workers, \A v \in Workers : v # w => worker'[v] = worker[v],
               worker'[w].seen # NoRow => worker'[w].pc \in SavePcs
        PROVE  SeenAtSave'
    BY <1>2 DEF SeenAtSave
  <1>3. ASSUME NEW w \in Workers, NEW m \in Messages, Deliver(w, m) PROVE SeenAtSave'
    BY <1>2, <1>3 DEF Deliver, IdleWorker, TypeOK
  <1>4. ASSUME NEW w \in Workers, StartJob(w) \/ CompleteJob(w) \/ FailExecution(w)
        PROVE  SeenAtSave'
    BY <1>2, <1>4 DEF StartJob, CompleteJob, FailExecution, Save, TypeOK
  <1>5. ASSUME NEW w \in Workers, worker' = [worker EXCEPT ![w] = IdleWorker] PROVE SeenAtSave'
    BY <1>2, <1>5 DEF IdleWorker, TypeOK
  <1>6. ASSUME NEW w \in Workers,
               \/ ClaimRefused(w) \/ SucceededEvents(w) \/ FailedEvents(w)
               \/ FaultOutsideTry(w) \/ Crash(w)
        PROVE  SeenAtSave'
    BY <1>5, <1>6 DEF ClaimRefused, SucceededEvents, FailedEvents, FaultOutsideTry, Crash,
                      Raise, Return
  <1>7. ASSUME NEW w \in Workers, ReadForSave(w) \/ FaultInTry(w) PROVE SeenAtSave'
    BY <1>2, <1>7 DEF ReadForSave, FaultInTry, SavePcs, TypeOK
  <1>8. ASSUME NEW w \in Workers,
               Claim(w) \/ LockedEvent(w) \/ StartedEvent(w) \/ StartStep(w) \/ ExecuteHandler(w)
        PROVE  SeenAtSave'
    <2>1. worker[w].pc \notin SavePcs
      BY <1>8 DEF Claim, LockedEvent, StartedEvent, StartStep, ExecuteHandler, SavePcs
    <2>2. /\ worker'[w].seen = worker[w].seen
          /\ \A v \in Workers : v # w => worker'[v] = worker[v]
      BY <1>8 DEF Claim, LockedEvent, StartedEvent, StartStep, ExecuteHandler, Goto, TypeOK
    <2>. QED
      BY <1>2, <2>1, <2>2 DEF SeenAtSave
  <1>. QED
    BY <1>1, <1>3, <1>4, <1>6, <1>7, <1>8
    DEF Next, Api, WorkerPool, RunStep, CreateJob, ValidateExecutable, ReadForQueued, MarkQueued,
        SendTask, RecordExecution, RequestFault, Redeliver, vars

\* Every step keeps the worker of a RUNNING row.
LEMMA NextOrphan == TypeOK /\ OrphanInv /\ [Next]_vars => OrphanInv'
  <1> SUFFICES ASSUME TypeOK, OrphanInv, [Next]_vars,
                      row'.status = "RUNNING", faults' + crashes' = 0
               PROVE  \E w \in Workers : WillWrite(w)'
    BY NextSeen DEF OrphanInv
  <1>0. faults + crashes = 0
    BY FailuresGrow DEF TypeOK
  <1>1. CASE row.status = "RUNNING" /\ UNCHANGED worker
    BY <1>0, <1>1 DEF OrphanInv, WillWrite
  <1>2. CASE CreateJob
    BY <1>2 DEF CreateJob, TypeOK, Row
  <1>3. CASE \E r \in Requests : MarkQueued(r)
    <2>1. row.status = "RUNNING"
      BY <1>3, QueuedStatus
    <2>. QED
      BY <1>1, <1>3, <2>1 DEF MarkQueued
  <1>4. ASSUME NEW w \in Workers, RunStep(w) PROVE \E v \in Workers : WillWrite(v)'
    <2>1. \A v \in Workers : v # w => worker'[v] = worker[v]
      BY <1>4, OneWorkerMoves
    <2>2. CASE WillWrite(w)'
      BY <2>2
    <2>3. CASE ~WillWrite(w)'
      <3>1. ~WillWrite(w) /\ row.status = "RUNNING"
        <4>1. CASE WithoutJob(w) \/ Claims(w)
          BY <2>3, <4>1 DEF WithoutJob, Claims, WillWrite, HoldingPcs
        <4>2. CASE Writes(w, "start", "started", "RUNNING")
          BY <2>3, <4>2 DEF Writes, WillWrite, HoldingPcs
        <4>3. CASE \/ Writes(w, "complete", "completed", "SUCCEEDED")
                   \/ Writes(w, "fail", "failed", "FAILED")
          BY <4>3 DEF Writes, WillWrite
        <4>4. CASE Reports(w, "completed", "SUCCEEDED") \/ Reports(w, "failed", "FAILED")
          BY <4>4 DEF Reports, WillWrite, HoldingPcs
        <4>5. CASE Continues(w) /\ Holds(w)' /\ Reads(w)
          BY <2>3, <4>5 DEF Continues, Reads, WillWrite, HoldingPcs, SavePcs
        <4>6. CASE /\ Continues(w) /\ Holds(w)'
                   /\ worker[w].pc = "completed" <=> worker'[w].pc = "completed"
                   /\ worker[w].pc \notin SavePcs /\ worker'[w].seen = worker[w].seen
          BY <2>3, <4>6 DEF Continues, OrphanInv, SeenAtSave, WillWrite, Holds, HoldingPcs
        <4>. QED
          BY <1>4, <4>1, <4>2, <4>3, <4>4, <4>5, <4>6, RunStepForms
      <3>. QED
        BY <1>0, <2>1, <3>1 DEF OrphanInv, WillWrite
    <2>. QED
      BY <2>2, <2>3
  <1>5. ASSUME NEW w \in Workers,
               \/ \E m \in Messages : Deliver(w, m)
               \/ FaultInTry(w) \/ FaultOutsideTry(w) \/ Crash(w) \/ Redeliver(w)
        PROVE  \E v \in Workers : WillWrite(v)'
    <2>1. \A v \in Workers : v # w => worker'[v] = worker[v]
      BY <1>5, OneWorkerMoves
    <2>2. row' = row /\ (worker' = worker \/ worker[w].pc = "idle")
      BY <1>5, OtherStepForms
    <2>. QED
      BY <1>0, <1>1, <2>1, <2>2 DEF OrphanInv, WillWrite, HoldingPcs
  <1>. QED
    BY <1>1, <1>2, <1>3, <1>4, <1>5, StepForms

\* A row is RUNNING with no worker holding the job only after an error or a
\* crash, whatever clients, redeliveries and retries do.
THEOREM JobOrphansNeedFailures == Spec => []OrphanOnlyAfterFailure
  <1>1. Init => OrphanInv
    BY DEF Init, OrphanInv, SeenAtSave, NoRow, IdleWorker
  <1>2. TypeOK /\ OrphanInv => OrphanOnlyAfterFailure
    BY DEF TypeOK, OrphanInv, OrphanOnlyAfterFailure, WillWrite, Holds
  <1>. QED
    BY <1>1, <1>2, NextOrphan, TypeCorrect, PTL DEF Spec

-----------------------------------------------------------------------------
(* Outcomes.  A claim belongs to one worker, and its worker reports the    *)
(* outcome with its last step.                                             *)

Outcomes == {"SUCCEEDED", "FAILED"}

OutcomeInv ==
    /\ \A w \in Workers : AtWork(w) => worker[w].claim \in 1..claims
    /\ \A v, w \in Workers : AtWork(v) /\ AtWork(w) /\ worker[v].claim = worker[w].claim => v = w
    /\ \A e \in events : e[1] \in 1..claims
    /\ \A w \in Workers : AtWork(w) => \A o \in Outcomes : <<worker[w].claim, o>> \notin events
    /\ OneOutcomePerClaim

\* A worker that continues keeps its claim, and nobody else takes it.
LEMMA NextOutcome == TypeOK /\ OutcomeInv /\ [Next]_vars => OutcomeInv'
  <1> SUFFICES ASSUME TypeOK, OutcomeInv, [Next]_vars PROVE OutcomeInv'
    OBVIOUS
  <1>0. claims \in Nat /\ \A w \in Workers : worker[w].claim \in Nat
    BY DEF TypeOK
  <1>1. CASE UNCHANGED <<worker, claims, events>>
    BY <1>1 DEF OutcomeInv, AtWork, OneOutcomePerClaim
  <1>2. CASE CreateJob \/ \E r \in Requests : MarkQueued(r)
    BY <1>1, <1>2 DEF CreateJob, MarkQueued
  <1>3. ASSUME NEW w \in Workers,
               \/ \E m \in Messages : Deliver(w, m)
               \/ RunStep(w) \/ FaultInTry(w) \/ FaultOutsideTry(w) \/ Crash(w) \/ Redeliver(w)
        PROVE  OutcomeInv'
    <2>1. \A v \in Workers : v # w => worker'[v] = worker[v]
      BY <1>3, OneWorkerMoves
    <2>2. CASE Claims(w)
      <3>1. /\ claims' = claims + 1 /\ events' = events
            /\ worker'[w].claim = claims + 1
        BY <2>2 DEF Claims
      <3>2. \A v \in Workers : AtWork(v)' /\ v # w => AtWork(v) /\ worker'[v] = worker[v]
        BY <2>1 DEF AtWork
      <3>3. \A o \in Outcomes : <<claims + 1, o>> \notin events
        BY <1>0 DEF OutcomeInv
      <3>4. OneOutcomePerClaim'
        BY <1>0, <3>1, <3>3 DEF OutcomeInv, OneOutcomePerClaim, Outcomes
      <3>. QED
        BY <1>0, <3>1, <3>2, <3>3, <3>4 DEF OutcomeInv
    \* Otherwise claims are as before, and only w adds events, to its own claim.
    <2>3. ASSUME claims' = claims, worker'[w].pc \notin {"idle", "claim"} =>
                                     AtWork(w) /\ worker'[w].claim = worker[w].claim,
                 AtWork(w) \/ events' = events,
                 \A e \in events' \ events : e[1] = worker[w].claim,
                 AtWork(w)' => \A e \in events' \ events : e[2] \notin Outcomes,
                 \A e, f \in events' \ events : {e[2], f[2]} # Outcomes
          PROVE  OutcomeInv'
      <3>1. \A v \in Workers : AtWork(v)' => AtWork(v) /\ worker'[v].claim = worker[v].claim
        BY <2>1, <2>3 DEF AtWork
      <3>2. \A e \in events' : e[1] \in 1..claims
        BY <2>3 DEF OutcomeInv
      <3>3. \A v \in Workers : AtWork(v)' => \A o \in Outcomes : <<worker[v].claim, o>> \notin events'
        <4> SUFFICES ASSUME NEW v \in Workers, AtWork(v)', NEW o \in Outcomes,
                            <<worker[v].claim, o>> \in events'
                     PROVE  FALSE
          OBVIOUS
        <4>1. AtWork(v) /\ <<worker[v].claim, o>> \in events' \ events
          BY <3>1 DEF OutcomeInv
        <4>2. worker[v].claim = worker[w].claim /\ AtWork(w)
          BY <2>3, <4>1
        <4>3. v = w
          BY <4>1, <4>2 DEF OutcomeInv
        <4>. QED
          BY <2>3, <4>1, <4>3
      <3>4. OneOutcomePerClaim'
        <4> SUFFICES ASSUME NEW c \in 1..claims,
                            <<c, "SUCCEEDED">> \in events', <<c, "FAILED">> \in events'
                     PROVE  FALSE
          BY <2>3 DEF OneOutcomePerClaim
        <4>1. CASE <<c, "SUCCEEDED">> \in events /\ <<c, "FAILED">> \in events
          BY <4>1 DEF OutcomeInv, OneOutcomePerClaim
        <4>2. CASE c = worker[w].claim /\ AtWork(w)
          <5>1. <<c, "SUCCEEDED">> \in events' \ events /\ <<c, "FAILED">> \in events' \ events
            BY <4>2 DEF OutcomeInv, Outcomes
          <5>. QED
            BY <2>3, <5>1 DEF Outcomes
        <4>. QED
          BY <2>3, <4>1, <4>2
      <3>. QED
        BY <2>3, <3>1, <3>2, <3>3, <3>4 DEF OutcomeInv
    <2>4. CASE WithoutJob(w)
      BY <2>3, <2>4 DEF WithoutJob
    <2>5. CASE Continues(w)
      BY <2>3, <2>5 DEF Continues, Holds, Outcomes
    <2>6. ASSUME NEW from \in HoldingPcs, NEW to, NEW status, Writes(w, from, to, status)
          PROVE  OutcomeInv'
      BY <2>3, <2>6 DEF Writes, AtWork, HoldingPcs
    <2>7. ASSUME NEW from \in {"completed", "failed"}, NEW o \in Outcomes, Reports(w, from, o)
          PROVE  OutcomeInv'
      <3>1. \A e, f \in events' \ events : {e[2], f[2]} # Outcomes
        BY <2>7 DEF Reports, Outcomes
      <3>. QED
        BY <2>3, <2>7, <3>1 DEF Reports, AtWork
    <2>8. CASE UNCHANGED <<row, worker, events, claims>>
      BY <1>1, <2>8
    <2>9. CASE RunStep(w)
      BY <2>2, <2>4, <2>5, <2>6, <2>7, <2>9, RunStepForms DEF HoldingPcs, Outcomes
    <2>. QED
      BY <1>3, <2>4, <2>5, <2>8, <2>9, OtherStepForms
  <1>. QED
    BY <1>1, <1>2, <1>3, StepForms

\* No execution reports both that the job succeeded and that it failed.
THEOREM ExecutionsHaveOneOutcome == Spec => []OneOutcomePerClaim
  <1>1. Init => OutcomeInv
    BY DEF Init, OutcomeInv, AtWork, OneOutcomePerClaim, IdleWorker
  <1>2. OutcomeInv => OneOutcomePerClaim
    BY DEF OutcomeInv
  <1>. QED
    BY <1>1, <1>2, NextOutcome, TypeCorrect, PTL DEF Spec

-----------------------------------------------------------------------------
(* Under a disciplined client the last outcome reported is the row's.      *)

\* Who holds the job holds it by the last claim, and a worker that has still
\* to report its outcome for that claim finds it in the row.
TruthInv ==
    /\ EventsTellTheTruth
    /\ \A w \in Workers : Holds(w) => worker[w].claim = claims
    /\ \A w \in Workers : worker[w].pc = "completed" => row.status = "SUCCEEDED"
    /\ \A w \in Workers : worker[w].pc = "failed" /\ worker[w].claim = claims
                            => row.status \in {"FAILED", "QUEUED"}

\* Every step of a disciplined client's system keeps TruthInv.
LEMMA NextTruth ==
    ASSUME TypeOK, ExclInv, OutcomeInv, TruthInv, [Next]_vars
    PROVE  TruthInv'
  <1>0. claims \in Nat /\ \A w \in Workers : worker[w].claim \in Nat
    BY DEF TypeOK
  <1>1. CASE UNCHANGED <<row, worker, claims, events>>
    BY <1>1 DEF TruthInv, EventsTellTheTruth, Holds
  <1>2. CASE CreateJob
    BY <1>2 DEF CreateJob, TruthInv, EventsTellTheTruth, Holds
  <1>3. ASSUME NEW r \in Requests, MarkQueued(r) PROVE TruthInv'
    <2>1. row'.status = "QUEUED" /\ row.status \notin NotExecutable /\ UNCHANGED <<worker, claims, events>>
      BY <1>3, SavesStatus DEF MarkQueued, ExclInv
    <2>. QED
      BY <2>1 DEF TruthInv, EventsTellTheTruth, Holds, NotExecutable
  <1>4. ASSUME NEW w \in Workers,
               \/ \E m \in Messages : Deliver(w, m)
               \/ RunStep(w) \/ FaultInTry(w) \/ FaultOutsideTry(w) \/ Crash(w) \/ Redeliver(w)
        PROVE  TruthInv'
    <2>1. \A v \in Workers : v # w => worker'[v] = worker[v]
      BY <1>4, OneWorkerMoves
    <2>2. CASE WithoutJob(w)
      BY <2>1, <2>2 DEF WithoutJob, TruthInv, EventsTellTheTruth, Holds, HoldingPcs
    <2>3. CASE Continues(w) /\ (worker'[w].pc = "completed" => worker[w].pc = "completed")
      <3>1. \A v \in Workers : Holds(v)' => worker'[v].claim = claims
        BY <2>1, <2>3 DEF Continues, TruthInv, Holds, HoldingPcs
      <3>2. worker'[w].pc # "failed"
        BY <2>3 DEF Continues, Holds, HoldingPcs
      <3>3. EventsTellTheTruth'
        BY <2>3 DEF Continues, TruthInv, EventsTellTheTruth
      <3>. QED
        BY <2>1, <2>3, <3>1, <3>2, <3>3 DEF Continues, TruthInv
    \* The claim is new, and nothing has been reported for it.
    <2>4. CASE Claims(w)
      <3>1. \A v \in Workers : v # w => ~Holds(v)
        BY <2>4 DEF Claims, ExclInv, Runnable
      <3>2. \A o \in Outcomes : <<claims + 1, o>> \notin events
        BY <1>0 DEF OutcomeInv
      <3>3. EventsTellTheTruth'
        BY <2>4, <3>2 DEF Claims, EventsTellTheTruth, Outcomes
      <3>4. \A v \in Workers : v # w => /\ ~Holds(v)'
                                        /\ worker'[v].pc = "failed" => worker'[v].claim # claims'
        BY <1>0, <2>1, <2>4, <3>1 DEF Claims, OutcomeInv, AtWork, Holds
      <3>. QED
        BY <2>4, <3>3, <3>4 DEF Claims, TruthInv, Holds, HoldingPcs
    \* Whoever writes the row has the last claim, alone and not reported yet.
    <2>5. ASSUME NEW from \in {"start", "complete", "fail"}, NEW to, NEW status,
                 Writes(w, from, to, status),
                 to = "completed" => status = "SUCCEEDED", to = "failed" => status = "FAILED"
          PROVE  TruthInv'
      <3>1. Holds(w) /\ AtWork(w) /\ worker[w].claim = claims
        BY <2>5 DEF Writes, Holds, HoldingPcs, TruthInv, AtWork
      <3>4. row'.status = status
        BY <2>5 DEF Writes, ExclInv
      <3>2. EventsTellTheTruth'
        BY <2>5, <3>1 DEF Writes, OutcomeInv, Outcomes, EventsTellTheTruth
      <3>3. \A v \in Workers : v # w => /\ ~Holds(v)'
                                        /\ worker'[v].pc = "failed" => worker'[v].claim # claims
        BY <2>1, <3>1 DEF ExclInv, MutualExclusion, OutcomeInv, AtWork, Holds
      <3>. QED
        BY <2>5, <3>1, <3>2, <3>3, <3>4 DEF Writes, TruthInv, Holds, HoldingPcs
    <2>6. ASSUME NEW from \in {"completed", "failed"}, NEW o \in Outcomes, Reports(w, from, o),
                 from = "completed" <=> o = "SUCCEEDED"
          PROVE  TruthInv'
      <3>1. EventsTellTheTruth'
        BY <2>6 DEF Reports, TruthInv, EventsTellTheTruth, Outcomes
      <3>. QED
        BY <2>1, <2>6, <3>1 DEF Reports, TruthInv, Holds, HoldingPcs
    <2>7. CASE UNCHANGED <<row, worker, events, claims>>
      BY <1>1, <2>7
    <2>8. CASE RunStep(w)
      BY <2>2, <2>3, <2>4, <2>5, <2>6, <2>8, RunStepForms DEF Outcomes
    <2>. QED
      BY <1>4, <2>2, <2>3, <2>7, <2>8, OtherStepForms
  <1>. QED
    BY <1>1, <1>2, <1>3, <1>4, StepForms

\* With clients that execute one call at a time, the final event of the last
\* claim agrees with the row until the job is queued again.
THEOREM ClientsSeeTrueEvents ==
    ASSUME DisciplinedClient PROVE Spec => []EventsTellTheTruth
  <1>1. Init => OutcomeInv /\ TruthInv
    BY DEF Init, OutcomeInv, AtWork, OneOutcomePerClaim, IdleWorker, TruthInv,
           EventsTellTheTruth, Holds, HoldingPcs
  <1>2. TypeOK /\ OutcomeInv /\ [Next]_vars => OutcomeInv'
    BY NextOutcome
  <1>3. TypeOK /\ ExclInv /\ OutcomeInv /\ TruthInv /\ [Next]_vars => TruthInv'
    BY NextTruth
  <1>4. TruthInv => EventsTellTheTruth
    BY DEF TruthInv
  <1>. QED
    BY <1>1, <1>2, <1>3, <1>4, ExclReachable, TypeCorrect, PTL DEF Spec
=============================================================================
