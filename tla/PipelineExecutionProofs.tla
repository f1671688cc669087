----------------------- MODULE PipelineExecutionProofs -----------------------
(***************************************************************************)
(* Type correctness of PipelineExecution, for any pipeline, any requests   *)
(* and runners, and any bounds on failures; then what holds for any        *)
(* client, however many runners are at work on a run, mixing the columns   *)
(* of its rows: that no run is orphaned but by a failure, and that jobs    *)
(* are given the results of jobs that SUCCEEDED.  A job has one runner,    *)
(* its creator; a runner reads a job only while it holds it; and a job     *)
(* that SUCCEEDED is never written again.  With one message per run, and   *)
(* so one runner, what a save's SELECT sees is still there at its UPDATE,  *)
(* and rows are written whole: the second part proves that task rows and   *)
(* jobs agree, the order of the tasks, the gates and the refinement of the *)
(* abstract pipeline.                                                      *)
(***************************************************************************)
EXTENDS PipelineExecution, SequenceTheorems, FiniteSetTheorems, TLAPS

-----------------------------------------------------------------------------
(* The initial data and the operators on rows stay within the types. *)

RequestType == [pc : RequestPcs, copy : RunRow, seen : RunRow \cup {Unread}]
RunnerType == [pc : RunnerPcs, msg : Messages \cup {<<>>}, cur : Tasks, run : RunRow,
               task : TaskRow, inputs : [Tasks -> Nat],
               final : {"SUCCEEDED", "BLOCKED", "FAILED"}, snapshot : [Tasks -> Result],
               seenRun : RunRow \cup {Unread}, seenTask : TaskRow \cup {Unread}]

\* Rows that name one of the first n jobs or none, and slots that hold such rows.
Rows(n) == [status : TaskStatus, job : 0..n, result : Result]
Slots(n) == [pc : RunnerPcs, msg : Messages \cup {<<>>}, cur : Tasks, run : RunRow,
             task : Rows(n), inputs : [Tasks -> Nat],
             final : {"SUCCEEDED", "BLOCKED", "FAILED"}, snapshot : [Tasks -> Result],
             seenRun : RunRow \cup {Unread}, seenTask : Rows(n) \cup {Unread}]

\* Such rows and slots are typed, and remain such when jobs are added.
LEMMA MoreJobs ==
    ASSUME NEW n \in Nat, NEW k \in Nat, n <= k
    PROVE  /\ Rows(n) \subseteq TaskRow /\ Slots(n) \subseteq RunnerType
           /\ Rows(n) \subseteq Rows(k) /\ Slots(n) \subseteq Slots(k)
  <1>1. 0..n \subseteq Nat /\ 0..n \subseteq 0..k
    OBVIOUS
  <1>2. Rows(n) \subseteq TaskRow /\ Rows(n) \subseteq Rows(k)
    BY <1>1 DEF Rows, TaskRow
  <1>3. Slots(n) \subseteq RunnerType
    BY <1>2 DEF Slots, RunnerType
  <1>4. Slots(n) \subseteq Slots(k)
    BY <1>2 DEF Slots
  <1>. QED
    BY <1>2, <1>3, <1>4

\* New rows and results, and what a skipped task gets, are typed.
LEMMA NewDataType ==
    /\ NoResult \in Result /\ SkippedResult \in Result
    /\ NewRun \in RunRow /\ NewTask \in TaskRow
    /\ NoInputs \in [Tasks -> Nat]
    /\ \A n \in Nat : NewTask \in Rows(n)
  <1>1. NoResult \in Result /\ SkippedResult \in Result
    BY DEF NoResult, SkippedResult, Result
  <1>2. NewRun \in RunRow
    BY <1>1 DEF NewRun, RunRow, RunStatus
  <1>3. NewTask \in TaskRow
    BY <1>1 DEF NewTask, TaskRow, TaskStatus
  <1>4. \A n \in Nat : NewTask \in Rows(n)
    BY <1>1 DEF NewTask, Rows, TaskStatus
  <1>. QED
    BY <1>1, <1>2, <1>3, <1>4 DEF NoInputs

\* No row of a run or of a task looks like the mark of a SELECT still to come.
LEMMA UnreadIsNoRow == Unread \notin RunRow /\ Unread \notin TaskRow
  BY DEF Unread, RunRow, TaskRow, RunStatus, TaskStatus

\* The idle slot is typed.
LEMMA IdleRunnerType == IdleRunner \in RunnerType /\ \A n \in Nat : IdleRunner \in Slots(n)
  <1>1. 1 \in Tasks
    BY PipelineAssumption DEF Tasks
  <1>2. NewRun.result \in [Tasks -> Result]
    BY NewDataType DEF NewRun
  <1>3. IdleRunner \in RunnerType
    BY <1>1, <1>2, NewDataType DEF IdleRunner, RunnerType, RunnerPcs
  <1>4. ASSUME NEW n \in Nat PROVE IdleRunner \in Slots(n)
    BY <1>1, <1>2, NewDataType DEF IdleRunner, Slots, RunnerPcs
  <1>. QED
    BY <1>3, <1>4

\* A slot whose run is over, or whose task is, is typed, and keeps the rest.
LEMMA OverType ==
    ASSUME NEW rn \in RunnerType, NEW pc \in RunnerPcs
    PROVE  Over(rn, pc) \in RunnerType /\ Over(rn, pc).pc = pc
  BY IdleRunnerType DEF Over, RunnerType

LEMMA TaskOverType ==
    ASSUME NEW rn \in RunnerType, NEW pc \in RunnerPcs
    PROVE  TaskOver(rn, pc) \in RunnerType /\ TaskOver(rn, pc).pc = pc
  BY NewDataType DEF TaskOver, RunnerType

\* The next turn of the loop is at a task, or at the end of the run.
LEMMA NextTurnType ==
    ASSUME NEW rn \in RunnerType
    PROVE  NextTurn(rn) \in RunnerType /\ NextTurn(rn).pc \in {"task", "list"}
  <1>1. /\ TaskOver(rn, "list") \in RunnerType /\ TaskOver(rn, "task") \in RunnerType
        /\ TaskOver(rn, "list").pc = "list" /\ TaskOver(rn, "task").pc = "task"
        /\ TaskOver(rn, "task").cur = rn.cur
    BY TaskOverType DEF RunnerPcs, ActivePcs, TaskOver, RunnerType
  <1>2. rn.cur \in Tasks
    BY DEF RunnerType
  <1>3. rn.cur # NumTasks => rn.cur + 1 \in Tasks
    BY <1>2, PipelineAssumption DEF Tasks
  <1>4. CASE rn.cur = NumTasks
    <2>1. NextTurn(rn) = [TaskOver(rn, "list") EXCEPT !.final = "SUCCEEDED"]
      BY <1>4 DEF NextTurn
    <2>. QED
      BY <1>1, <2>1 DEF RunnerType
  <1>5. CASE rn.cur # NumTasks
    <2>1. NextTurn(rn) = [TaskOver(rn, "task") EXCEPT !.cur = rn.cur + 1]
      BY <1>1, <1>5 DEF NextTurn
    <2>. QED
      BY <1>1, <1>3, <1>5, <2>1 DEF RunnerType
  <1>. QED
    BY <1>4, <1>5

\* Those slots name the jobs that the slot they come from names.
LEMMA OverSlots ==
    ASSUME NEW n \in Nat, NEW rn \in Slots(n), NEW pc \in RunnerPcs
    PROVE  Over(rn, pc) \in Slots(n) /\ TaskOver(rn, pc) \in Slots(n) /\ NextTurn(rn) \in Slots(n)
  <1>1. Over(rn, pc) \in Slots(n)
    BY IdleRunnerType DEF Over, Slots
  <1>2. ASSUME NEW q \in RunnerPcs
        PROVE  TaskOver(rn, q) \in Slots(n) /\ TaskOver(rn, q).cur = rn.cur
    BY NewDataType DEF TaskOver, Slots
  <1>3. TaskOver(rn, "list") \in Slots(n) /\ TaskOver(rn, "task") \in Slots(n)
    BY <1>2 DEF RunnerPcs, ActivePcs
  <1>4. rn.cur \in Tasks
    BY DEF Slots
  <1>5. TaskOver(rn, "task").cur = rn.cur
    BY <1>2 DEF RunnerPcs, ActivePcs
  <1>6. rn.cur # NumTasks => rn.cur + 1 \in Tasks
    BY <1>4, PipelineAssumption DEF Tasks
  <1>7. CASE rn.cur = NumTasks
    <2>1. NextTurn(rn) = [TaskOver(rn, "list") EXCEPT !.final = "SUCCEEDED"]
      BY <1>7 DEF NextTurn
    <2>2. NextTurn(rn) \in Slots(n)
      BY <1>3, <2>1 DEF Slots
    <2>. QED
      BY <1>1, <1>2, <2>2
  <1>8. CASE rn.cur # NumTasks
    <2>1. NextTurn(rn) = [TaskOver(rn, "task") EXCEPT !.cur = rn.cur + 1]
      BY <1>5, <1>8 DEF NextTurn
    <2>2. NextTurn(rn) \in Slots(n)
      BY <1>3, <1>6, <1>8, <2>1 DEF Slots
    <2>. QED
      BY <1>1, <1>2, <2>2
  <1>. QED
    BY <1>7, <1>8

\* A save of the run writes its own status over the one it saw, or leaves it.
LEMMA SavedRunType ==
    ASSUME run \in RunRow, NEW new \in RunRow, NEW seen \in RunRow,
           NEW row \in SavedRun(new, seen)
    PROVE  /\ row \in RunRow /\ row.status \in {new.status, run.status}
           /\ new.status # seen.status => row.status = new.status
  <1>1. /\ Column(new.status, seen.status, run.status) \in {new.status, run.status}
        /\ new.status # seen.status => Column(new.status, seen.status, run.status) = new.status
        /\ Column(new.result, seen.result, run.result) \in {new.result, run.result}
    BY DEF Column
  <1>2. /\ row.status = Column(new.status, seen.status, run.status)
        /\ row.result \in {new.result, run.result}
        /\ row = [status |-> row.status, result |-> row.result]
    BY <1>1 DEF SavedRun
  <1>. QED
    BY <1>1, <1>2 DEF RunRow

\* A save of a task row leaves, column by column, the row saved or the one there.
LEMMA SavedTaskType ==
    ASSUME NEW n \in Nat, NEW new \in Rows(n), NEW seen, NEW now \in Rows(n)
    PROVE  /\ SavedTask(new, seen, now) \in Rows(n)
           /\ SavedTask(new, seen, now).result \in {new.result, now.result}
           /\ new.job # seen.job => SavedTask(new, seen, now).job = new.job
  <1>1. /\ Column(new.status, seen.status, now.status) \in {new.status, now.status}
        /\ Column(new.job, seen.job, now.job) \in {new.job, now.job}
        /\ new.job # seen.job => Column(new.job, seen.job, now.job) = new.job
        /\ Column(new.result, seen.result, now.result) \in {new.result, now.result}
    BY DEF Column
  <1>. QED
    BY <1>1 DEF SavedTask, Rows

\* A job that changes status or verdict leaves a sequence of as many jobs.
LEMMA JobUpdate ==
    ASSUME jobs \in Seq(Job), NEW i \in DOMAIN jobs, NEW j \in Job
    PROVE  /\ [jobs EXCEPT ![i] = j] \in Seq(Job)
           /\ DOMAIN [jobs EXCEPT ![i] = j] = DOMAIN jobs
           /\ Len([jobs EXCEPT ![i] = j]) = Len(jobs)
  <1>1. i \in 1..Len(jobs)
    OBVIOUS
  <1>. QED
    BY <1>1, ExceptSeq

\* Recording a result keeps the type of the row, and the job it names.
LEMMA RecordedRowType ==
    ASSUME TypeOK, NEW n \in Nat, NEW row \in Rows(n), row.job \in DOMAIN jobs
    PROVE  RecordedRow(row) \in Rows(n)
  <1>1. jobs[row.job] \in Job /\ row.job \in Nat
    BY DEF TypeOK, Rows
  <1>2. [job |-> row.job, verdict |-> jobs[row.job].verdict] \in Result
    BY <1>1 DEF Job, Result
  <1>. QED
    BY <1>2 DEF RecordedRow, Rows, TaskStatus

-----------------------------------------------------------------------------
(* TypeOK alone is not inductive: a runner that claims, executes or        *)
(* records a job reads the job its row names, which must exist; and it     *)
(* does because the id of a new job is none that its save can have seen.   *)

JobPcs == {"claim", "job", "record"}
JobHeld == \A w \in Runners : runner[w].pc \in JobPcs => runner[w].task.job \in DOMAIN jobs
JobIds == tasks \in [Tasks -> Rows(Len(jobs))] /\ runner \in [Runners -> Slots(Len(jobs))]

TypeInv == TypeOK /\ JobHeld /\ JobIds

\* One more copy of any message keeps the broker's counts typed.
LEMMA PipelineQueueUpdate ==
    ASSUME queue \in [Messages -> Nat], NEW m, queue' = [queue EXCEPT ![m] = @ + 1]
    PROVE  queue' \in [Messages -> Nat]
  <1>1. CASE m \in Messages
    BY <1>1
  <1>2. CASE m \notin Messages
    BY <1>2
  <1>. QED
    BY <1>1, <1>2

\* The facts about w's slot that every step starts from.
LEMMA SlotType ==
    ASSUME TypeInv, NEW w \in Runners
    PROVE  /\ runner[w] \in RunnerType
           /\ runner[w].task \in TaskRow /\ Cur(w) \in Tasks
           /\ runner \in [Runners -> RunnerType]
           /\ run \in RunRow /\ tasks \in [Tasks -> TaskRow] /\ jobs \in Seq(Job)
           /\ faults \in Nat
  BY DEF TypeInv, TypeOK, RunnerType, Cur

\* What more is known of the ids in it and in the task rows.
LEMMA SlotIds ==
    ASSUME TypeInv, NEW w \in Runners
    PROVE  /\ Len(jobs) \in Nat /\ DOMAIN jobs = 1..Len(jobs)
           /\ runner[w] \in Slots(Len(jobs)) /\ runner \in [Runners -> Slots(Len(jobs))]
           /\ runner[w].task \in Rows(Len(jobs))
           /\ runner[w].seenTask \in Rows(Len(jobs)) \cup {Unread}
           /\ tasks \in [Tasks -> Rows(Len(jobs))] /\ tasks[Cur(w)] \in Rows(Len(jobs))
           /\ TypeOK
  <1>1. jobs \in Seq(Job) /\ Cur(w) \in Tasks
    BY SlotType
  <1>2. Len(jobs) \in Nat /\ DOMAIN jobs = 1..Len(jobs)
    BY <1>1
  <1>3. /\ tasks \in [Tasks -> Rows(Len(jobs))] /\ runner \in [Runners -> Slots(Len(jobs))]
        /\ TypeOK
    BY DEF TypeInv, JobIds
  <1>. DEFINE n == Len(jobs)
  <1>4. n \in Nat /\ tasks \in [Tasks -> Rows(n)] /\ runner \in [Runners -> Slots(n)]
    BY <1>2, <1>3
  <1>5. runner[w] \in Slots(n) /\ tasks[Cur(w)] \in Rows(n)
    BY <1>1, <1>4
  <1>6. runner[w].task \in Rows(n) /\ runner[w].seenTask \in Rows(n) \cup {Unread}
    BY <1>5 DEF Slots
  <1>. QED
    BY <1>2, <1>3, <1>5, <1>6

\* A slot that changes to one that names an existing job if it is at work on one.
LEMMA RunnerUpdate ==
    ASSUME TypeInv, NEW w \in Runners, jobs' \in Seq(Job), Len(jobs) <= Len(jobs'),
           NEW rn \in Slots(Len(jobs')), runner' = [runner EXCEPT ![w] = rn],
           rn.pc \in JobPcs => rn.task.job \in DOMAIN jobs'
    PROVE  /\ runner' \in [Runners -> Slots(Len(jobs'))] /\ runner' \in [Runners -> RunnerType]
           /\ JobHeld'
  <1>. DEFINE n == Len(jobs)
              k == Len(jobs')
  <1>1. n \in Nat /\ k \in Nat /\ n <= k /\ DOMAIN jobs = 1..n /\ DOMAIN jobs' = 1..k
    BY SlotIds
  <1>2. runner \in [Runners -> Slots(n)] /\ rn \in Slots(k)
    BY SlotIds
  <1>3. DOMAIN jobs \subseteq DOMAIN jobs'
    BY <1>1
  <1>. HIDE DEF n, k
  <1>4. Slots(n) \subseteq Slots(k) /\ Slots(k) \subseteq RunnerType
    BY <1>1, MoreJobs
  <1>5. runner' \in [Runners -> Slots(k)]
    BY <1>2, <1>4
  <1>6. runner' \in [Runners -> RunnerType]
    BY <1>4, <1>5
  <1>7. ASSUME NEW v \in Runners, runner'[v].pc \in JobPcs
        PROVE  runner'[v].task.job \in DOMAIN jobs'
    <2>1. CASE v = w
      BY <1>2, <1>7, <2>1
    <2>2. CASE v # w
      <3>1. runner'[v] = runner[v]
        BY <1>2, <2>2
      <3>2. runner[v].task.job \in DOMAIN jobs
        BY <1>7, <3>1 DEF TypeInv, JobHeld
      <3>. QED
        BY <1>3, <3>1, <3>2
    <2>. QED
      BY <2>1, <2>2
  <1>. QED
    BY <1>5, <1>6, <1>7 DEF JobHeld, k

\* Initially every variable has its type.
LEMMA PipelineInitType == Init => TypeInv
  <1> SUFFICES ASSUME Init PROVE TypeInv
    OBVIOUS
  <1>1. jobs \in Seq(Job) /\ Len(jobs) \in Nat
    BY DEF Init
  <1>2. runner \in [Runners -> RunnerType] /\ runner \in [Runners -> Slots(Len(jobs))]
    BY <1>1, IdleRunnerType DEF Init
  <1>3. JobHeld
    BY DEF Init, JobHeld, IdleRunner, JobPcs
  <1>4. tasks \in [Tasks -> Rows(Len(jobs))]
    BY <1>1, NewDataType DEF Init
  <1>. QED
    BY <1>1, <1>2, <1>3, <1>4, NewDataType
    DEF Init, TypeInv, TypeOK, JobIds, RunnerType, RequestPcs

\* The steps of the API and of the broker keep the types.
LEMMA ApiType ==
    ASSUME TypeInv, NEW r \in Requests,
           \/ ValidateExecutable(r) \/ ReadForQueued(r) \/ MarkQueued(r) \/ SendTask(r)
           \/ RecordExecution(r) \/ RequestFault(r)
    PROVE  TypeInv'
  <1>0. /\ request \in [Requests -> RequestType] /\ request[r] \in RequestType
        /\ queue \in [Messages -> Nat]
        /\ run \in RunRow /\ records \subseteq Requests /\ faults \in Nat
    BY DEF TypeInv, TypeOK, RequestType
  <1>1. request' \in [Requests -> RequestType]
    <2>1. PICK rq \in RequestType : request' = [request EXCEPT ![r] = rq]
      <3>1. CASE ValidateExecutable(r)
        <4>1. [request[r] EXCEPT !.pc = "refused"] \in RequestType
          BY <1>0 DEF RequestType, RequestPcs
        <4>2. [pc |-> "validated", copy |-> run, seen |-> Unread] \in RequestType
          BY <1>0 DEF RequestType, RequestPcs
        <4>. QED
          BY <3>1, <4>1, <4>2 DEF ValidateExecutable
      <3>2. CASE ReadForQueued(r)
        <4>1. [request[r] EXCEPT !.seen = run] \in RequestType
          BY <1>0 DEF RequestType
        <4>. QED
          BY <3>2, <4>1 DEF ReadForQueued
      <3>3. CASE MarkQueued(r) \/ RequestFault(r)
        <4>1. ASSUME NEW pc \in RequestPcs
              PROVE  [pc |-> pc, copy |-> NewRun, seen |-> Unread] \in RequestType
          BY NewDataType DEF RequestType
        <4>. QED
          BY <3>3, <4>1 DEF MarkQueued, RequestFault, RequestPcs
      <3>4. CASE SendTask(r) \/ RecordExecution(r)
        <4>1. ASSUME NEW pc \in RequestPcs PROVE [request[r] EXCEPT !.pc = pc] \in RequestType
          BY <1>0 DEF RequestType
        <4>. QED
          BY <3>4, <4>1 DEF SendTask, RecordExecution, RequestPcs
      <3>. QED
        BY <3>1, <3>2, <3>3, <3>4
    <2>. QED
      BY <1>0, <2>1
  <1>2. run' \in RunRow
    <2>1. CASE MarkQueued(r)
      <3>. DEFINE new == [request[r].copy EXCEPT !.status = "QUEUED"]
      <3>1. new \in RunRow /\ request[r].seen \in RunRow
        BY <1>0, <2>1 DEF MarkQueued, RequestType, RunRow, RunStatus
      <3>2. run' \in SavedRun(new, request[r].seen)
        BY <2>1 DEF MarkQueued
      <3>. HIDE DEF new
      <3>. QED
        BY <1>0, <3>1, <3>2, SavedRunType
    <2>2. CASE ~MarkQueued(r)
      BY <1>0, <2>2 DEF ValidateExecutable, ReadForQueued, SendTask, RecordExecution, RequestFault
    <2>. QED
      BY <2>1, <2>2
  <1>3. queue' \in [Messages -> Nat]
    BY <1>0, PipelineQueueUpdate
    DEF ValidateExecutable, ReadForQueued, MarkQueued, SendTask, RecordExecution, RequestFault
  <1>4. records' \subseteq Requests /\ faults' \in Nat
    BY <1>0
    DEF ValidateExecutable, ReadForQueued, MarkQueued, SendTask, RecordExecution, RequestFault
  <1>5. UNCHANGED <<tasks, jobs, runner, crashes, redeliveries>>
    BY DEF ValidateExecutable, ReadForQueued, MarkQueued, SendTask, RecordExecution, RequestFault
  <1>6. JobHeld' /\ JobIds'
    BY <1>5 DEF TypeInv, JobHeld, JobIds
  <1>. QED
    BY <1>1, <1>2, <1>3, <1>4, <1>5, <1>6 DEF TypeInv, TypeOK, RequestType

\* The broker's steps keep the types.
LEMMA BrokerType ==
    ASSUME TypeInv, NEW w \in Runners,
           \/ \E m \in Messages : Deliver(w, m)
           \/ RaiseTask(w) \/ ReturnTask(w) \/ Crash(w) \/ Redeliver(w)
    PROVE  TypeInv'
  <1>0. /\ queue \in [Messages -> Nat] /\ crashes \in Nat /\ redeliveries \in Nat
    BY DEF TypeInv, TypeOK, RunnerType
  <1>. DEFINE Kept == runner' \in [Runners -> Slots(Len(jobs))] /\ runner' \in [Runners -> RunnerType]
                      /\ JobHeld'
  <1>u. UNCHANGED <<run, tasks, jobs, request, records, faults>>
    BY DEF Deliver, RaiseTask, ReturnTask, Crash, Redeliver
  <1>r. ASSUME NEW rn \in Slots(Len(jobs)), rn.pc \notin JobPcs,
               runner' = [runner EXCEPT ![w] = rn]
        PROVE  Kept
    <2>1. jobs' = jobs /\ jobs' \in Seq(Job) /\ Len(jobs) <= Len(jobs')
      BY <1>u, SlotType, SlotIds
    <2>. QED
      BY <1>r, <2>1, RunnerUpdate
  <1>1. ASSUME NEW m \in Messages, Deliver(w, m)
        PROVE  Kept /\ queue' \in [Messages -> Nat]
    <2>. DEFINE rn == [IdleRunner EXCEPT !.pc = "load", !.msg = m]
    <2>0. IdleRunner \in Slots(Len(jobs))
      BY SlotIds, IdleRunnerType
    <2>1. rn \in Slots(Len(jobs)) /\ rn.pc \notin JobPcs
      BY <2>0 DEF Slots, RunnerPcs, JobPcs
    <2>2. runner' = [runner EXCEPT ![w] = rn]
      BY <1>1 DEF Deliver
    <2>. HIDE DEF rn
    <2>3. Kept
      BY <1>r, <2>1, <2>2
    <2>4. queue[m] - 1 \in Nat
      <3>1. queue[m] \in Nat
        BY <1>0
      <3>2. queue[m] > 0
        BY <1>1 DEF Deliver
      <3>. QED
        BY <3>1, <3>2
    <2>5. queue' = [queue EXCEPT ![m] = queue[m] - 1]
      BY <1>1 DEF Deliver
    <2>6. queue' \in [Messages -> Nat]
      BY <1>0, <2>4, <2>5
    <2>. QED
      BY <2>3, <2>6
  <1>2. IdleRunner \in Slots(Len(jobs)) /\ IdleRunner.pc \notin JobPcs
    BY SlotIds, IdleRunnerType DEF IdleRunner, JobPcs
  <1>3. ASSUME runner' = [runner EXCEPT ![w] = IdleRunner]
        PROVE  Kept
    BY <1>2, <1>3, <1>r
  <1>4. ASSUME RaiseTask(w)
        PROVE  Kept /\ queue' \in [Messages -> Nat]
    <2>1. queue' \in [Messages -> Nat]
      <3>1. CASE UNCHANGED queue
        BY <1>0, <3>1
      <3>2. CASE ~ UNCHANGED queue
        BY <1>0, <1>4, <3>2, PipelineQueueUpdate DEF RaiseTask
      <3>. QED
        BY <3>1, <3>2
    <2>. QED
      BY <1>3, <1>4, <2>1 DEF RaiseTask
  <1>5. ASSUME ReturnTask(w)
        PROVE  Kept /\ queue' \in [Messages -> Nat]
    BY <1>0, <1>3, <1>5 DEF ReturnTask
  <1>6. ASSUME Crash(w)
        PROVE  Kept /\ queue' \in [Messages -> Nat]
    <2>1. queue' \in [Messages -> Nat]
      BY <1>0, <1>6, PipelineQueueUpdate DEF Crash
    <2>. QED
      BY <1>3, <1>6, <2>1 DEF Crash
  <1>7. ASSUME Redeliver(w)
        PROVE  Kept /\ queue' \in [Messages -> Nat]
    <2>1. queue' \in [Messages -> Nat]
      BY <1>0, <1>7, PipelineQueueUpdate DEF Redeliver
    <2>. QED
      BY <1>7, <1>u, <2>1 DEF Redeliver, TypeInv, TypeOK, JobHeld, JobIds, RunnerType
  <1>8. Kept /\ queue' \in [Messages -> Nat]
    BY <1>1, <1>4, <1>5, <1>6, <1>7
  <1>10. crashes' \in Nat /\ redeliveries' \in Nat
    <2>1. crashes' \in {crashes, crashes + 1} /\ redeliveries' \in {redeliveries, redeliveries + 1}
      BY DEF Deliver, RaiseTask, ReturnTask, Crash, Redeliver
    <2>. QED
      BY <1>0, <2>1
  <1>. QED
    BY <1>8, <1>u, <1>10 DEF TypeInv, TypeOK, JobIds, RunnerType

\* What remains to be shown of a step of a runner's own: rows and jobs keep
\* their types, and the new slot is typed and names a job that exists.
LEMMA RunnerStepType ==
    ASSUME TypeInv, NEW w \in Runners,
           jobs' \in Seq(Job), Len(jobs) <= Len(jobs'),
           NEW rn \in Slots(Len(jobs')), runner' = [runner EXCEPT ![w] = rn],
           UNCHANGED <<request, queue, records, crashes, redeliveries>>,
           faults' \in Nat, run' \in RunRow, tasks' \in [Tasks -> Rows(Len(jobs'))],
           rn.pc \in JobPcs => rn.task.job \in DOMAIN jobs'
    PROVE  TypeInv'
  <1>1. /\ runner' \in [Runners -> Slots(Len(jobs'))] /\ runner' \in [Runners -> RunnerType]
        /\ JobHeld'
    BY RunnerUpdate
  <1>. DEFINE k == Len(jobs')
  <1>2. k \in Nat /\ tasks' \in [Tasks -> Rows(k)]
    OBVIOUS
  <1>. HIDE DEF k
  <1>3. Rows(k) \subseteq TaskRow
    BY <1>2, MoreJobs
  <1>4. tasks' \in [Tasks -> TaskRow]
    BY <1>2, <1>3
  <1>. QED
    BY <1>1, <1>4 DEF TypeInv, TypeOK, JobIds, RunnerType

-----------------------------------------------------------------------------
(* The steps of a runner, by the part of the code they belong to. *)

\* A step that creates no job, and after which the slot is not to touch one.
LEMMA FreeStepType ==
    ASSUME TypeInv, NEW w \in Runners, UNCHANGED jobs,
           NEW rn \in Slots(Len(jobs)), runner' = [runner EXCEPT ![w] = rn], rn.pc \notin JobPcs,
           UNCHANGED <<request, queue, records, crashes, redeliveries>>,
           faults' \in Nat, run' \in RunRow, tasks' \in [Tasks -> Rows(Len(jobs))]
    PROVE  TypeInv'
  <1>1. /\ jobs' = jobs /\ jobs' \in Seq(Job) /\ Len(jobs) <= Len(jobs')
        /\ rn \in Slots(Len(jobs')) /\ tasks' \in [Tasks -> Rows(Len(jobs'))]
    BY SlotType, SlotIds
  <1>. QED
    BY <1>1, RunnerStepType

\* A slot that only moves to another point, away from the job, keeps its type.
LEMMA GotoType ==
    ASSUME TypeInv, NEW w \in Runners, NEW pc \in RunnerPcs, pc \notin JobPcs,
           Goto(w, pc), UNCHANGED <<tasks, request, queue, records, crashes, redeliveries>>,
           faults' \in Nat, run' \in RunRow,
           jobs' \in Seq(Job), Len(jobs') = Len(jobs)
    PROVE  TypeInv'
  <1>. DEFINE rn == [runner[w] EXCEPT !.pc = pc]
  <1>1. rn \in Slots(Len(jobs)) /\ rn.pc = pc
    BY SlotIds DEF Slots
  <1>2. runner' = [runner EXCEPT ![w] = rn]
    BY DEF Goto
  <1>. HIDE DEF rn
  <1>3. /\ rn \in Slots(Len(jobs')) /\ Len(jobs) <= Len(jobs')
        /\ tasks' \in [Tasks -> Rows(Len(jobs'))]
    BY <1>1, SlotIds
  <1>. QED
    BY <1>1, <1>2, <1>3, RunnerStepType

\* PipelineRunner.run keeps the types.
LEMMA RunType ==
    ASSUME TypeInv, NEW w \in Runners,
           \/ LoadRun(w) \/ ReadRunForSave(w) \/ StartPipeline(w) \/ ListTaskRuns(w)
           \/ FinishPipeline(w)
    PROVE  TypeInv'
  <1>0. /\ runner[w] \in RunnerType /\ runner \in [Runners -> RunnerType]
        /\ run \in RunRow /\ tasks \in [Tasks -> TaskRow] /\ jobs \in Seq(Job)
        /\ faults \in Nat
    BY SlotType
  <1>i. runner[w] \in Slots(Len(jobs)) /\ tasks \in [Tasks -> Rows(Len(jobs))]
    BY SlotIds
  <1>p. \A pc \in {"raise", "return", "start", "task", "save"} : pc \in RunnerPcs /\ pc \notin JobPcs
    BY DEF RunnerPcs, ActivePcs, JobPcs
  <1>o. ASSUME NEW pc \in {"raise", "return"}
        PROVE  Over(runner[w], pc) \in Slots(Len(jobs)) /\ Over(runner[w], pc).pc \notin JobPcs
    <2>1. pc \in RunnerPcs /\ pc \notin JobPcs
      BY <1>p
    <2>. QED
      BY <1>0, <1>i, <2>1, SlotIds, OverSlots, OverType
  <1>1. CASE LoadRun(w)
    <2>1. PICK rn \in {Over(runner[w], "raise"), [runner[w] EXCEPT !.pc = "start", !.run = run]} :
              runner' = [runner EXCEPT ![w] = rn]
      BY <1>1 DEF LoadRun
    <2>2. rn \in Slots(Len(jobs)) /\ rn.pc \notin JobPcs
      <3>1. CASE rn = Over(runner[w], "raise")
        BY <1>o, <3>1
      <3>2. CASE rn = [runner[w] EXCEPT !.pc = "start", !.run = run]
        BY <1>0, <1>i, <1>p, <3>2 DEF Slots
      <3>. QED
        BY <2>1, <3>1, <3>2
    <2>. QED
      BY <1>0, <1>i, <1>1, <2>1, <2>2, FreeStepType DEF LoadRun, Env
  <1>2. CASE ReadRunForSave(w)
    <2>. DEFINE rn == [runner[w] EXCEPT !.seenRun = run]
    <2>1. runner[w].pc \notin JobPcs
      BY <1>2 DEF ReadRunForSave, JobPcs
    <2>2. rn \in Slots(Len(jobs)) /\ rn.pc \notin JobPcs
      BY <1>0, <1>i, <2>1 DEF Slots
    <2>3. runner' = [runner EXCEPT ![w] = rn]
      BY <1>2 DEF ReadRunForSave
    <2>. HIDE DEF rn
    <2>. QED
      BY <1>0, <1>i, <1>2, <2>2, <2>3, FreeStepType DEF ReadRunForSave, Env
  <1>3. CASE StartPipeline(w)
    <2>. DEFINE rn == [runner[w] EXCEPT !.pc = "task", !.run = NewRun, !.seenRun = Unread]
                new == [runner[w].run EXCEPT !.status = "RUNNING"]
    <2>1. new \in RunRow /\ runner[w].seenRun \in RunRow
      BY <1>0, <1>3 DEF StartPipeline, RunnerType, RunRow, RunStatus
    <2>2. run' \in SavedRun(new, runner[w].seenRun)
      BY <1>3 DEF StartPipeline
    <2>3. rn \in Slots(Len(jobs)) /\ rn.pc \notin JobPcs
      BY <1>i, <1>p, NewDataType DEF Slots
    <2>4. runner' = [runner EXCEPT ![w] = rn]
      BY <1>0, <1>3 DEF StartPipeline
    <2>. HIDE DEF rn, new
    <2>5. run' \in RunRow
      BY <1>0, <2>1, <2>2, SavedRunType
    <2>. QED
      BY <1>0, <1>i, <1>3, <2>3, <2>4, <2>5, FreeStepType DEF StartPipeline, Env
  <1>4. CASE ListTaskRuns(w)
    <2>. DEFINE rn == [runner[w] EXCEPT !.pc = "save",
                                        !.snapshot = [t \in Tasks |-> tasks[t].result]]
    <2>1. [t \in Tasks |-> tasks[t].result] \in [Tasks -> Result]
      BY <1>0 DEF TaskRow
    <2>2. rn \in Slots(Len(jobs)) /\ rn.pc \notin JobPcs
      BY <1>i, <1>p, <2>1 DEF Slots
    <2>3. runner' = [runner EXCEPT ![w] = rn]
      BY <1>0, <1>4 DEF ListTaskRuns
    <2>. HIDE DEF rn
    <2>. QED
      BY <1>0, <1>i, <1>4, <2>2, <2>3, FreeStepType DEF ListTaskRuns, Env
  <1>5. CASE FinishPipeline(w)
    <2>. DEFINE new == [status |-> runner[w].final, result |-> runner[w].snapshot]
    <2>1. new \in RunRow /\ runner[w].seenRun \in RunRow
      BY <1>0, <1>5 DEF FinishPipeline, RunnerType, RunRow, RunStatus
    <2>2. run' \in SavedRun(new, runner[w].seenRun)
      BY <1>5 DEF FinishPipeline
    <2>. HIDE DEF new
    <2>3. run' \in RunRow
      BY <1>0, <2>1, <2>2, SavedRunType
    <2>4. PICK pc \in {"raise", "return"} : runner' = [runner EXCEPT ![w] = Over(runner[w], pc)]
      BY <1>5 DEF FinishPipeline
    <2>. DEFINE rn == Over(runner[w], pc)
    <2>5. rn \in Slots(Len(jobs)) /\ rn.pc \notin JobPcs
      BY <1>o
    <2>. HIDE DEF rn
    <2>. QED
      BY <1>0, <1>i, <1>5, <2>3, <2>4, <2>5, FreeStepType DEF FinishPipeline, Env, rn
  <1>. QED
    BY <1>1, <1>2, <1>3, <1>4, <1>5

\* What a save of the row at hand leaves is a row; and of the row it saves
\* the job, if the SELECT of the save cannot have seen that.
LEMMA SavedRowType ==
    ASSUME TypeInv, NEW w \in Runners, NEW k \in Nat, Len(jobs) <= k, NEW new \in Rows(k),
           runner[w].seenTask # Unread
    PROVE  /\ SavedRow(w, new) \in Rows(k)
           /\ SavedRow(w, new).result \in {new.result, tasks[Cur(w)].result}
           /\ new.job > Len(jobs) => SavedRow(w, new).job = new.job
  <1>. DEFINE n == Len(jobs)
              seen == runner[w].seenTask
              now == tasks[Cur(w)]
  <1>1. n \in Nat /\ n <= k /\ seen \in Rows(n) /\ now \in Rows(n)
    BY SlotIds
  <1>. HIDE DEF n, seen, now
  <1>2. Rows(n) \subseteq Rows(k)
    BY <1>1, MoreJobs
  <1>3. now \in Rows(k)
    BY <1>1, <1>2
  <1>4. /\ SavedTask(new, seen, now) \in Rows(k)
        /\ SavedTask(new, seen, now).result \in {new.result, now.result}
        /\ new.job # seen.job => SavedTask(new, seen, now).job = new.job
    BY <1>3, SavedTaskType
  <1>5. seen.job \in 0..n /\ new.job \in 0..k
    BY <1>1 DEF Rows
  <1>6. new.job > n => new.job # seen.job
    BY <1>1, <1>5
  <1>. QED
    BY <1>4, <1>6 DEF SavedRow, n, seen, now

\* Saving a task row keeps the types, wherever the runner goes on to.
LEMMA SaveTaskType ==
    ASSUME TypeInv, NEW w \in Runners, jobs' \in Seq(Job), Len(jobs) <= Len(jobs'),
           NEW new \in Rows(Len(jobs')), NEW pc \in RunnerPcs,
           SaveTask(w, new, pc), UNCHANGED <<run, request, queue, records, crashes, redeliveries>>,
           faults' \in Nat,
           pc \in JobPcs => new.job > Len(jobs)
    PROVE  TypeInv'
  <1>0. /\ runner[w] \in RunnerType /\ runner \in [Runners -> RunnerType]
        /\ Cur(w) \in Tasks /\ run \in RunRow /\ tasks \in [Tasks -> TaskRow]
    BY SlotType
  <1>. DEFINE k == Len(jobs')
              row == SavedRow(w, new)
              rn == [runner[w] EXCEPT !.pc = pc, !.task = row, !.seenTask = Unread]
  <1>1. k \in Nat /\ DOMAIN jobs' = 1..k
    OBVIOUS
  <1>2. row \in Rows(k) /\ (new.job > Len(jobs) => row.job = new.job)
    BY <1>1, SavedRowType DEF SaveTask
  <1>3. runner[w] \in Slots(k) /\ tasks \in [Tasks -> Rows(k)]
    <2>. DEFINE n == Len(jobs)
    <2>1. n \in Nat /\ n <= k /\ runner[w] \in Slots(n) /\ tasks \in [Tasks -> Rows(n)]
      BY SlotIds
    <2>. HIDE DEF n, k
    <2>2. Slots(n) \subseteq Slots(k) /\ Rows(n) \subseteq Rows(k)
      BY <1>1, <2>1, MoreJobs
    <2>. QED
      BY <2>1, <2>2
  <1>4. tasks' = [tasks EXCEPT ![Cur(w)] = row] /\ runner' = [runner EXCEPT ![w] = rn]
    BY <1>0 DEF SaveTask
  <1>5. pc \in JobPcs => row.job \in DOMAIN jobs'
    <2>1. new.job \in 0..k /\ Len(jobs) \in Nat
      BY SlotIds DEF Rows
    <2>2. new.job > Len(jobs) => new.job \in 1..k
      BY <1>1, <2>1
    <2>. QED
      BY <1>1, <1>2, <2>2
  <1>. HIDE DEF row
  <1>6. rn \in Slots(k) /\ rn.pc = pc /\ rn.task = row
    BY <1>2, <1>3 DEF Slots
  <1>7. tasks' \in [Tasks -> Rows(k)]
    BY <1>0, <1>2, <1>3, <1>4
  <1>. HIDE DEF rn
  <1>. QED
    BY <1>0, <1>4, <1>5, <1>6, <1>7, RunnerStepType

\* The job at hand may change its status.
LEMMA HeldJobType ==
    ASSUME jobs \in Seq(Job), NEW j \in DOMAIN jobs, NEW s \in JobStatus,
           jobs' = [jobs EXCEPT ![j].status = s]
    PROVE  jobs' \in Seq(Job) /\ DOMAIN jobs' = DOMAIN jobs /\ Len(jobs') = Len(jobs)
  <1>. DEFINE job == [jobs[j] EXCEPT !.status = s]
  <1>0. jobs[j] \in Job
    OBVIOUS
  <1>1. job \in Job
    BY <1>0 DEF Job
  <1>2. jobs' = [jobs EXCEPT ![j] = job]
    OBVIOUS
  <1>. HIDE DEF job
  <1>. QED
    BY <1>1, <1>2, JobUpdate

\* PipelineTaskRunner.run keeps the types, up to the start of the task.
LEMMA BeforeJobType ==
    ASSUME TypeInv, NEW w \in Runners,
           \/ PrepareTask(w) \/ ReadTaskForSave(w) \/ SkipTask(w) \/ ValidateDependencies(w)
           \/ ResolveInputs(w) \/ StartTask(w)
    PROVE  TypeInv'
  <1>0. /\ runner[w] \in RunnerType /\ runner \in [Runners -> RunnerType]
        /\ runner[w].task \in TaskRow /\ Cur(w) \in Tasks
        /\ run \in RunRow /\ tasks \in [Tasks -> TaskRow] /\ jobs \in Seq(Job)
        /\ faults \in Nat
    BY SlotType
  <1>. DEFINE n == Len(jobs)
  <1>i. /\ n \in Nat /\ runner[w] \in Slots(n) /\ runner[w].task \in Rows(n)
        /\ tasks \in [Tasks -> Rows(n)] /\ tasks[Cur(w)] \in Rows(n)
    BY SlotIds
  <1>1. NextTurn(runner[w]) \in Slots(n) /\ NextTurn(runner[w]).pc \notin JobPcs
    <2>1. "list" \in RunnerPcs
      BY DEF RunnerPcs, ActivePcs
    <2>2. NextTurn(runner[w]) \in Slots(n)
      BY <1>i, <2>1, OverSlots
    <2>. QED
      BY <1>0, <2>2, NextTurnType DEF JobPcs
  <1>2. CASE PrepareTask(w)
    <2>1. CASE tasks[Cur(w)].status \in Done
      <3>1. runner' = [runner EXCEPT ![w] = NextTurn(runner[w])]
        BY <1>2, <2>1 DEF PrepareTask
      <3>. QED
        BY <1>0, <1>i, <1>1, <1>2, <3>1, FreeStepType DEF PrepareTask, Env
    <2>2. CASE tasks[Cur(w)].status \notin Done
      <3>. DEFINE pc == IF Cur(w) \in Skippable THEN "skip" ELSE "deps"
                  rn == [runner[w] EXCEPT !.pc = pc, !.task = tasks[Cur(w)]]
      <3>1. pc \in RunnerPcs \ JobPcs
        BY DEF RunnerPcs, ActivePcs, JobPcs
      <3>2. runner' = [runner EXCEPT ![w] = rn]
        BY <1>2, <2>2 DEF PrepareTask
      <3>. HIDE DEF pc
      <3>3. rn \in Slots(n) /\ rn.pc \notin JobPcs
        BY <1>i, <3>1 DEF Slots
      <3>. HIDE DEF rn
      <3>. QED
        BY <1>0, <1>i, <1>2, <3>2, <3>3, FreeStepType DEF PrepareTask, Env
    <2>. QED
      BY <2>1, <2>2
  <1>3. CASE SkipTask(w)
    <2>. DEFINE new == [runner[w].task EXCEPT !.status = "SKIPPED", !.result = SkippedResult]
    <2>1. new \in Rows(n)
      BY <1>i, NewDataType DEF Rows, TaskStatus
    <2>2. tasks' = [tasks EXCEPT ![Cur(w)] = SavedRow(w, new)] /\ runner[w].seenTask # Unread
      BY <1>3 DEF SkipTask
    <2>. HIDE DEF new
    <2>3. SavedRow(w, new) \in Rows(n)
      BY <1>i, <2>1, <2>2, SavedRowType
    <2>4. tasks' \in [Tasks -> Rows(n)]
      BY <1>i, <2>2, <2>3
    <2>5. runner' = [runner EXCEPT ![w] = NextTurn(runner[w])]
      BY <1>3 DEF SkipTask
    <2>. QED
      BY <1>0, <1>1, <1>3, <2>4, <2>5, FreeStepType DEF SkipTask, Env
  <1>4. CASE ValidateDependencies(w)
    <2>. DEFINE pc == IF \A d \in DependsOn[Cur(w)] : tasks[d].status \in Acceptable
                      THEN "resolve" ELSE "failTask"
    <2>1. pc \in RunnerPcs \ JobPcs
      BY DEF RunnerPcs, ActivePcs, JobPcs
    <2>2. Goto(w, pc)
      BY <1>4 DEF ValidateDependencies
    <2>. HIDE DEF pc
    <2>. QED
      BY <1>0, <1>4, <2>1, <2>2, GotoType DEF ValidateDependencies, Env
  <1>5. CASE ResolveInputs(w)
    <2>. DEFINE inputs == [d \in Tasks |->
                    IF d \in DependsOn[Cur(w)] /\ tasks[d].status = "SUCCEEDED"
                    THEN tasks[d].result.job ELSE 0]
                rn == [runner[w] EXCEPT !.pc = "startTask", !.inputs = inputs]
    <2>1. inputs \in [Tasks -> Nat]
      BY <1>0 DEF TaskRow, Result
    <2>2. runner' = [runner EXCEPT ![w] = rn]
      BY <1>0, <1>5 DEF ResolveInputs
    <2>. HIDE DEF inputs
    <2>3. rn \in Slots(n) /\ rn.pc \notin JobPcs
      BY <1>i, <2>1 DEF Slots, RunnerPcs, ActivePcs, JobPcs
    <2>. HIDE DEF rn
    <2>. QED
      BY <1>0, <1>i, <1>5, <2>2, <2>3, FreeStepType DEF ResolveInputs, Env
  <1>6. CASE StartTask(w)
    <2>. DEFINE row == [runner[w].task EXCEPT !.status = "RUNNING"]
    <2>1. row \in Rows(n)
      BY <1>i DEF Rows, TaskStatus
    <2>2. SaveTask(w, row, "plan") /\ "plan" \in RunnerPcs \ JobPcs
      BY <1>6 DEF StartTask, RunnerPcs, ActivePcs, JobPcs
    <2>. HIDE DEF row
    <2>3. jobs' = jobs /\ Len(jobs) <= Len(jobs') /\ row \in Rows(Len(jobs')) /\ jobs' \in Seq(Job)
      BY <1>0, <1>i, <1>6, <2>1 DEF StartTask
    <2>. QED
      BY <1>0, <1>6, <2>2, <2>3, SaveTaskType DEF StartTask, Env
  <1>7. CASE ReadTaskForSave(w)
    <2>. DEFINE rn == [runner[w] EXCEPT !.seenTask = tasks[Cur(w)]]
    <2>1. runner' = [runner EXCEPT ![w] = rn]
      BY <1>7 DEF ReadTaskForSave
    <2>2. rn \in Slots(n) /\ rn.pc = runner[w].pc /\ rn.task = runner[w].task
      BY <1>i DEF Slots
    <2>. HIDE DEF rn
    <2>3. rn.pc \in JobPcs => rn.task.job \in DOMAIN jobs
      BY <2>2 DEF TypeInv, JobHeld
    <2>4. /\ jobs' = jobs /\ Len(jobs) <= Len(jobs') /\ jobs' \in Seq(Job)
          /\ rn \in Slots(Len(jobs')) /\ tasks' \in [Tasks -> Rows(Len(jobs'))]
      BY <1>0, <1>i, <1>7, <2>2 DEF ReadTaskForSave
    <2>. QED
      BY <1>0, <1>7, <2>1, <2>3, <2>4, RunnerStepType DEF ReadTaskForSave, Env
  <1>. QED
    BY <1>2, <1>3, <1>4, <1>5, <1>6, <1>7

\* The job of a task, from its creation to its end.
LEMMA JobType ==
    ASSUME TypeInv, NEW w \in Runners,
           CreateAndAttachJob(w) \/ PlanningFails(w) \/ ClaimJob(w) \/ FinishJob(w)
    PROVE  TypeInv'
  <1>0. /\ runner[w] \in RunnerType /\ runner \in [Runners -> RunnerType]
        /\ runner[w].task \in TaskRow /\ Cur(w) \in Tasks
        /\ run \in RunRow /\ tasks \in [Tasks -> TaskRow] /\ jobs \in Seq(Job)
        /\ faults \in Nat
    BY SlotType
  <1>i. /\ Len(jobs) \in Nat /\ DOMAIN jobs = 1..Len(jobs) /\ runner[w] \in Slots(Len(jobs))
        /\ runner[w].task \in Rows(Len(jobs)) /\ tasks \in [Tasks -> Rows(Len(jobs))]
    BY SlotIds
  <1>1. CASE CreateAndAttachJob(w)
    <2>. DEFINE job == [task |-> Cur(w), status |-> "PENDING", verdict |-> "none",
                        inputs |-> runner[w].inputs]
                row == [runner[w].task EXCEPT !.job = Len(jobs')]
    <2>1. job \in Job
      BY <1>0 DEF Job, JobStatus, RunnerType
    <2>2. jobs' = Append(jobs, job)
      BY <1>1 DEF CreateAndAttachJob
    <2>. HIDE DEF job
    <2>3. jobs' \in Seq(Job) /\ Len(jobs') = Len(jobs) + 1
      BY <1>0, <2>1, <2>2, AppendProperties
    <2>4. /\ Len(jobs) <= Len(jobs') /\ Len(jobs') > Len(jobs) /\ Len(jobs') \in Nat
          /\ Len(jobs') \in 0..Len(jobs') /\ 0..Len(jobs) \subseteq 0..Len(jobs')
      BY <1>i, <2>3
    <2>5. row \in Rows(Len(jobs')) /\ row.job = Len(jobs')
      BY <1>i, <2>4 DEF Rows
    <2>7. SaveTask(w, row, "claim") /\ "claim" \in RunnerPcs
      BY <1>1 DEF CreateAndAttachJob, RunnerPcs, ActivePcs
    <2>. HIDE DEF row
    <2>8. row.job > Len(jobs)
      BY <2>4, <2>5
    <2>. QED
      BY <1>0, <1>1, <2>3, <2>4, <2>5, <2>7, <2>8, SaveTaskType DEF CreateAndAttachJob, Env
  <1>2. CASE PlanningFails(w)
    <2>1. "failTask" \in RunnerPcs \ JobPcs
      BY DEF RunnerPcs, ActivePcs, JobPcs
    <2>. QED
      BY <1>0, <1>2, <2>1, GotoType DEF PlanningFails, Env
  <1>g. ASSUME NEW pc \in {"job", "record"}, Goto(w, pc), UNCHANGED <<run, tasks>>, UNCHANGED Env,
               jobs' \in Seq(Job), DOMAIN jobs' = DOMAIN jobs, Len(jobs') = Len(jobs),
               runner[w].task.job \in DOMAIN jobs
        PROVE  TypeInv'
    <2>. DEFINE rn == [runner[w] EXCEPT !.pc = pc]
    <2>1. pc \in RunnerPcs
      BY DEF RunnerPcs, ActivePcs
    <2>2. runner' = [runner EXCEPT ![w] = rn]
      BY <1>0, <1>g DEF Goto
    <2>3. rn \in Slots(Len(jobs)) /\ rn.task = runner[w].task
      BY <1>i, <2>1 DEF Slots
    <2>. HIDE DEF rn
    <2>4. /\ rn \in Slots(Len(jobs')) /\ tasks' \in [Tasks -> Rows(Len(jobs'))]
          /\ Len(jobs) <= Len(jobs') /\ rn.task.job \in DOMAIN jobs'
      BY <1>i, <1>g, <2>3
    <2>. QED
      BY <1>0, <1>g, <2>2, <2>4, RunnerStepType DEF Env
  <1>3. CASE ClaimJob(w)
    <2>1. runner[w].task.job \in DOMAIN jobs
      BY <1>3 DEF ClaimJob, At, TypeInv, JobHeld, JobPcs
    <2>2. jobs' \in Seq(Job) /\ DOMAIN jobs' = DOMAIN jobs /\ Len(jobs') = Len(jobs)
      BY <1>0, <1>3, <2>1, HeldJobType DEF ClaimJob, JobStatus
    <2>. QED
      BY <1>g, <1>3, <2>1, <2>2 DEF ClaimJob
  <1>4. CASE FinishJob(w)
    <2>1. runner[w].task.job \in DOMAIN jobs
      BY <1>4 DEF FinishJob, At, TypeInv, JobHeld, JobPcs
    <2>2. CASE \E v \in VerdictsOf(Cur(w)) :
                  /\ jobs' = [jobs EXCEPT ![runner[w].task.job].status = "SUCCEEDED",
                                          ![runner[w].task.job].verdict = v]
                  /\ Goto(w, "record")
      <3>1. PICK v \in VerdictsOf(Cur(w)) :
                  /\ jobs' = [jobs EXCEPT ![runner[w].task.job].status = "SUCCEEDED",
                                          ![runner[w].task.job].verdict = v]
                  /\ Goto(w, "record")
        BY <2>2
      <3>2. v \in Verdicts
        BY DEF VerdictsOf, Verdicts
      <3>3. jobs[runner[w].task.job] \in Job
        BY <1>0, <2>1
      <3>. DEFINE job == [jobs[runner[w].task.job] EXCEPT !.status = "SUCCEEDED", !.verdict = v]
      <3>4. job \in Job /\ jobs' = [jobs EXCEPT ![runner[w].task.job] = job]
        BY <1>0, <2>1, <3>1, <3>2, <3>3 DEF Job, JobStatus
      <3>. HIDE DEF job
      <3>5. jobs' \in Seq(Job) /\ DOMAIN jobs' = DOMAIN jobs /\ Len(jobs') = Len(jobs)
        BY <1>0, <2>1, <3>4, JobUpdate
      <3>. QED
        BY <1>g, <1>4, <2>1, <3>1, <3>5 DEF FinishJob
    <2>3. CASE /\ jobs' = [jobs EXCEPT ![runner[w].task.job].status = "FAILED"]
               /\ Goto(w, "failTask")
      <3>1. jobs' \in Seq(Job) /\ DOMAIN jobs' = DOMAIN jobs /\ Len(jobs') = Len(jobs)
        BY <1>0, <2>1, <2>3, HeldJobType DEF JobStatus
      <3>2. "failTask" \in RunnerPcs \ JobPcs
        BY DEF RunnerPcs, ActivePcs, JobPcs
      <3>. QED
        BY <1>0, <1>4, <2>3, <3>1, <3>2, GotoType DEF FinishJob, Env
    <2>. QED
      BY <1>4, <2>2, <2>3 DEF FinishJob
  <1>. QED
    BY <1>1, <1>2, <1>3, <1>4

\* The end of a task, recorded, blocked or failed.
LEMMA AfterJobType ==
    ASSUME TypeInv, NEW w \in Runners,
           RecordTaskResult(w) \/ RecordingFails(w) \/ BlockTask(w) \/ FailTask(w)
    PROVE  TypeInv'
  <1>0. /\ runner[w] \in RunnerType /\ runner \in [Runners -> RunnerType]
        /\ runner[w].task \in TaskRow /\ Cur(w) \in Tasks
        /\ run \in RunRow /\ tasks \in [Tasks -> TaskRow] /\ jobs \in Seq(Job)
        /\ faults \in Nat
    BY SlotType
  <1>. DEFINE n == Len(jobs)
  <1>i. /\ n \in Nat /\ runner[w] \in Slots(n) /\ runner[w].task \in Rows(n)
        /\ tasks \in [Tasks -> Rows(n)] /\ TypeOK
    BY SlotIds
  <1>p. "list" \in RunnerPcs /\ "list" \notin JobPcs /\ "blockTask" \in RunnerPcs
        /\ "blockTask" \notin JobPcs
    BY DEF RunnerPcs, ActivePcs, JobPcs
  <1>1. CASE RecordTaskResult(w)
    <2>. DEFINE new == RecordedRow(runner[w].task)
                row == SavedRow(w, new)
                recorded == [runner[w] EXCEPT !.task = row]
                blocked == [runner[w] EXCEPT !.pc = "blockTask", !.task = row, !.seenTask = Unread]
                rn == IF GateBlocks(Cur(w), row.result) THEN blocked ELSE NextTurn(recorded)
    <2>1. runner[w].task.job \in DOMAIN jobs /\ runner[w].seenTask # Unread
      BY <1>1 DEF RecordTaskResult, At, TypeInv, JobHeld, JobPcs
    <2>2. new \in Rows(n)
      BY <1>i, <2>1, RecordedRowType
    <2>3. tasks' = [tasks EXCEPT ![Cur(w)] = row] /\ runner' = [runner EXCEPT ![w] = rn]
      BY <1>1 DEF RecordTaskResult
    <2>. HIDE DEF new
    <2>4. row \in Rows(n)
      BY <1>i, <2>1, <2>2, SavedRowType
    <2>. HIDE DEF row
    <2>5. recorded \in Slots(n) /\ blocked \in Slots(n) /\ blocked.pc \notin JobPcs
      BY <1>i, <1>p, <2>4 DEF Slots
    <2>. HIDE DEF recorded, blocked
    <2>6. recorded \in RunnerType
      BY <1>i, <2>5, MoreJobs
    <2>7. NextTurn(recorded) \in Slots(n) /\ NextTurn(recorded).pc \notin JobPcs
      <3>1. NextTurn(recorded) \in Slots(n)
        BY <1>i, <1>p, <2>5, OverSlots
      <3>. QED
        BY <2>6, <3>1, NextTurnType DEF JobPcs
    <2>8. rn \in Slots(n) /\ rn.pc \notin JobPcs
      BY <2>5, <2>7
    <2>9. tasks' \in [Tasks -> Rows(n)]
      BY <1>i, <2>3, <2>4
    <2>. HIDE DEF rn
    <2>. QED
      BY <1>0, <1>1, <2>3, <2>8, <2>9, FreeStepType DEF RecordTaskResult, Env
  <1>2. CASE RecordingFails(w)
    <2>1. "failTask" \in RunnerPcs \ JobPcs
      BY DEF RunnerPcs, ActivePcs, JobPcs
    <2>. QED
      BY <1>0, <1>2, <2>1, GotoType DEF RecordingFails, Env
  <1>3. ASSUME NEW status \in TaskStatus, NEW final \in {"BLOCKED", "FAILED"}, UNCHANGED Env,
               UNCHANGED <<run, jobs>>, runner[w].seenTask # Unread,
               tasks' = [tasks EXCEPT ![Cur(w)] =
                            SavedRow(w, [runner[w].task EXCEPT !.status = status])],
               runner' = [runner EXCEPT ![w] =
                            [TaskOver(runner[w], "list") EXCEPT !.final = final]]
        PROVE  TypeInv'
    <2>. DEFINE new == [runner[w].task EXCEPT !.status = status]
                over == TaskOver(runner[w], "list")
                rn == [over EXCEPT !.final = final]
    <2>1. new \in Rows(n)
      BY <1>i DEF Rows
    <2>2. SavedRow(w, new) \in Rows(n)
      BY <1>i, <1>3, <2>1, SavedRowType
    <2>3. tasks' \in [Tasks -> Rows(n)]
      BY <1>0, <1>i, <1>3, <2>2
    <2>4. over \in Slots(n) /\ over.pc = "list"
      BY <1>0, <1>i, <1>p, OverSlots, TaskOverType
    <2>5. runner' = [runner EXCEPT ![w] = rn]
      BY <1>3
    <2>. HIDE DEF over
    <2>6. rn \in Slots(n) /\ rn.pc \notin JobPcs
      BY <1>p, <2>4 DEF Slots
    <2>. HIDE DEF rn
    <2>. QED
      BY <1>0, <1>3, <2>3, <2>5, <2>6, FreeStepType DEF Env
  <1>4. CASE BlockTask(w)
    BY <1>3, <1>4 DEF BlockTask, TaskStatus
  <1>5. CASE FailTask(w)
    BY <1>3, <1>5 DEF FailTask, TaskStatus
  <1>. QED
    BY <1>1, <1>2, <1>4, <1>5

\* The errors: what stays in memory of a failed step is typed as well.
LEMMA FaultType ==
    ASSUME TypeInv, NEW w \in Runners,
           FaultInTask(w) \/ FaultInLoop(w) \/ FaultOutside(w)
    PROVE  TypeInv'
  <1>0. /\ runner[w] \in RunnerType /\ runner \in [Runners -> RunnerType]
        /\ runner[w].task \in TaskRow
        /\ run \in RunRow /\ tasks \in [Tasks -> TaskRow] /\ jobs \in Seq(Job)
        /\ faults \in Nat
    BY SlotType
  <1>. DEFINE n == Len(jobs)
  <1>i. /\ n \in Nat /\ runner[w] \in Slots(n) /\ runner[w].task \in Rows(n)
        /\ tasks \in [Tasks -> Rows(n)] /\ TypeOK
    BY SlotIds
  <1>p. \A pc \in {"list", "raise", "failTask"} : pc \in RunnerPcs /\ pc \notin JobPcs
    BY DEF RunnerPcs, ActivePcs, JobPcs
  <1>4. faults' \in Nat
    <2>1. ASSUME faults' = faults + 1 PROVE faults' \in Nat
      BY <1>0, <2>1
    <2>2. FaultInTask(w) => faults' = faults + 1
      BY DEF FaultInTask
    <2>3. FaultInLoop(w) \/ FaultOutside(w) => faults' = faults + 1
      BY DEF FaultInLoop, FaultOutside
    <2>. QED
      BY <2>1, <2>2, <2>3
  <1>o. Over(runner[w], "raise") \in Slots(n) /\ Over(runner[w], "raise").pc \notin JobPcs
    <2>1. "raise" \in RunnerPcs /\ "raise" \notin JobPcs
      BY <1>p
    <2>2. Over(runner[w], "raise").pc = "raise"
      BY ONLY <1>0, <2>1, OverType
    <2>3. Over(runner[w], "raise") \in Slots(n)
      BY <1>i, <2>1, OverSlots
    <2>. QED
      BY <2>1, <2>2, <2>3
  <1>1. CASE FaultInTask(w)
    <2>1. runner[w].pc \in JobPcs => runner[w].task.job \in DOMAIN jobs
      BY DEF TypeInv, JobHeld
    <2>2. Unsaved(w) \subseteq Rows(n)
      <3>1. /\ [runner[w].task EXCEPT !.status = "RUNNING"] \in Rows(n)
            /\ [runner[w].task EXCEPT !.job = 0] \in Rows(n)
        <4>1. 0 \in 0..n
          BY <1>i
        <4>. QED
          BY <1>i, <4>1 DEF Rows, TaskStatus
      <3>2. At(w, "record") => RecordedRow(runner[w].task) \in Rows(n)
        BY <1>i, <2>1, RecordedRowType DEF At, JobPcs
      <3>3. CASE At(w, "startTask")
        BY <3>1, <3>3 DEF Unsaved, At
      <3>4. CASE At(w, "plan")
        BY <1>i, <3>1, <3>4 DEF Unsaved, At
      <3>5. CASE At(w, "record")
        BY <3>2, <3>5 DEF Unsaved, At
      <3>6. CASE ~ At(w, "startTask") /\ ~ At(w, "plan") /\ ~ At(w, "record")
        BY <1>i, <3>6 DEF Unsaved
      <3>. QED
        BY <3>3, <3>4, <3>5, <3>6
    <2>3. jobs' \in Seq(Job) /\ Len(jobs') = Len(jobs)
      <3>1. CASE At(w, "job")
        BY <1>0, <1>1, <2>1, <3>1, HeldJobType DEF FaultInTask, At, JobPcs, JobStatus
      <3>2. CASE ~ At(w, "job")
        BY <1>0, <1>1, <3>2 DEF FaultInTask
      <3>. QED
        BY <3>1, <3>2
    <2>4. PICK row \in Unsaved(w) :
              runner' = [runner EXCEPT ![w] =
                            [@ EXCEPT !.pc = "failTask", !.task = row, !.seenTask = Unread]]
      BY <1>1 DEF FaultInTask
    <2>. DEFINE rn == [runner[w] EXCEPT !.pc = "failTask", !.task = row, !.seenTask = Unread]
    <2>5. rn \in Slots(n) /\ rn.pc \notin JobPcs
      BY <1>i, <1>p, <2>2 DEF Slots
    <2>6. runner' = [runner EXCEPT ![w] = rn]
      BY <1>0, <2>4
    <2>. HIDE DEF rn
    <2>7. UNCHANGED <<run, tasks, request, queue, records, crashes, redeliveries>>
      BY <1>1 DEF FaultInTask
    <2>8. /\ Len(jobs) <= Len(jobs') /\ rn \in Slots(Len(jobs'))
          /\ tasks' \in [Tasks -> Rows(Len(jobs'))]
      BY <1>i, <2>3, <2>5, <2>7
    <2>. QED
      BY <1>0, <1>4, <2>3, <2>5, <2>6, <2>7, <2>8, RunnerStepType
  <1>2. CASE FaultInLoop(w)
    <2>. DEFINE over == TaskOver(runner[w], "list")
                listed == [over EXCEPT !.final = "FAILED", !.seenRun = Unread]
    <2>1. PICK rn \in {listed, Over(runner[w], "raise")} : runner' = [runner EXCEPT ![w] = rn]
      BY <1>2 DEF FaultInLoop
    <2>2. over \in Slots(n) /\ over.pc = "list"
      <3>1. "list" \in RunnerPcs
        BY <1>p
      <3>2. over.pc = "list"
        BY ONLY <1>0, <3>1, TaskOverType
      <3>. QED
        BY <1>i, <3>1, <3>2, OverSlots
    <2>. HIDE DEF over
    <2>3. listed \in Slots(n) /\ listed.pc \notin JobPcs
      BY <1>p, <2>2 DEF Slots
    <2>. HIDE DEF listed
    <2>4. rn \in Slots(n) /\ rn.pc \notin JobPcs
      BY <1>o, <2>1, <2>3
    <2>. QED
      BY <1>0, <1>i, <1>2, <1>4, <2>1, <2>4, FreeStepType DEF FaultInLoop
  <1>3. CASE FaultOutside(w)
    <2>. DEFINE rn == Over(runner[w], "raise")
    <2>1. runner' = [runner EXCEPT ![w] = rn]
      BY <1>3 DEF FaultOutside
    <2>2. rn \in Slots(n) /\ rn.pc \notin JobPcs
      BY <1>o
    <2>. HIDE DEF rn
    <2>. QED
      BY <1>0, <1>i, <1>3, <1>4, <2>1, <2>2, FreeStepType DEF FaultOutside
  <1>. QED
    BY <1>1, <1>2, <1>3

-----------------------------------------------------------------------------
\* Every step of the platform keeps the types.
LEMMA PipelineNextType == TypeInv /\ [Next]_vars => TypeInv'
  <1> SUFFICES ASSUME TypeInv, [Next]_vars PROVE TypeInv'
    OBVIOUS
  <1>1. CASE Api
    BY <1>1, ApiType DEF Api
  <1>2. CASE RunnerPool
    <2>1. PICK w \in Runners :
              \/ \E m \in Messages : Deliver(w, m)
              \/ RunnerStep(w) \/ FaultInTask(w) \/ FaultInLoop(w) \/ FaultOutside(w)
              \/ Crash(w) \/ Redeliver(w)
      BY <1>2 DEF RunnerPool
    <2>2. CASE RunnerStep(w)
      BY <2>2, RunType, BeforeJobType, JobType, AfterJobType, BrokerType DEF RunnerStep
    <2>3. CASE FaultInTask(w) \/ FaultInLoop(w) \/ FaultOutside(w)
      BY <2>3, FaultType
    <2>4. CASE (\E m \in Messages : Deliver(w, m)) \/ Crash(w) \/ Redeliver(w)
      BY <2>4, BrokerType
    <2>. QED
      BY <2>1, <2>2, <2>3, <2>4
  <1>3. CASE UNCHANGED vars
    BY <1>3 DEF vars, TypeInv, TypeOK, JobHeld, JobIds
  <1>. QED
    BY <1>1, <1>2, <1>3 DEF Next

\* Rows, jobs, messages and workers keep their types whatever requests,
\* messages, errors and crashes do to a run: in particular the job a worker
\* claims, executes or records exists (PipelineTaskRunner, JobRunner.run).
THEOREM PipelinesTypeCorrect == Spec => []TypeOK
  <1>1. TypeInv => TypeOK
    BY DEF TypeInv
  <1>. QED
    BY <1>1, PipelineInitType, PipelineNextType, PTL DEF Spec

-----------------------------------------------------------------------------
(* The slot of a runner after each of its steps.  The other slots stay as  *)
(* they are; the lemmas below are what the proofs by cases start from.     *)

\* A step of w's, of any kind.
StepOf(w) ==
    \/ \E m \in Messages : Deliver(w, m)
    \/ RunnerStep(w) \/ FaultInTask(w) \/ FaultInLoop(w) \/ FaultOutside(w)
    \/ Crash(w) \/ Redeliver(w)

\* The steps before the job of a task exists.
LEMMA EarlySlots ==
    ASSUME TypeInv, NEW w \in Runners
    PROVE  /\ LoadRun(w) => runner'[w] =
                  IF run.status \in NotRunnable THEN Over(runner[w], "raise")
                  ELSE [runner[w] EXCEPT !.pc = "start", !.run = run]
           /\ ReadRunForSave(w) => runner'[w] = [runner[w] EXCEPT !.seenRun = run]
           /\ StartPipeline(w) => runner'[w] =
                  [runner[w] EXCEPT !.pc = "task", !.run = NewRun, !.seenRun = Unread]
           /\ PrepareTask(w) => runner'[w] =
                  IF tasks[Cur(w)].status \in Done THEN NextTurn(runner[w])
                  ELSE [runner[w] EXCEPT !.pc = IF Cur(w) \in Skippable THEN "skip" ELSE "deps",
                                         !.task = tasks[Cur(w)]]
           /\ ReadTaskForSave(w) => runner'[w] = [runner[w] EXCEPT !.seenTask = tasks[Cur(w)]]
           /\ SkipTask(w) => runner'[w] = NextTurn(runner[w])
           /\ ValidateDependencies(w) => \E pc \in {"resolve", "failTask"} :
                  runner'[w] = [runner[w] EXCEPT !.pc = pc]
           /\ ResolveInputs(w) => runner'[w] =
                  [runner[w] EXCEPT !.pc = "startTask", !.inputs = [d \in Tasks |->
                      IF d \in DependsOn[Cur(w)] /\ tasks[d].status = "SUCCEEDED"
                      THEN tasks[d].result.job ELSE 0]]
           /\ StartTask(w) => runner'[w] =
                  [runner[w] EXCEPT !.pc = "plan",
                       !.task = SavedRow(w, [runner[w].task EXCEPT !.status = "RUNNING"]),
                       !.seenTask = Unread]
           /\ PlanningFails(w) => runner'[w] = [runner[w] EXCEPT !.pc = "failTask"]
  <1>0. runner \in [Runners -> RunnerType]
    BY SlotType
  <1>1. LoadRun(w) => runner'[w] =
                  IF run.status \in NotRunnable THEN Over(runner[w], "raise")
                  ELSE [runner[w] EXCEPT !.pc = "start", !.run = run]
    BY <1>0 DEF LoadRun
  <1>2. /\ ReadRunForSave(w) => runner'[w] = [runner[w] EXCEPT !.seenRun = run]
        /\ StartPipeline(w) => runner'[w] =
                  [runner[w] EXCEPT !.pc = "task", !.run = NewRun, !.seenRun = Unread]
    BY <1>0 DEF ReadRunForSave, StartPipeline
  <1>3. PrepareTask(w) => runner'[w] =
                  IF tasks[Cur(w)].status \in Done THEN NextTurn(runner[w])
                  ELSE [runner[w] EXCEPT !.pc = IF Cur(w) \in Skippable THEN "skip" ELSE "deps",
                                         !.task = tasks[Cur(w)]]
    BY <1>0 DEF PrepareTask
  <1>4. /\ SkipTask(w) => runner'[w] = NextTurn(runner[w])
        /\ ReadTaskForSave(w) => runner'[w] = [runner[w] EXCEPT !.seenTask = tasks[Cur(w)]]
    BY <1>0 DEF SkipTask, ReadTaskForSave
  <1>5. ValidateDependencies(w) => \E pc \in {"resolve", "failTask"} :
                  runner'[w] = [runner[w] EXCEPT !.pc = pc]
    <2>1. ASSUME NEW pc, Goto(w, pc) PROVE runner'[w] = [runner[w] EXCEPT !.pc = pc]
      BY <1>0, <2>1 DEF Goto
    <2>. QED
      BY <2>1 DEF ValidateDependencies
  <1>6. ResolveInputs(w) => runner'[w] =
                  [runner[w] EXCEPT !.pc = "startTask", !.inputs = [d \in Tasks |->
                      IF d \in DependsOn[Cur(w)] /\ tasks[d].status = "SUCCEEDED"
                      THEN tasks[d].result.job ELSE 0]]
    BY <1>0 DEF ResolveInputs
  <1>7. StartTask(w) => runner'[w] =
                  [runner[w] EXCEPT !.pc = "plan",
                       !.task = SavedRow(w, [runner[w].task EXCEPT !.status = "RUNNING"]),
                       !.seenTask = Unread]
    BY <1>0 DEF StartTask, SaveTask
  <1>8. PlanningFails(w) => runner'[w] = [runner[w] EXCEPT !.pc = "failTask"]
    BY <1>0 DEF PlanningFails, Goto
  <1>. QED
    BY <1>1, <1>2, <1>3, <1>4, <1>5, <1>6, <1>7, <1>8

\* The steps from the creation of the job to the end of the run.
LEMMA LateSlots ==
    ASSUME TypeInv, NEW w \in Runners
    PROVE  /\ CreateAndAttachJob(w) => runner'[w] =
                  [runner[w] EXCEPT !.pc = "claim",
                       !.task = SavedRow(w, [runner[w].task EXCEPT !.job = Len(jobs')]),
                       !.seenTask = Unread]
           /\ ClaimJob(w) => runner'[w] = [runner[w] EXCEPT !.pc = "job"]
           /\ FinishJob(w) => \E pc \in {"record", "failTask"} :
                  runner'[w] = [runner[w] EXCEPT !.pc = pc]
           /\ RecordTaskResult(w) =>
                  LET row == SavedRow(w, RecordedRow(runner[w].task))
                  IN  runner'[w] =
                          IF GateBlocks(Cur(w), row.result)
                          THEN [runner[w] EXCEPT !.pc = "blockTask", !.task = row, !.seenTask = Unread]
                          ELSE NextTurn([runner[w] EXCEPT !.task = row])
           /\ RecordingFails(w) => runner'[w] = [runner[w] EXCEPT !.pc = "failTask"]
           /\ BlockTask(w) => runner'[w] = [TaskOver(runner[w], "list") EXCEPT !.final = "BLOCKED"]
           /\ FailTask(w) => runner'[w] = [TaskOver(runner[w], "list") EXCEPT !.final = "FAILED"]
           /\ ListTaskRuns(w) => runner'[w] =
                  [runner[w] EXCEPT !.pc = "save",
                                    !.snapshot = [t \in Tasks |-> tasks[t].result]]
           /\ FinishPipeline(w) => \E pc \in {"raise", "return"} :
                  runner'[w] = Over(runner[w], pc)
  <1>0. runner \in [Runners -> RunnerType]
    BY SlotType
  <1>g. ASSUME NEW pc, Goto(w, pc) PROVE runner'[w] = [runner[w] EXCEPT !.pc = pc]
    BY <1>0, <1>g DEF Goto
  <1>1. CreateAndAttachJob(w) => runner'[w] =
                  [runner[w] EXCEPT !.pc = "claim",
                       !.task = SavedRow(w, [runner[w].task EXCEPT !.job = Len(jobs')]),
                       !.seenTask = Unread]
    BY <1>0 DEF CreateAndAttachJob, SaveTask
  <1>2. ClaimJob(w) => runner'[w] = [runner[w] EXCEPT !.pc = "job"]
    BY <1>g DEF ClaimJob
  <1>3. FinishJob(w) => \E pc \in {"record", "failTask"} :
                  runner'[w] = [runner[w] EXCEPT !.pc = pc]
    <2>1. FinishJob(w) => Goto(w, "record") \/ Goto(w, "failTask")
      BY DEF FinishJob
    <2>. QED
      BY <1>g, <2>1
  <1>4. RecordTaskResult(w) =>
                  LET row == SavedRow(w, RecordedRow(runner[w].task))
                  IN  runner'[w] =
                          IF GateBlocks(Cur(w), row.result)
                          THEN [runner[w] EXCEPT !.pc = "blockTask", !.task = row, !.seenTask = Unread]
                          ELSE NextTurn([runner[w] EXCEPT !.task = row])
    BY <1>0 DEF RecordTaskResult
  <1>5. RecordingFails(w) => runner'[w] = [runner[w] EXCEPT !.pc = "failTask"]
    BY <1>g DEF RecordingFails
  <1>6. BlockTask(w) => runner'[w] = [TaskOver(runner[w], "list") EXCEPT !.final = "BLOCKED"]
    BY <1>0 DEF BlockTask
  <1>7. FailTask(w) => runner'[w] = [TaskOver(runner[w], "list") EXCEPT !.final = "FAILED"]
    BY <1>0 DEF FailTask
  <1>8. ListTaskRuns(w) => runner'[w] =
                  [runner[w] EXCEPT !.pc = "save",
                                    !.snapshot = [t \in Tasks |-> tasks[t].result]]
    BY <1>0 DEF ListTaskRuns
  <1>9. FinishPipeline(w) => \E pc \in {"raise", "return"} :
                  runner'[w] = Over(runner[w], pc)
    BY <1>0 DEF FinishPipeline
  <1>. QED
    BY <1>1, <1>2, <1>3, <1>4, <1>5, <1>6, <1>7, <1>8, <1>9

\* The steps of the broker, and the errors.
LEMMA BrokerSlots ==
    ASSUME TypeInv, NEW w \in Runners
    PROVE  /\ \A m \in Messages : Deliver(w, m) =>
                  runner'[w] = [IdleRunner EXCEPT !.pc = "load", !.msg = m]
           /\ RaiseTask(w) \/ ReturnTask(w) \/ Crash(w) => runner'[w] = IdleRunner
           /\ Redeliver(w) => runner'[w] = runner[w]
           /\ FaultInTask(w) => \E row \in Unsaved(w) :
                  runner'[w] = [runner[w] EXCEPT !.pc = "failTask", !.task = row, !.seenTask = Unread]
           /\ FaultInLoop(w) =>
                  \/ runner'[w] = [TaskOver(runner[w], "list") EXCEPT !.final = "FAILED",
                                                                      !.seenRun = Unread]
                  \/ runner'[w] = Over(runner[w], "raise")
           /\ FaultOutside(w) => runner'[w] = Over(runner[w], "raise")
  <1>0. runner \in [Runners -> RunnerType]
    BY SlotType
  <1>1. \A m \in Messages : Deliver(w, m) =>
                  runner'[w] = [IdleRunner EXCEPT !.pc = "load", !.msg = m]
    BY <1>0 DEF Deliver
  <1>2. RaiseTask(w) \/ ReturnTask(w) \/ Crash(w) => runner'[w] = IdleRunner
    BY <1>0 DEF RaiseTask, ReturnTask, Crash
  <1>3. Redeliver(w) => runner'[w] = runner[w]
    BY DEF Redeliver
  <1>4. FaultInTask(w) => \E row \in Unsaved(w) :
                  runner'[w] = [runner[w] EXCEPT !.pc = "failTask", !.task = row, !.seenTask = Unread]
    BY <1>0 DEF FaultInTask
  <1>5. FaultInLoop(w) =>
                  \/ runner'[w] = [TaskOver(runner[w], "list") EXCEPT !.final = "FAILED",
                                                                      !.seenRun = Unread]
                  \/ runner'[w] = Over(runner[w], "raise")
    BY <1>0 DEF FaultInLoop
  <1>6. FaultOutside(w) => runner'[w] = Over(runner[w], "raise")
    BY <1>0 DEF FaultOutside
  <1>. QED
    BY <1>1, <1>2, <1>3, <1>4, <1>5, <1>6

\* What the slot of a task execution that is over keeps, and what it loses.
LEMMA TaskOverForm ==
    ASSUME NEW rn \in RunnerType, NEW pc \in RunnerPcs
    PROVE  /\ TaskOver(rn, pc).pc = pc /\ TaskOver(rn, pc).task = NewTask
           /\ TaskOver(rn, pc).inputs = NoInputs /\ TaskOver(rn, pc).seenTask = Unread
           /\ TaskOver(rn, pc).msg = rn.msg /\ TaskOver(rn, pc).cur = rn.cur
           /\ TaskOver(rn, pc).run = rn.run /\ TaskOver(rn, pc).final = rn.final
           /\ TaskOver(rn, pc).snapshot = rn.snapshot /\ TaskOver(rn, pc).seenRun = rn.seenRun
  BY DEF TaskOver, RunnerType

\* The next turn begins with nothing in hand; only after the last task is the
\* run to be finished.
LEMMA NextTurnForm ==
    ASSUME NEW rn \in RunnerType
    PROVE  /\ NextTurn(rn) \in RunnerType
           /\ NextTurn(rn).task = NewTask /\ NextTurn(rn).inputs = NoInputs
           /\ NextTurn(rn).msg = rn.msg /\ NextTurn(rn).run = rn.run
           /\ NextTurn(rn).snapshot = rn.snapshot
           /\ NextTurn(rn).seenRun = rn.seenRun /\ NextTurn(rn).seenTask = Unread
           /\ rn.cur = NumTasks => /\ NextTurn(rn).pc = "list" /\ NextTurn(rn).cur = NumTasks
                                   /\ NextTurn(rn).final = "SUCCEEDED"
           /\ rn.cur # NumTasks => /\ NextTurn(rn).pc = "task" /\ NextTurn(rn).cur = rn.cur + 1
                                   /\ rn.cur + 1 \in Tasks /\ NextTurn(rn).final = rn.final
  <1>. DEFINE listed == TaskOver(rn, "list")
              again == TaskOver(rn, "task")
  <1>0. NextTurn(rn) \in RunnerType
    BY NextTurnType
  <1>p. "list" \in RunnerPcs /\ "task" \in RunnerPcs
    BY DEF RunnerPcs, ActivePcs
  <1>1. /\ listed \in RunnerType /\ listed.pc = "list" /\ listed.cur = rn.cur
        /\ listed.task = NewTask /\ listed.inputs = NoInputs /\ listed.seenTask = Unread
        /\ listed.msg = rn.msg /\ listed.run = rn.run /\ listed.snapshot = rn.snapshot
        /\ listed.seenRun = rn.seenRun
    BY <1>p, TaskOverForm, TaskOverType
  <1>2. /\ again \in RunnerType /\ again.pc = "task" /\ again.cur = rn.cur
        /\ again.task = NewTask /\ again.inputs = NoInputs /\ again.seenTask = Unread
        /\ again.msg = rn.msg /\ again.run = rn.run /\ again.snapshot = rn.snapshot
        /\ again.seenRun = rn.seenRun /\ again.final = rn.final
    BY <1>p, TaskOverForm, TaskOverType
  <1>3. rn.cur \in Tasks
    BY DEF RunnerType
  <1>4. rn.cur # NumTasks => rn.cur + 1 \in Tasks
    BY <1>3, PipelineAssumption DEF Tasks
  <1>5. CASE rn.cur = NumTasks
    <2>1. NextTurn(rn) = [listed EXCEPT !.final = "SUCCEEDED"]
      BY <1>5 DEF NextTurn
    <2>. HIDE DEF listed
    <2>. QED
      BY <1>0, <1>1, <1>5, <2>1 DEF RunnerType
  <1>6. CASE rn.cur # NumTasks
    <2>1. NextTurn(rn) = [again EXCEPT !.cur = again.cur + 1]
      BY <1>6 DEF NextTurn
    <2>. HIDE DEF again
    <2>. QED
      BY <1>0, <1>2, <1>4, <1>6, <2>1 DEF RunnerType
  <1>. QED
    BY <1>5, <1>6

\* A slot whose run is over holds its message and nothing else.
LEMMA OverForm ==
    ASSUME NEW rn \in RunnerType, NEW pc \in RunnerPcs
    PROVE  /\ Over(rn, pc).pc = pc /\ Over(rn, pc).msg = rn.msg
           /\ Over(rn, pc).task = NewTask /\ Over(rn, pc).inputs = NoInputs
           /\ Over(rn, pc).seenRun = Unread /\ Over(rn, pc).seenTask = Unread
           /\ Over(rn, pc).cur = 1 /\ Over(rn, pc).final = "SUCCEEDED"
  BY DEF Over, IdleRunner

\* The end of a task execution that blocked or failed.
LEMMA ListedForm ==
    ASSUME NEW rn \in RunnerType, NEW final \in {"BLOCKED", "FAILED"}
    PROVE  LET listed == [TaskOver(rn, "list") EXCEPT !.final = final]
           IN  /\ listed \in RunnerType
               /\ listed.pc = "list" /\ listed.task = NewTask /\ listed.inputs = NoInputs
               /\ listed.seenTask = Unread /\ listed.seenRun = rn.seenRun
               /\ listed.msg = rn.msg /\ listed.cur = rn.cur /\ listed.final = final
  <1>. DEFINE over == TaskOver(rn, "list")
  <1>0. "list" \in RunnerPcs
    BY DEF RunnerPcs, ActivePcs
  <1>1. /\ over \in RunnerType /\ over.pc = "list" /\ over.cur = rn.cur
        /\ over.task = NewTask /\ over.inputs = NoInputs /\ over.seenTask = Unread
        /\ over.msg = rn.msg /\ over.seenRun = rn.seenRun
    BY <1>0, TaskOverForm, TaskOverType
  <1>. HIDE DEF over
  <1>2. LET listed == [over EXCEPT !.final = final]
           IN  /\ listed \in RunnerType
               /\ listed.pc = "list" /\ listed.task = NewTask /\ listed.inputs = NoInputs
               /\ listed.seenTask = Unread /\ listed.seenRun = rn.seenRun
               /\ listed.msg = rn.msg /\ listed.cur = rn.cur /\ listed.final = final
    BY <1>1 DEF RunnerType
  <1>. QED
    BY <1>2 DEF over

\* The same after an error in the loop, which drops the SELECT of a save too.
LEMMA FaultedForm ==
    ASSUME NEW rn \in RunnerType
    PROVE  LET listed == [TaskOver(rn, "list") EXCEPT !.final = "FAILED", !.seenRun = Unread]
           IN  /\ listed \in RunnerType
               /\ listed.pc = "list" /\ listed.task = NewTask /\ listed.inputs = NoInputs
               /\ listed.seenTask = Unread /\ listed.seenRun = Unread
               /\ listed.msg = rn.msg /\ listed.cur = rn.cur /\ listed.final = "FAILED"
  <1>. DEFINE over == TaskOver(rn, "list")
  <1>0. "list" \in RunnerPcs
    BY DEF RunnerPcs, ActivePcs
  <1>1. /\ over \in RunnerType /\ over.pc = "list" /\ over.cur = rn.cur
        /\ over.task = NewTask /\ over.inputs = NoInputs /\ over.seenTask = Unread
        /\ over.msg = rn.msg
    BY <1>0, TaskOverForm, TaskOverType
  <1>. HIDE DEF over
  <1>2. LET listed == [over EXCEPT !.final = "FAILED", !.seenRun = Unread]
           IN  /\ listed \in RunnerType
               /\ listed.pc = "list" /\ listed.task = NewTask /\ listed.inputs = NoInputs
               /\ listed.seenTask = Unread /\ listed.seenRun = Unread
               /\ listed.msg = rn.msg /\ listed.cur = rn.cur /\ listed.final = "FAILED"
    BY <1>1 DEF RunnerType
  <1>. QED
    BY <1>2 DEF over

\* Recording a result, the slot has the row saved, or is at its next turn.
LEMMA RecordedSlot ==
    ASSUME TypeInv, NEW w \in Runners, RecordTaskResult(w)
    PROVE  \E row \in TaskRow :
              LET recorded == [runner[w] EXCEPT !.task = row]
              IN  /\ row = SavedRow(w, RecordedRow(runner[w].task)) /\ recorded \in RunnerType
                  /\ \/ /\ ~GateBlocks(Cur(w), row.result)
                        /\ runner'[w] = NextTurn(recorded)
                     \/ /\ GateBlocks(Cur(w), row.result)
                        /\ runner'[w] = [recorded EXCEPT !.pc = "blockTask", !.seenTask = Unread]
  <1>. DEFINE new == RecordedRow(runner[w].task)
              row == SavedRow(w, new)
              n == Len(jobs)
              recorded == [runner[w] EXCEPT !.task = row]
  <1>0. /\ runner[w] \in RunnerType /\ n \in Nat /\ runner[w].task \in Rows(n) /\ TypeOK
        /\ n <= n
    BY SlotType, SlotIds
  <1>1. runner[w].task.job \in DOMAIN jobs /\ runner[w].seenTask # Unread
    BY DEF RecordTaskResult, At, TypeInv, JobHeld, JobPcs
  <1>2. new \in Rows(n)
    BY <1>0, <1>1, RecordedRowType
  <1>3. runner'[w] = IF GateBlocks(Cur(w), row.result)
                     THEN [runner[w] EXCEPT !.pc = "blockTask", !.task = row, !.seenTask = Unread]
                     ELSE NextTurn(recorded)
    BY LateSlots
  <1>. HIDE DEF new
  <1>4. row \in Rows(n)
    BY <1>0, <1>1, <1>2, SavedRowType
  <1>5. row \in TaskRow
    BY <1>0, <1>4, MoreJobs
  <1>6. row = SavedRow(w, new)
    OBVIOUS
  <1>. HIDE DEF row
  <1>7. recorded \in RunnerType
    BY <1>0, <1>5 DEF RunnerType
  <1>8. [runner[w] EXCEPT !.pc = "blockTask", !.task = row, !.seenTask = Unread] =
            [recorded EXCEPT !.pc = "blockTask", !.seenTask = Unread]
    BY <1>0 DEF RunnerType
  <1>. QED
    BY <1>3, <1>5, <1>6, <1>7, <1>8 DEF new

\* Where each step of w's leads.
LEMMA StepTargets ==
    ASSUME TypeInv, NEW w \in Runners
    PROVE  /\ (\E m \in Messages : Deliver(w, m)) => runner'[w].pc = "load"
           /\ LoadRun(w) => runner'[w].pc = IF run.status \in NotRunnable THEN "raise" ELSE "start"
           /\ ReadRunForSave(w) \/ ReadTaskForSave(w) => runner'[w].pc = runner[w].pc
           /\ StartPipeline(w) => runner'[w].pc = "task"
           /\ SkipTask(w) => runner'[w].pc \in {"task", "list"}
           /\ PrepareTask(w) => runner'[w].pc \in {"task", "list", "skip", "deps"}
           /\ ValidateDependencies(w) => runner'[w].pc \in {"resolve", "failTask"}
           /\ ResolveInputs(w) => runner'[w].pc = "startTask"
           /\ StartTask(w) => runner'[w].pc = "plan"
           /\ CreateAndAttachJob(w) => runner'[w].pc = "claim"
           /\ ClaimJob(w) => runner'[w].pc = "job"
           /\ FinishJob(w) => runner'[w].pc \in {"record", "failTask"}
           /\ RecordTaskResult(w) => runner'[w].pc \in {"blockTask", "task", "list"}
           /\ PlanningFails(w) \/ RecordingFails(w) \/ FaultInTask(w) => runner'[w].pc = "failTask"
           /\ BlockTask(w) \/ FailTask(w) => runner'[w].pc = "list"
           /\ ListTaskRuns(w) => runner'[w].pc = "save"
           /\ FinishPipeline(w) => runner'[w].pc \in {"raise", "return"}
           /\ RaiseTask(w) \/ ReturnTask(w) \/ Crash(w) => runner'[w] = IdleRunner
           /\ FaultInLoop(w) => runner'[w].pc \in {"list", "raise"}
           /\ FaultOutside(w) => runner'[w].pc = "raise"
  <1>0. /\ runner[w] \in RunnerType /\ runner[w].task \in TaskRow
        /\ runner \in [Runners -> RunnerType]
    BY SlotType
  <1>1. ASSUME NEW pc, runner'[w] = [runner[w] EXCEPT !.pc = pc]
        PROVE  runner'[w].pc = pc
    BY <1>0, <1>1 DEF RunnerType
  <1>o. ASSUME NEW pc \in {"raise", "return"}, runner'[w] = Over(runner[w], pc)
        PROVE  runner'[w].pc = pc
    BY <1>o DEF Over, IdleRunner
  <1>2. (\E m \in Messages : Deliver(w, m)) => runner'[w].pc = "load"
    <2>1. ASSUME NEW m \in Messages, Deliver(w, m) PROVE runner'[w].pc = "load"
      BY <1>0, <2>1 DEF Deliver, IdleRunner
    <2>. QED
      BY <2>1
  <1>3. LoadRun(w) => runner'[w].pc = IF run.status \in NotRunnable THEN "raise" ELSE "start"
    <2>1. LoadRun(w) => runner'[w] = IF run.status \in NotRunnable THEN Over(runner[w], "raise")
                                     ELSE [runner[w] EXCEPT !.pc = "start", !.run = run]
      BY EarlySlots
    <2>2. [runner[w] EXCEPT !.pc = "start", !.run = run].pc = "start"
      BY <1>0 DEF RunnerType
    <2>. QED
      BY <1>o, <2>1, <2>2
  <1>4. StartPipeline(w) => runner'[w].pc = "task"
    <2>1. StartPipeline(w) => runner'[w] =
              [runner[w] EXCEPT !.pc = "task", !.run = NewRun, !.seenRun = Unread]
      BY EarlySlots
    <2>. QED
      BY <1>0, <2>1 DEF RunnerType
  <1>r. ReadRunForSave(w) \/ ReadTaskForSave(w) => runner'[w].pc = runner[w].pc
    <2>1. /\ ReadRunForSave(w) => runner'[w] = [runner[w] EXCEPT !.seenRun = run]
          /\ ReadTaskForSave(w) => runner'[w] = [runner[w] EXCEPT !.seenTask = tasks[Cur(w)]]
      BY EarlySlots
    <2>. QED
      BY <1>0, <2>1 DEF RunnerType
  <1>5. SkipTask(w) => runner'[w].pc \in {"task", "list"}
    BY <1>0, EarlySlots, NextTurnType
  <1>6. PrepareTask(w) => runner'[w].pc \in {"task", "list", "skip", "deps"}
    <2>1. CASE tasks[Cur(w)].status \in Done
      BY <1>0, <2>1, NextTurnType DEF PrepareTask
    <2>2. CASE tasks[Cur(w)].status \notin Done
      BY <1>0, <2>2 DEF PrepareTask, RunnerType
    <2>. QED
      BY <2>1, <2>2
  <1>7. ValidateDependencies(w) => runner'[w].pc \in {"resolve", "failTask"}
    <2>1. ValidateDependencies(w) => \E pc \in {"resolve", "failTask"} :
              runner'[w] = [runner[w] EXCEPT !.pc = pc]
      BY EarlySlots
    <2>. QED
      BY <1>1, <2>1
  <1>7a. ResolveInputs(w) => runner'[w].pc = "startTask"
    BY <1>0 DEF ResolveInputs, RunnerType
  <1>7b. StartTask(w) => runner'[w].pc = "plan"
    <2>1. StartTask(w) => \E row : runner'[w] =
              [runner[w] EXCEPT !.pc = "plan", !.task = row, !.seenTask = Unread]
      BY EarlySlots
    <2>. QED
      BY <1>0, <2>1 DEF RunnerType
  <1>7c. CreateAndAttachJob(w) => runner'[w].pc = "claim"
    <2>1. CreateAndAttachJob(w) => \E row : runner'[w] =
              [runner[w] EXCEPT !.pc = "claim", !.task = row, !.seenTask = Unread]
      BY LateSlots
    <2>. QED
      BY <1>0, <2>1 DEF RunnerType
  <1>7d. ClaimJob(w) => runner'[w].pc = "job"
    BY <1>1, LateSlots
  <1>8. FinishJob(w) => runner'[w].pc \in {"record", "failTask"}
    <2>1. FinishJob(w) => \E pc \in {"record", "failTask"} :
              runner'[w] = [runner[w] EXCEPT !.pc = pc]
      BY LateSlots
    <2>. QED
      BY <1>1, <2>1
  <1>9. RecordTaskResult(w) => runner'[w].pc \in {"blockTask", "task", "list"}
    <2> SUFFICES ASSUME RecordTaskResult(w) PROVE runner'[w].pc \in {"blockTask", "task", "list"}
      OBVIOUS
    <2>1. PICK recorded \in RunnerType :
              \/ runner'[w] = NextTurn(recorded)
              \/ runner'[w] = [recorded EXCEPT !.pc = "blockTask", !.seenTask = Unread]
      BY RecordedSlot
    <2>2. CASE runner'[w] = NextTurn(recorded)
      BY <2>2, NextTurnType
    <2>3. CASE runner'[w] = [recorded EXCEPT !.pc = "blockTask", !.seenTask = Unread]
      BY <2>3 DEF RunnerType
    <2>. QED
      BY <2>1, <2>2, <2>3
  <1>10. PlanningFails(w) \/ RecordingFails(w) \/ FaultInTask(w) => runner'[w].pc = "failTask"
    <2>1. FaultInTask(w) => \E row : runner'[w] =
              [runner[w] EXCEPT !.pc = "failTask", !.task = row, !.seenTask = Unread]
      BY BrokerSlots
    <2>2. FaultInTask(w) => runner'[w].pc = "failTask"
      BY <1>0, <2>1 DEF RunnerType
    <2>3. PlanningFails(w) \/ RecordingFails(w) => runner'[w].pc = "failTask"
      BY <1>1, EarlySlots, LateSlots
    <2>. QED
      BY <2>2, <2>3
  <1>11. BlockTask(w) \/ FailTask(w) => runner'[w].pc = "list"
    BY <1>0, LateSlots, ListedForm
  <1>12. ListTaskRuns(w) => runner'[w].pc = "save"
    BY <1>0 DEF ListTaskRuns, RunnerType
  <1>13. FinishPipeline(w) => runner'[w].pc \in {"raise", "return"}
    <2>1. FinishPipeline(w) => \E pc \in {"raise", "return"} : runner'[w] = Over(runner[w], pc)
      BY LateSlots
    <2>. QED
      BY <1>o, <2>1
  <1>14. RaiseTask(w) \/ ReturnTask(w) \/ Crash(w) => runner'[w] = IdleRunner
    BY BrokerSlots
  <1>15. FaultInLoop(w) => runner'[w].pc \in {"list", "raise"}
    BY <1>0, <1>o, BrokerSlots, FaultedForm
  <1>16. FaultOutside(w) => runner'[w].pc = "raise"
    BY <1>o, BrokerSlots
  <1>. QED
    BY <1>2, <1>3, <1>4, <1>r, <1>5, <1>6, <1>7, <1>7a, <1>7b, <1>7c, <1>7d, <1>8, <1>9, <1>10,
       <1>11, <1>12, <1>13, <1>14, <1>15, <1>16

\* A step of w's leaves the slots of the other runners alone.
LEMMA OneRunnerMoves ==
    ASSUME TypeInv, NEW w \in Runners, StepOf(w), NEW v \in Runners, v # w
    PROVE  runner'[v] = runner[v]
  <1>0. runner \in [Runners -> RunnerType]
    BY SlotType
  <1>1. CASE \/ LoadRun(w) \/ ReadRunForSave(w) \/ StartPipeline(w) \/ ListTaskRuns(w)
             \/ FinishPipeline(w) \/ PrepareTask(w) \/ ReadTaskForSave(w) \/ SkipTask(w)
             \/ ValidateDependencies(w) \/ ResolveInputs(w)
             \/ StartTask(w) \/ CreateAndAttachJob(w) \/ PlanningFails(w)
    BY <1>0, <1>1 DEF LoadRun, ReadRunForSave, StartPipeline, ListTaskRuns, FinishPipeline,
        PrepareTask, ReadTaskForSave, SkipTask, ValidateDependencies, ResolveInputs, StartTask,
        SaveTask, CreateAndAttachJob, PlanningFails, Goto
  <1>2. CASE \/ ClaimJob(w) \/ FinishJob(w) \/ RecordTaskResult(w) \/ RecordingFails(w)
             \/ BlockTask(w) \/ FailTask(w) \/ RaiseTask(w) \/ ReturnTask(w)
    BY <1>0, <1>2 DEF ClaimJob, FinishJob, RecordTaskResult, RecordingFails, BlockTask, FailTask,
        RaiseTask, ReturnTask, Goto
  <1>3. CASE \/ \E m \in Messages : Deliver(w, m)
             \/ FaultInTask(w) \/ FaultInLoop(w) \/ FaultOutside(w) \/ Crash(w) \/ Redeliver(w)
    BY <1>0, <1>3 DEF Deliver, FaultInTask, FaultInLoop, FaultOutside, Crash, Redeliver, Goto
  <1>. QED
    BY <1>1, <1>2, <1>3 DEF StepOf, RunnerStep

\* A step is one request's, one runner's, or none.
LEMMA PipelineSteps ==
    ASSUME [Next]_vars
    PROVE  \/ \E r \in Requests :
                  \/ ValidateExecutable(r) \/ ReadForQueued(r) \/ MarkQueued(r) \/ SendTask(r)
                  \/ RecordExecution(r) \/ RequestFault(r)
           \/ \E w \in Runners : StepOf(w)
           \/ UNCHANGED vars
  BY DEF Next, Api, RunnerPool, StepOf

-----------------------------------------------------------------------------
(* What the SELECT of a save saw is kept only up to the UPDATE. *)

\* The steps that are not those of a save of the run keep what its SELECT saw
\* only if they are no steps of a slot that is at such a save.
LEMMA SeenRunAfter ==
    ASSUME TypeInv, NEW w \in Runners, StepOf(w)
    PROVE  \/ ReadRunForSave(w) /\ runner'[w] = [runner[w] EXCEPT !.seenRun = run]
           \/ runner'[w].seenRun = Unread
           \/ /\ runner'[w].seenRun = runner[w].seenRun
              /\ runner[w].pc \notin {"start", "save"} \/ runner'[w] = runner[w]
  <1>0. runner[w] \in RunnerType
    BY SlotType
  <1>. DEFINE Goal == \/ ReadRunForSave(w) /\ runner'[w] = [runner[w] EXCEPT !.seenRun = run]
                      \/ runner'[w].seenRun = Unread
                      \/ /\ runner'[w].seenRun = runner[w].seenRun
                         /\ runner[w].pc \notin {"start", "save"} \/ runner'[w] = runner[w]
              Away == runner[w].pc \notin {"start", "save"}
  <1>k. Away /\ runner'[w].seenRun = runner[w].seenRun => Goal
    OBVIOUS
  <1>n. runner'[w].seenRun = Unread => Goal
    OBVIOUS
  <1>r. runner'[w] = runner[w] => Goal
    OBVIOUS
  <1>2. ReadRunForSave(w) => Goal
    BY EarlySlots, Zenon
  <1> SUFFICES Goal
    OBVIOUS
  <1>. HIDE DEF Goal
  <1>a. ASSUME \/ LoadRun(w) \/ PrepareTask(w) \/ SkipTask(w) \/ ValidateDependencies(w)
               \/ ResolveInputs(w) \/ PlanningFails(w) \/ ClaimJob(w) \/ FinishJob(w)
               \/ RecordingFails(w) \/ ListTaskRuns(w) \/ ReadTaskForSave(w)
               \/ StartTask(w) \/ CreateAndAttachJob(w) \/ FaultInTask(w) \/ RecordTaskResult(w)
               \/ BlockTask(w) \/ FailTask(w)
        PROVE  Away
    <2>1. CASE \/ LoadRun(w) \/ PrepareTask(w) \/ SkipTask(w) \/ ValidateDependencies(w)
               \/ ResolveInputs(w) \/ PlanningFails(w) \/ ClaimJob(w) \/ FinishJob(w)
               \/ RecordingFails(w) \/ ListTaskRuns(w) \/ ReadTaskForSave(w)
      BY <2>1 DEF LoadRun, PrepareTask, SkipTask, ValidateDependencies, ResolveInputs, PlanningFails,
             ClaimJob, FinishJob, RecordingFails, ListTaskRuns, ReadTaskForSave, At
    <2>2. CASE \/ StartTask(w) \/ CreateAndAttachJob(w) \/ RecordTaskResult(w)
               \/ BlockTask(w) \/ FailTask(w)
      BY <2>2 DEF StartTask, CreateAndAttachJob, RecordTaskResult, BlockTask, FailTask, At
    <2>3. CASE FaultInTask(w)
      BY <2>3 DEF FaultInTask
    <2>. QED
      BY <1>a, <2>1, <2>2, <2>3
  <1>. HIDE DEF Away
  <1>o. ASSUME NEW pc, runner'[w] = Over(runner[w], pc)
        PROVE  Goal
    BY <1>n, <1>o DEF Over, IdleRunner
  <1>g. ASSUME NEW pc, Away, runner'[w] = [runner[w] EXCEPT !.pc = pc]
        PROVE  Goal
    BY <1>0, <1>g, <1>k DEF RunnerType
  <1>t. ASSUME NEW pc, NEW row, Away,
               runner'[w] = [runner[w] EXCEPT !.pc = pc, !.task = row, !.seenTask = Unread]
        PROVE  Goal
    BY <1>0, <1>t, <1>k DEF RunnerType
  <1>1. CASE \/ LoadRun(w) \/ PrepareTask(w) \/ SkipTask(w)
    <2>1. \/ runner'[w] = Over(runner[w], "raise") \/ runner'[w] = NextTurn(runner[w])
          \/ runner'[w] = [runner[w] EXCEPT !.pc = "start", !.run = run]
          \/ runner'[w] = [runner[w] EXCEPT !.pc = IF Cur(w) \in Skippable THEN "skip" ELSE "deps",
                                            !.task = tasks[Cur(w)]]
      BY <1>1, EarlySlots
    <2>2. CASE runner'[w] = Over(runner[w], "raise")
      BY <1>o, <2>2
    <2>3. CASE runner'[w] # Over(runner[w], "raise")
      <3>1. NextTurn(runner[w]).seenRun = runner[w].seenRun
        BY <1>0, NextTurnForm, Zenon
      <3>2. runner'[w].seenRun = runner[w].seenRun
        BY <1>0, <2>1, <2>3, <3>1 DEF RunnerType
      <3>. QED
        BY <1>1, <1>a, <1>k, <3>2
    <2>. QED
      BY <2>2, <2>3
  <1>3. CASE StartPipeline(w)
    <2>1. runner'[w] = [runner[w] EXCEPT !.pc = "task", !.run = NewRun, !.seenRun = Unread]
      BY <1>3, EarlySlots, Zenon
    <2>. QED
      BY <1>0, <1>n, <2>1 DEF RunnerType
  <1>4. CASE ValidateDependencies(w) \/ PlanningFails(w)
    BY <1>4, <1>a, <1>g, EarlySlots, Zenon
  <1>5. CASE ClaimJob(w) \/ FinishJob(w) \/ RecordingFails(w)
    BY <1>5, <1>a, <1>g, LateSlots, Zenon
  <1>6. CASE ResolveInputs(w) \/ ListTaskRuns(w) \/ ReadTaskForSave(w)
    <2>1. \/ \E inputs : runner'[w] = [runner[w] EXCEPT !.pc = "startTask", !.inputs = inputs]
          \/ \E shot : runner'[w] = [runner[w] EXCEPT !.pc = "save", !.snapshot = shot]
          \/ \E row : runner'[w] = [runner[w] EXCEPT !.seenTask = row]
      <3>1. ResolveInputs(w) => \E inputs :
                runner'[w] = [runner[w] EXCEPT !.pc = "startTask", !.inputs = inputs]
        BY EarlySlots
      <3>2. ListTaskRuns(w) => \E shot :
                runner'[w] = [runner[w] EXCEPT !.pc = "save", !.snapshot = shot]
        BY LateSlots
      <3>3. ReadTaskForSave(w) => \E row : runner'[w] = [runner[w] EXCEPT !.seenTask = row]
        BY EarlySlots
      <3>. QED
        BY <1>6, <3>1, <3>2, <3>3
    <2>2. runner'[w].seenRun = runner[w].seenRun
      BY <1>0, <2>1 DEF RunnerType
    <2>. QED
      BY <1>6, <1>a, <1>k, <2>2
  <1>7. CASE StartTask(w) \/ CreateAndAttachJob(w) \/ FaultInTask(w)
    <2>1. \E pc, row : runner'[w] =
              [runner[w] EXCEPT !.pc = pc, !.task = row, !.seenTask = Unread]
      <3>1. StartTask(w) => \E row : runner'[w] =
                [runner[w] EXCEPT !.pc = "plan", !.task = row, !.seenTask = Unread]
        BY EarlySlots
      <3>2. CreateAndAttachJob(w) => \E row : runner'[w] =
                [runner[w] EXCEPT !.pc = "claim", !.task = row, !.seenTask = Unread]
        BY LateSlots
      <3>3. FaultInTask(w) => \E row : runner'[w] =
                [runner[w] EXCEPT !.pc = "failTask", !.task = row, !.seenTask = Unread]
        BY BrokerSlots
      <3>. QED
        BY <1>7, <3>1, <3>2, <3>3
    <2>2. Away
      BY <1>7, <1>a
    <2>. QED
      BY <1>t, <2>1, <2>2
  <1>10. CASE RecordTaskResult(w)
    <2>1. PICK row \in TaskRow :
              LET recorded == [runner[w] EXCEPT !.task = row]
              IN  /\ recorded \in RunnerType
                  /\ \/ runner'[w] = NextTurn(recorded)
                     \/ runner'[w] = [recorded EXCEPT !.pc = "blockTask", !.seenTask = Unread]
      BY <1>10, RecordedSlot
    <2>. DEFINE recorded == [runner[w] EXCEPT !.task = row]
    <2>2. recorded.seenRun = runner[w].seenRun /\ recorded \in RunnerType
      BY <1>0, <2>1 DEF RunnerType
    <2>3. \/ runner'[w] = NextTurn(recorded)
          \/ runner'[w] = [recorded EXCEPT !.pc = "blockTask", !.seenTask = Unread]
      BY <2>1
    <2>. HIDE DEF recorded
    <2>4. NextTurn(recorded).seenRun = recorded.seenRun
      BY <2>2, NextTurnForm, Zenon
    <2>5. runner'[w].seenRun = runner[w].seenRun
      BY <2>2, <2>3, <2>4 DEF RunnerType
    <2>. QED
      BY <1>10, <1>a, <1>k, <2>5
  <1>11. CASE BlockTask(w) \/ FailTask(w)
    <2>1. PICK final \in {"BLOCKED", "FAILED"} :
              runner'[w] = [TaskOver(runner[w], "list") EXCEPT !.final = final]
      BY <1>11, LateSlots
    <2>2. [TaskOver(runner[w], "list") EXCEPT !.final = final].seenRun = runner[w].seenRun
      BY <1>0, ListedForm, Zenon
    <2>. QED
      BY <1>11, <1>a, <1>k, <2>1, <2>2, Zenon
  <1>12. CASE FinishPipeline(w)
    BY <1>12, <1>o, LateSlots, Zenon
  <1>13. CASE FaultOutside(w) \/ FaultInLoop(w)
    <2>1. [TaskOver(runner[w], "list") EXCEPT !.final = "FAILED", !.seenRun = Unread].seenRun = Unread
      BY <1>0, FaultedForm, Zenon
    <2>. QED
      BY <1>13, <1>n, <1>o, <2>1, BrokerSlots, Zenon
  <1>14. CASE (\E m \in Messages : Deliver(w, m)) \/ RaiseTask(w) \/ ReturnTask(w) \/ Crash(w)
    <2>1. ASSUME NEW m, runner'[w] = [IdleRunner EXCEPT !.pc = "load", !.msg = m]
          PROVE  Goal
      BY <1>n, <2>1 DEF IdleRunner
    <2>2. runner'[w] = IdleRunner => Goal
      BY <1>n DEF IdleRunner
    <2>. QED
      BY <1>14, <2>1, <2>2, BrokerSlots, Zenon
  <1>15. CASE Redeliver(w)
    BY <1>15, <1>r, BrokerSlots, Zenon
  <1>. QED
    BY <1>1, <1>2, <1>3, <1>4, <1>5, <1>6, <1>7, <1>10, <1>11, <1>12, <1>13, <1>14,
       <1>15 DEF StepOf, RunnerStep

\* A SELECT of a save of the run is followed by its UPDATE before anything else.
SeenAtSave == \A w \in Runners : runner[w].seenRun # Unread => runner[w].pc \in {"start", "save"}

LEMMA SeenAtSaveStep == TypeInv /\ SeenAtSave /\ [Next]_vars => SeenAtSave'
  <1> SUFFICES ASSUME TypeInv, SeenAtSave, [Next]_vars PROVE SeenAtSave'
    OBVIOUS
  <1>1. CASE \E r \in Requests :
                 \/ ValidateExecutable(r) \/ ReadForQueued(r) \/ MarkQueued(r) \/ SendTask(r)
                 \/ RecordExecution(r) \/ RequestFault(r)
    BY <1>1 DEF ValidateExecutable, ReadForQueued, MarkQueued, SendTask, RecordExecution,
                RequestFault, SeenAtSave
  <1>2. CASE \E w \in Runners : StepOf(w)
    <2>1. PICK w \in Runners : StepOf(w)
      BY <1>2
    <2>2. runner[w] \in RunnerType
      BY SlotType
    <2>3. \A v \in Runners : v # w => runner'[v] = runner[v]
      BY <2>1, OneRunnerMoves
    <2>4. runner'[w].seenRun # Unread => runner'[w].pc \in {"start", "save"}
      <3>1. CASE ReadRunForSave(w) /\ runner'[w] = [runner[w] EXCEPT !.seenRun = run]
        BY <2>2, <3>1 DEF ReadRunForSave, RunnerType
      <3>2. CASE /\ runner'[w].seenRun = runner[w].seenRun
                 /\ runner[w].pc \notin {"start", "save"} \/ runner'[w] = runner[w]
        BY <3>2 DEF SeenAtSave
      <3>. QED
        BY <2>1, <3>1, <3>2, SeenRunAfter
    <2>. QED
      BY <2>3, <2>4 DEF SeenAtSave
  <1>3. CASE UNCHANGED vars
    BY <1>3 DEF vars, SeenAtSave
  <1>. QED
    BY <1>1, <1>2, <1>3, PipelineSteps

-----------------------------------------------------------------------------
(* No orphans without failures: the worker that makes a run RUNNING, or    *)
(* finds it so, stays at work until its final save gives the run another   *)
(* status; only an error or a crash takes it away before.  Of two workers  *)
(* the last save may leave the status alone, because its SELECT saw the    *)
(* other's final status: so the one that is needed has not seen that.      *)

Active(w) == runner[w].pc \in ActivePcs
Needed(w) == Active(w) /\ (runner[w].seenRun # Unread => runner[w].seenRun.status = "RUNNING")
Orphaned == run.status = "RUNNING" /\ ~(\E w \in Runners : Needed(w))
OrphanInv == SeenAtSave /\ (Orphaned => faults + crashes > 0)

\* The steps after which w is at work, whatever the status of the run is.
LEMMA StaysActive ==
    ASSUME TypeInv, SeenAtSave, NEW w \in Runners,
           \/ StartPipeline(w) \/ ListTaskRuns(w)
           \/ PrepareTask(w) \/ ReadTaskForSave(w) \/ SkipTask(w) \/ ValidateDependencies(w)
           \/ ResolveInputs(w) \/ StartTask(w) \/ CreateAndAttachJob(w) \/ PlanningFails(w)
           \/ ClaimJob(w) \/ FinishJob(w) \/ RecordTaskResult(w) \/ RecordingFails(w)
           \/ BlockTask(w) \/ FailTask(w)
    PROVE  Needed(w)'
  <1>0. runner[w] \in RunnerType
    BY SlotType
  <1>1. Active(w)'
    <2>1. CASE ReadTaskForSave(w)
      BY <2>1, StepTargets DEF ReadTaskForSave, Active, ActivePcs
    <2>2. CASE ~ReadTaskForSave(w)
      BY <2>2, StepTargets DEF Active, ActivePcs
    <2>. QED
      BY <2>1, <2>2
  <1>2. ~ReadRunForSave(w) \/ runner'[w].pc \in {"start", "save"}
    BY StepTargets DEF ReadRunForSave
  <1>3. runner'[w].seenRun = Unread
    <2>1. CASE StartPipeline(w)
      <3>1. runner'[w] = [runner[w] EXCEPT !.pc = "task", !.run = NewRun, !.seenRun = Unread]
        BY <2>1, EarlySlots
      <3>. QED
        BY <1>0, <3>1 DEF RunnerType
    <2>2. CASE ~StartPipeline(w)
      <3>1. runner[w].pc \notin {"start", "save"}
        BY <2>2 DEF ListTaskRuns, PrepareTask, ReadTaskForSave, SkipTask, ValidateDependencies,
                    ResolveInputs, StartTask, CreateAndAttachJob, PlanningFails, ClaimJob,
                    FinishJob, RecordTaskResult, RecordingFails, BlockTask, FailTask, At
      <3>2. ~ReadRunForSave(w) /\ runner[w].seenRun = Unread
        BY <3>1 DEF ReadRunForSave, SeenAtSave
      <3>. QED
        BY <3>2, SeenRunAfter DEF StepOf, RunnerStep
    <2>. QED
      BY <2>1, <2>2
  <1>. QED
    BY <1>1, <1>3 DEF Needed

\* A step of w's that leaves the run, or its status, alone can take no other
\* runner away from its work.
LEMMA OthersStayNeeded ==
    ASSUME TypeInv, OrphanInv, NEW w \in Runners, StepOf(w),
           run'.status = "RUNNING" => run.status = "RUNNING",
           Needed(w) /\ run.status = "RUNNING" => Needed(w)',
           UNCHANGED <<faults, crashes>>
    PROVE  Orphaned' => faults' + crashes' > 0
  <1>1. \A v \in Runners : v # w => runner'[v] = runner[v]
    BY OneRunnerMoves
  <1>2. \A v \in Runners : Needed(v) /\ run.status = "RUNNING" => Needed(v)'
    BY <1>1 DEF Needed, Active
  <1>. QED
    BY <1>2 DEF OrphanInv, Orphaned

\* Every step keeps the invariant.
LEMMA OrphanStep == TypeInv /\ OrphanInv /\ [Next]_vars => OrphanInv'
  <1> SUFFICES ASSUME TypeInv, OrphanInv, [Next]_vars PROVE OrphanInv'
    OBVIOUS
  <1>0. /\ faults \in Nat /\ crashes \in Nat
        /\ request \in [Requests -> RequestType] /\ run \in RunRow
    BY DEF TypeInv, TypeOK, RequestType
  <1>s. SeenAtSave /\ SeenAtSave'
    BY SeenAtSaveStep DEF OrphanInv
  <1>1. CASE \E r \in Requests :
                 \/ ValidateExecutable(r) \/ ReadForQueued(r) \/ MarkQueued(r) \/ SendTask(r)
                 \/ RecordExecution(r) \/ RequestFault(r)
    <2>1. PICK r \in Requests :
                 \/ ValidateExecutable(r) \/ ReadForQueued(r) \/ MarkQueued(r) \/ SendTask(r)
                 \/ RecordExecution(r) \/ RequestFault(r)
      BY <1>1
    <2>2. UNCHANGED <<runner, crashes>> /\ faults' \in {faults, faults + 1}
      BY <2>1 DEF ValidateExecutable, ReadForQueued, MarkQueued, SendTask, RecordExecution,
                  RequestFault
    <2>3. run'.status = "RUNNING" => run.status = "RUNNING"
      <3>1. CASE MarkQueued(r)
        <4>. DEFINE new == [request[r].copy EXCEPT !.status = "QUEUED"]
                    seen == request[r].seen
        <4>1. new \in RunRow /\ new.status = "QUEUED" /\ seen \in RunRow
          BY <1>0, <3>1 DEF MarkQueued, RequestType, RunRow, RunStatus
        <4>2. run' \in SavedRun(new, seen)
          BY <3>1 DEF MarkQueued
        <4>. HIDE DEF new, seen
        <4>3. run'.status \in {new.status, run.status}
          BY <1>0, <4>1, <4>2, SavedRunType
        <4>. QED
          BY <4>1, <4>3
      <3>2. CASE ~MarkQueued(r)
        BY <2>1, <3>2 DEF ValidateExecutable, ReadForQueued, SendTask, RecordExecution, RequestFault
      <3>. QED
        BY <3>1, <3>2
    <2>4. Orphaned' => Orphaned
      BY <2>2, <2>3 DEF Orphaned, Needed, Active
    <2>5. faults + crashes > 0 => faults' + crashes' > 0
      <3>1. crashes' = crashes
        BY <2>2
      <3>2. CASE faults' = faults
        BY <3>1, <3>2
      <3>3. CASE faults' = faults + 1
        BY <1>0, <3>1, <3>3
      <3>. QED
        BY <2>2, <3>2, <3>3
    <2>. QED
      BY <1>s, <2>4, <2>5 DEF OrphanInv
  <1>2. CASE \E w \in Runners : StepOf(w)
    <2>1. PICK w \in Runners : StepOf(w)
      BY <1>2
    <2>2. runner[w] \in RunnerType
      BY SlotType
    <2>3. CASE \/ \E m \in Messages : Deliver(w, m)
               \/ LoadRun(w) \/ RaiseTask(w) \/ ReturnTask(w)
      <3>1. runner[w].pc \in {"idle", "load", "raise", "return"}
        BY <2>3 DEF Deliver, LoadRun, RaiseTask, ReturnTask, At
      <3>2. ~Needed(w)
        BY <3>1 DEF Needed, Active, ActivePcs
      <3>3. UNCHANGED <<run, faults, crashes>>
        BY <2>3 DEF Deliver, LoadRun, RaiseTask, ReturnTask, Env
      <3>. QED
        BY <1>s, <2>1, <3>2, <3>3, OthersStayNeeded DEF OrphanInv
    <2>4. CASE FinishPipeline(w)
      <3>. DEFINE new == [status |-> runner[w].final, result |-> runner[w].snapshot]
                  seen == runner[w].seenRun
      <3>1. new \in RunRow /\ new.status # "RUNNING" /\ seen \in RunRow /\ seen # Unread
        BY <2>2, <2>4 DEF FinishPipeline, RunnerType, RunRow, RunStatus
      <3>2. run' \in SavedRun(new, seen)
        BY <2>4 DEF FinishPipeline
      <3>. HIDE DEF new
      <3>3. /\ run'.status \in {new.status, run.status}
            /\ new.status # seen.status => run'.status = new.status
        BY <1>0, <3>1, <3>2, SavedRunType
      <3>4. run'.status = "RUNNING" => run.status = "RUNNING" /\ ~Needed(w)
        BY <3>1, <3>3 DEF Needed
      <3>5. UNCHANGED <<faults, crashes>>
        BY <2>4 DEF FinishPipeline, Env
      <3>6. CASE run'.status = "RUNNING"
        BY <1>s, <2>1, <3>4, <3>5, <3>6, OthersStayNeeded DEF OrphanInv
      <3>7. CASE run'.status # "RUNNING"
        BY <1>s, <3>7 DEF OrphanInv, Orphaned
      <3>. QED
        BY <3>6, <3>7
    <2>5. CASE ReadRunForSave(w)
      <3>1. runner'[w] = [runner[w] EXCEPT !.seenRun = run]
        BY <2>5, EarlySlots
      <3>2. Needed(w) /\ run.status = "RUNNING" => Needed(w)'
        BY <2>2, <3>1 DEF Needed, Active, RunnerType
      <3>3. UNCHANGED <<run, faults, crashes>>
        BY <2>5 DEF ReadRunForSave, Env
      <3>. QED
        BY <1>s, <2>1, <3>2, <3>3, OthersStayNeeded DEF OrphanInv
    <2>6. CASE RunnerStep(w) /\ ~FinishPipeline(w) /\ ~ReadRunForSave(w)
               /\ ~(LoadRun(w) \/ RaiseTask(w) \/ ReturnTask(w))
      <3>1. Needed(w)'
        BY <1>s, <2>6, StaysActive DEF RunnerStep
      <3>. QED
        BY <1>s, <3>1 DEF OrphanInv, Orphaned
    <2>7. CASE FaultInTask(w) \/ FaultInLoop(w) \/ FaultOutside(w) \/ Crash(w)
      <3>1. \/ faults' = faults + 1 /\ crashes' = crashes
            \/ crashes' = crashes + 1 /\ faults' = faults
        <4>1. FaultInTask(w) => faults' = faults + 1 /\ crashes' = crashes
          BY DEF FaultInTask
        <4>2. FaultInLoop(w) \/ FaultOutside(w) => faults' = faults + 1 /\ crashes' = crashes
          BY DEF FaultInLoop, FaultOutside
        <4>3. Crash(w) => crashes' = crashes + 1 /\ faults' = faults
          BY DEF Crash
        <4>. QED
          BY <2>7, <4>1, <4>2, <4>3
      <3>2. faults' + crashes' > 0
        BY <1>0, <3>1
      <3>. QED
        BY <1>s, <3>2 DEF OrphanInv
    <2>8. CASE Redeliver(w)
      <3>1. UNCHANGED <<run, runner, faults, crashes>>
        BY <2>8 DEF Redeliver
      <3>. QED
        BY <1>s, <3>1 DEF OrphanInv, Orphaned, Needed, Active
    <2>. QED
      BY <2>1, <2>3, <2>4, <2>5, <2>6, <2>7, <2>8 DEF StepOf, RunnerStep
  <1>3. CASE UNCHANGED vars
    BY <1>s, <1>3 DEF vars, OrphanInv, Orphaned, Needed, Active
  <1>. QED
    BY <1>1, <1>2, <1>3, PipelineSteps

\* Whatever clients, retries and redeliveries do, and however many runners
\* are at work on the run, a run is RUNNING with no runner at work on it only
\* after an error or a crash (PipelineRunner.run's final saves).
THEOREM OrphansNeedFailures == Spec => []OrphanOnlyAfterFailure
  <1>1. Init => OrphanInv
    BY DEF Init, NewRun, OrphanInv, Orphaned, SeenAtSave, IdleRunner
  <1>2. OrphanInv => OrphanOnlyAfterFailure
    BY DEF OrphanInv, Orphaned, Needed, Active, OrphanOnlyAfterFailure
  <1>. QED
    BY <1>1, <1>2, PipelineInitType, PipelineNextType, OrphanStep, PTL DEF Spec


-----------------------------------------------------------------------------
(* The invariant for any client: results come from jobs that SUCCEEDED,    *)
(* inputs too, and a runner between the planning and the recording of a    *)
(* task holds a job of that task which is in the state the runner's own    *)
(* steps left it in and which no other runner holds.                       *)

SucceededJob(j, t) == j \in DOMAIN jobs /\ jobs[j].task = t /\ jobs[j].status = "SUCCEEDED"

\* A result in a row of task t, or in a copy of one.
CameFrom(t, result) == result.job # 0 => SucceededJob(result.job, t)

InputsOK(t, inputs) ==
    \A d \in Tasks : inputs[d] # 0 => d \in DependsOn[t] /\ SucceededJob(inputs[d], d)

SlotOK(w) ==
    /\ runner[w].pc \in {"startTask", "plan"} => InputsOK(Cur(w), runner[w].inputs)
    /\ runner[w].pc \in JobPcs => jobs[runner[w].task.job].task = Cur(w)
    /\ runner[w].pc = "claim" => jobs[runner[w].task.job].status = "PENDING"
    /\ runner[w].pc = "job" => jobs[runner[w].task.job].status = "RUNNING"
    /\ runner[w].pc = "record" => jobs[runner[w].task.job].status = "SUCCEEDED"

OwnJobs ==
    \A v, w \in Runners :
        v # w /\ runner[v].pc \in JobPcs /\ runner[w].pc \in JobPcs
            => runner[v].task.job # runner[w].task.job

RowsInv ==
    /\ \A t \in Tasks : CameFrom(t, tasks[t].result)
    /\ \A w \in Runners : CameFrom(Cur(w), runner[w].task.result)
    /\ \A j \in DOMAIN jobs : InputsOK(jobs[j].task, jobs[j].inputs)
    /\ \A w \in Runners : SlotOK(w)
    /\ OwnJobs

\* Only six steps of a runner's write task rows, and four write jobs.
LEMMA WritesElse ==
    ASSUME NEW w \in Runners, StepOf(w)
    PROVE  /\ ~(\/ SkipTask(w) \/ StartTask(w) \/ CreateAndAttachJob(w) \/ RecordTaskResult(w)
                \/ BlockTask(w) \/ FailTask(w)) => UNCHANGED tasks
           /\ ~(CreateAndAttachJob(w) \/ ClaimJob(w) \/ FinishJob(w) \/ FaultInTask(w))
                  => UNCHANGED jobs
           /\ ~(StartPipeline(w) \/ FinishPipeline(w)) => UNCHANGED run
  <1>1. CASE \/ LoadRun(w) \/ ReadRunForSave(w) \/ StartPipeline(w) \/ ListTaskRuns(w)
             \/ FinishPipeline(w) \/ PrepareTask(w) \/ ReadTaskForSave(w) \/ SkipTask(w)
             \/ ValidateDependencies(w) \/ ResolveInputs(w)
             \/ StartTask(w) \/ CreateAndAttachJob(w) \/ PlanningFails(w)
    BY <1>1 DEF LoadRun, ReadRunForSave, StartPipeline, ListTaskRuns, FinishPipeline,
        PrepareTask, ReadTaskForSave, SkipTask, ValidateDependencies, ResolveInputs, StartTask,
        CreateAndAttachJob, PlanningFails
  <1>2. CASE \/ ClaimJob(w) \/ FinishJob(w) \/ RecordTaskResult(w) \/ RecordingFails(w)
             \/ BlockTask(w) \/ FailTask(w) \/ RaiseTask(w) \/ ReturnTask(w)
    BY <1>2 DEF ClaimJob, FinishJob, RecordTaskResult, RecordingFails, BlockTask, FailTask,
        RaiseTask, ReturnTask
  <1>3. CASE \/ \E m \in Messages : Deliver(w, m)
             \/ FaultInTask(w) \/ FaultInLoop(w) \/ FaultOutside(w) \/ Crash(w) \/ Redeliver(w)
    BY <1>3 DEF Deliver, FaultInTask, FaultInLoop, FaultOutside, Crash, Redeliver
  <1>. QED
    BY <1>1, <1>2, <1>3 DEF StepOf, RunnerStep

-----------------------------------------------------------------------------
(* Where the results come from that a step of w's leaves in the copy of the *)
(* task row, and in the row: whatever columns a save writes, it is the one  *)
(* of the copy, that of the row, none, or that of the job to be recorded.   *)

Source(w, result) ==
    \/ result = runner[w].task.result \/ result = tasks[Cur(w)].result \/ result.job = 0
    \/ At(w, "record") /\ result.job = runner[w].task.job

LEMMA SavedSource ==
    ASSUME NEW w, NEW new, Source(w, new.result)
    PROVE  Source(w, SavedRow(w, new).result)
  <1>1. SavedRow(w, new).result \in {new.result, tasks[Cur(w)].result}
    BY DEF SavedRow, SavedTask, Column
  <1>2. Source(w, tasks[Cur(w)].result)
    BY DEF Source
  <1>. QED
    BY <1>1, <1>2

\* What the steps put into the rows they save, or keep when they fail to.
LEMMA NewSource ==
    ASSUME TypeInv, NEW w \in Runners
    PROVE  /\ \A status : Source(w, [runner[w].task EXCEPT !.status = status].result)
           /\ \A job : Source(w, [runner[w].task EXCEPT !.job = job].result)
           /\ Source(w, [runner[w].task EXCEPT !.status = "SKIPPED", !.result = SkippedResult].result)
           /\ At(w, "record") => Source(w, RecordedRow(runner[w].task).result)
           /\ \A row \in Unsaved(w) : Source(w, row.result)
  <1>0. runner[w].task \in TaskRow
    BY SlotType
  <1>1. \A status : [runner[w].task EXCEPT !.status = status].result = runner[w].task.result
    BY <1>0 DEF TaskRow
  <1>2. \A job : [runner[w].task EXCEPT !.job = job].result = runner[w].task.result
    BY <1>0 DEF TaskRow
  <1>3. [runner[w].task EXCEPT !.status = "SKIPPED", !.result = SkippedResult].result.job = 0
    BY <1>0 DEF TaskRow, SkippedResult
  <1>4. RecordedRow(runner[w].task).result.job = runner[w].task.job
    BY <1>0 DEF RecordedRow, TaskRow
  <1>5. At(w, "record") => Source(w, RecordedRow(runner[w].task).result)
    BY <1>4 DEF Source
  <1>6. ASSUME NEW row \in Unsaved(w) PROVE Source(w, row.result)
    <2>1. CASE At(w, "startTask")
      <3>1. row = [runner[w].task EXCEPT !.status = "RUNNING"]
        BY <1>6, <2>1 DEF Unsaved, At
      <3>2. row.result = runner[w].task.result
        BY <1>0, <3>1 DEF TaskRow
      <3>. QED
        BY <3>2 DEF Source
    <2>2. CASE At(w, "plan")
      <3>1. row = runner[w].task \/ row = [runner[w].task EXCEPT !.job = 0]
        BY <1>6, <2>2 DEF Unsaved, At
      <3>. QED
        BY <1>2, <3>1 DEF Source
    <2>3. CASE At(w, "record")
      <3>1. row = RecordedRow(runner[w].task)
        BY <1>6, <2>3 DEF Unsaved, At
      <3>. QED
        BY <1>5, <2>3, <3>1
    <2>4. CASE ~At(w, "startTask") /\ ~At(w, "plan") /\ ~At(w, "record")
      <3>1. row = runner[w].task
        BY <1>6, <2>4 DEF Unsaved
      <3>. QED
        BY <3>1 DEF Source
    <2>. QED
      BY <2>1, <2>2, <2>3, <2>4
  <1>7. /\ \A status : Source(w, [runner[w].task EXCEPT !.status = status].result)
        /\ \A job : Source(w, [runner[w].task EXCEPT !.job = job].result)
        /\ Source(w, [runner[w].task EXCEPT !.status = "SKIPPED", !.result = SkippedResult].result)
    BY <1>1, <1>2, <1>3 DEF Source
  <1>. QED
    BY <1>5, <1>6, <1>7

LEMMA RowAfter ==
    ASSUME TypeInv, NEW w \in Runners, StepOf(w)
    PROVE  \A t \in Tasks : tasks'[t] = tasks[t] \/ (t = Cur(w) /\ Source(w, tasks'[t].result))
  <1>0. Cur(w) \in Tasks /\ tasks \in [Tasks -> TaskRow]
    BY SlotType
  <1>1. ASSUME NEW new, Source(w, new.result), tasks' = [tasks EXCEPT ![Cur(w)] = SavedRow(w, new)]
        PROVE  \A t \in Tasks : tasks'[t] = tasks[t] \/ (t = Cur(w) /\ Source(w, tasks'[t].result))
    <2>1. Source(w, SavedRow(w, new).result)
      BY <1>1, SavedSource
    <2>2. tasks'[Cur(w)] = SavedRow(w, new) /\ \A t \in Tasks \ {Cur(w)} : tasks'[t] = tasks[t]
      BY <1>0, <1>1
    <2>. QED
      BY <2>1, <2>2
  <1>2. CASE SkipTask(w)
    <2>. DEFINE new == [runner[w].task EXCEPT !.status = "SKIPPED", !.result = SkippedResult]
    <2>1. Source(w, new.result) /\ tasks' = [tasks EXCEPT ![Cur(w)] = SavedRow(w, new)]
      BY <1>2, NewSource DEF SkipTask
    <2>. HIDE DEF new
    <2>. QED
      BY <1>1, <2>1
  <1>3. CASE CreateAndAttachJob(w)
    <2>. DEFINE new == [runner[w].task EXCEPT !.job = Len(jobs')]
    <2>1. Source(w, new.result) /\ tasks' = [tasks EXCEPT ![Cur(w)] = SavedRow(w, new)]
      BY <1>3, NewSource DEF CreateAndAttachJob, SaveTask
    <2>. HIDE DEF new
    <2>. QED
      BY <1>1, <2>1
  <1>4. CASE RecordTaskResult(w)
    <2>. DEFINE new == RecordedRow(runner[w].task)
    <2>1. Source(w, new.result) /\ tasks' = [tasks EXCEPT ![Cur(w)] = SavedRow(w, new)]
      BY <1>4, NewSource DEF RecordTaskResult
    <2>. HIDE DEF new
    <2>. QED
      BY <1>1, <2>1
  <1>5. CASE StartTask(w) \/ BlockTask(w) \/ FailTask(w)
    <2>1. PICK status \in {"RUNNING", "BLOCKED", "FAILED"} : tasks' = [tasks EXCEPT ![Cur(w)] =
              SavedRow(w, [runner[w].task EXCEPT !.status = status])]
      BY <1>5 DEF StartTask, SaveTask, BlockTask, FailTask
    <2>. DEFINE new == [runner[w].task EXCEPT !.status = status]
    <2>2. Source(w, new.result) /\ tasks' = [tasks EXCEPT ![Cur(w)] = SavedRow(w, new)]
      BY <2>1, NewSource
    <2>. HIDE DEF new
    <2>. QED
      BY <1>1, <2>2
  <1>6. CASE ~(\/ SkipTask(w) \/ StartTask(w) \/ CreateAndAttachJob(w) \/ RecordTaskResult(w)
               \/ BlockTask(w) \/ FailTask(w))
    BY <1>6, WritesElse
  <1>. QED
    BY <1>2, <1>3, <1>4, <1>5, <1>6

LEMMA CopyAfter ==
    ASSUME TypeInv, NEW w \in Runners, StepOf(w)
    PROVE  \/ runner'[w].task = NewTask
           \/ runner'[w].cur = Cur(w) /\ Source(w, runner'[w].task.result)
  <1>0. runner[w] \in RunnerType
    BY SlotType
  <1>. DEFINE Goal == \/ runner'[w].task = NewTask
                      \/ runner'[w].cur = Cur(w) /\ Source(w, runner'[w].task.result)
  <1> SUFFICES Goal
    OBVIOUS
  <1>n. runner'[w].task = NewTask => Goal
    OBVIOUS
  <1>s. runner'[w].cur = Cur(w) /\ Source(w, runner'[w].task.result) => Goal
    OBVIOUS
  <1>. HIDE DEF Goal
  <1>k. runner'[w].cur = Cur(w) /\ runner'[w].task = runner[w].task => Goal
    BY <1>s DEF Source
  <1>r. runner'[w] = runner[w] => Goal
    BY <1>k DEF Cur
  <1>o. ASSUME NEW pc, runner'[w] = Over(runner[w], pc)
        PROVE  Goal
    BY <1>n, <1>o DEF Over, IdleRunner
  <1>g. ASSUME NEW pc, runner'[w] = [runner[w] EXCEPT !.pc = pc]
        PROVE  Goal
    BY <1>0, <1>g, <1>k DEF RunnerType, Cur
  <1>t. ASSUME NEW pc, NEW row, Source(w, row.result),
               runner'[w] = [runner[w] EXCEPT !.pc = pc, !.task = row, !.seenTask = Unread]
        PROVE  Goal
    <2>1. runner'[w].cur = Cur(w) /\ runner'[w].task = row
      BY <1>0, <1>t DEF RunnerType, Cur
    <2>. QED
      BY <1>t, <1>s, <2>1
  <1>e. ASSUME NextTurn(runner[w]) = runner'[w]
        PROVE  Goal
    <2>1. NextTurn(runner[w]).task = NewTask
      BY <1>0, NextTurnForm, Zenon
    <2>. QED
      BY <1>e, <1>n, <2>1
  <1>1. CASE LoadRun(w) \/ ReadRunForSave(w) \/ StartPipeline(w)
    <2>1. \/ runner'[w] = Over(runner[w], "raise")
          \/ runner'[w] = [runner[w] EXCEPT !.pc = "start", !.run = run]
          \/ runner'[w] = [runner[w] EXCEPT !.seenRun = run]
          \/ runner'[w] = [runner[w] EXCEPT !.pc = "task", !.run = NewRun, !.seenRun = Unread]
      BY <1>1, EarlySlots
    <2>2. CASE runner'[w] = Over(runner[w], "raise")
      BY <1>o, <2>2
    <2>3. CASE runner'[w] # Over(runner[w], "raise")
      <3>1. runner'[w].cur = Cur(w) /\ runner'[w].task = runner[w].task
        BY <1>0, <2>1, <2>3 DEF RunnerType, Cur
      <3>. QED
        BY <1>k, <3>1
    <2>. QED
      BY <2>2, <2>3
  <1>2. CASE ResolveInputs(w) \/ ListTaskRuns(w) \/ ReadTaskForSave(w)
    <2>1. \/ \E inputs : runner'[w] = [runner[w] EXCEPT !.pc = "startTask", !.inputs = inputs]
          \/ \E shot : runner'[w] = [runner[w] EXCEPT !.pc = "save", !.snapshot = shot]
          \/ \E row : runner'[w] = [runner[w] EXCEPT !.seenTask = row]
      <3>1. ResolveInputs(w) => \E inputs :
                runner'[w] = [runner[w] EXCEPT !.pc = "startTask", !.inputs = inputs]
        BY EarlySlots
      <3>2. ListTaskRuns(w) => \E shot :
                runner'[w] = [runner[w] EXCEPT !.pc = "save", !.snapshot = shot]
        BY LateSlots
      <3>3. ReadTaskForSave(w) => \E row : runner'[w] = [runner[w] EXCEPT !.seenTask = row]
        BY EarlySlots
      <3>. QED
        BY <1>2, <3>1, <3>2, <3>3
    <2>2. runner'[w].cur = Cur(w) /\ runner'[w].task = runner[w].task
      BY <1>0, <2>1 DEF RunnerType, Cur
    <2>. QED
      BY <1>k, <2>2
  <1>3. CASE ValidateDependencies(w) \/ PlanningFails(w)
    BY <1>3, <1>g, EarlySlots, Zenon
  <1>4. CASE ClaimJob(w) \/ FinishJob(w) \/ RecordingFails(w)
    BY <1>4, <1>g, LateSlots, Zenon
  <1>5. CASE PrepareTask(w)
    <2>1. \/ runner'[w] = NextTurn(runner[w])
          \/ \E pc : runner'[w] = [runner[w] EXCEPT !.pc = pc, !.task = tasks[Cur(w)]]
      <3>1. runner'[w] = IF tasks[Cur(w)].status \in Done THEN NextTurn(runner[w])
                  ELSE [runner[w] EXCEPT !.pc = IF Cur(w) \in Skippable THEN "skip" ELSE "deps",
                                         !.task = tasks[Cur(w)]]
        BY <1>5, EarlySlots, Zenon
      <3>. QED
        BY <3>1
    <2>2. ASSUME NEW pc, runner'[w] = [runner[w] EXCEPT !.pc = pc, !.task = tasks[Cur(w)]]
          PROVE  Goal
      <3>1. runner'[w].cur = Cur(w) /\ runner'[w].task = tasks[Cur(w)]
        BY <1>0, <2>2 DEF RunnerType, Cur
      <3>. QED
        BY <1>s, <3>1 DEF Source
    <2>. QED
      BY <1>e, <2>1, <2>2
  <1>6. CASE SkipTask(w)
    BY <1>6, <1>e, EarlySlots, Zenon
  <1>7. CASE StartTask(w)
    <2>. DEFINE new == [runner[w].task EXCEPT !.status = "RUNNING"]
    <2>1. Source(w, new.result)
      BY NewSource
    <2>2. runner'[w] = [runner[w] EXCEPT !.pc = "plan", !.task = SavedRow(w, new), !.seenTask = Unread]
      BY <1>7, EarlySlots, Zenon
    <2>. HIDE DEF new
    <2>. QED
      BY <1>t, <2>1, <2>2, SavedSource
  <1>8. CASE CreateAndAttachJob(w)
    <2>. DEFINE new == [runner[w].task EXCEPT !.job = Len(jobs')]
    <2>1. Source(w, new.result)
      BY NewSource
    <2>2. runner'[w] = [runner[w] EXCEPT !.pc = "claim", !.task = SavedRow(w, new), !.seenTask = Unread]
      BY <1>8, LateSlots, Zenon
    <2>. HIDE DEF new
    <2>. QED
      BY <1>t, <2>1, <2>2, SavedSource
  <1>9. CASE FaultInTask(w)
    <2>1. PICK row \in Unsaved(w) : runner'[w] =
              [runner[w] EXCEPT !.pc = "failTask", !.task = row, !.seenTask = Unread]
      BY <1>9, BrokerSlots, Zenon
    <2>. QED
      BY <1>t, <2>1, NewSource
  <1>10. CASE RecordTaskResult(w)
    <2>1. PICK row \in TaskRow :
              LET recorded == [runner[w] EXCEPT !.task = row]
              IN  /\ row = SavedRow(w, RecordedRow(runner[w].task)) /\ recorded \in RunnerType
                  /\ \/ runner'[w] = NextTurn(recorded)
                     \/ runner'[w] = [recorded EXCEPT !.pc = "blockTask", !.seenTask = Unread]
      BY <1>10, RecordedSlot
    <2>. DEFINE recorded == [runner[w] EXCEPT !.task = row]
    <2>2. recorded \in RunnerType /\ recorded.task = row /\ recorded.cur = Cur(w)
      BY <1>0, <2>1 DEF RunnerType, Cur
    <2>3. \/ runner'[w] = NextTurn(recorded)
          \/ runner'[w] = [recorded EXCEPT !.pc = "blockTask", !.seenTask = Unread]
      BY <2>1
    <2>. HIDE DEF recorded
    <2>4. CASE runner'[w] = NextTurn(recorded)
      <3>1. NextTurn(recorded).task = NewTask
        BY <2>2, NextTurnForm, Zenon
      <3>. QED
        BY <1>n, <2>4, <3>1
    <2>5. CASE runner'[w] = [recorded EXCEPT !.pc = "blockTask", !.seenTask = Unread]
      <3>1. runner'[w].cur = Cur(w) /\ runner'[w].task = row
        BY <2>2, <2>5 DEF RunnerType
      <3>2. Source(w, row.result)
        BY <1>10, <2>1, NewSource, SavedSource DEF RecordTaskResult
      <3>. QED
        BY <1>s, <3>1, <3>2
    <2>. QED
      BY <2>3, <2>4, <2>5
  <1>11. CASE BlockTask(w) \/ FailTask(w)
    <2>1. PICK final \in {"BLOCKED", "FAILED"} :
              runner'[w] = [TaskOver(runner[w], "list") EXCEPT !.final = final]
      BY <1>11, LateSlots
    <2>2. [TaskOver(runner[w], "list") EXCEPT !.final = final].task = NewTask
      BY <1>0, ListedForm, Zenon
    <2>. QED
      BY <1>n, <2>1, <2>2, Zenon
  <1>12. CASE FinishPipeline(w)
    BY <1>12, <1>o, LateSlots, Zenon
  <1>13. CASE FaultOutside(w) \/ FaultInLoop(w)
    <2>1. [TaskOver(runner[w], "list") EXCEPT !.final = "FAILED", !.seenRun = Unread].task = NewTask
      BY <1>0, FaultedForm, Zenon
    <2>. QED
      BY <1>13, <1>n, <1>o, <2>1, BrokerSlots, Zenon
  <1>14. CASE (\E m \in Messages : Deliver(w, m)) \/ RaiseTask(w) \/ ReturnTask(w) \/ Crash(w)
    <2>1. ASSUME NEW m, runner'[w] = [IdleRunner EXCEPT !.pc = "load", !.msg = m]
          PROVE  Goal
      BY <1>n, <2>1 DEF IdleRunner
    <2>2. runner'[w] = IdleRunner => Goal
      BY <1>n DEF IdleRunner
    <2>. QED
      BY <1>14, <2>1, <2>2, BrokerSlots, Zenon
  <1>15. CASE Redeliver(w)
    BY <1>15, <1>r, BrokerSlots, Zenon
  <1>. QED
    BY <1>1, <1>2, <1>3, <1>4, <1>5, <1>6, <1>7, <1>8, <1>9, <1>10, <1>11, <1>12, <1>13, <1>14,
       <1>15 DEF StepOf, RunnerStep

\* What no step does to the jobs there are.
JobsKept ==
    /\ DOMAIN jobs \subseteq DOMAIN jobs'
    /\ \A j \in DOMAIN jobs :
          /\ jobs'[j].task = jobs[j].task /\ jobs'[j].inputs = jobs[j].inputs
          /\ jobs[j].status = "SUCCEEDED" => jobs'[j] = jobs[j]

\* A job that SUCCEEDED stays so.
LEMMA SucceededJobKept ==
    ASSUME JobsKept, NEW j, NEW t, SucceededJob(j, t)
    PROVE  SucceededJob(j, t)' /\ jobs'[j] = jobs[j]
  BY DEF JobsKept, SucceededJob

\* Inputs that were good stay good.
LEMMA InputsKept ==
    ASSUME JobsKept, NEW t, NEW inputs, InputsOK(t, inputs)
    PROVE  InputsOK(t, inputs)'
  BY SucceededJobKept DEF InputsOK

\* So do results.
LEMMA ResultKept ==
    ASSUME JobsKept, NEW t, NEW result, CameFrom(t, result)
    PROVE  result.job # 0 => /\ result.job \in DOMAIN jobs' /\ jobs'[result.job].task = t
                             /\ jobs'[result.job].status = "SUCCEEDED"
  BY DEF JobsKept, CameFrom, SucceededJob

\* What the runner has in hand is good to be saved.
LEMMA SourceOK ==
    ASSUME TypeInv, RowsInv, NEW w \in Runners, NEW result, Source(w, result)
    PROVE  CameFrom(Cur(w), result)
  <1>1. Cur(w) \in Tasks
    BY SlotType
  <1>2. CameFrom(Cur(w), tasks[Cur(w)].result) /\ CameFrom(Cur(w), runner[w].task.result)
    BY <1>1 DEF RowsInv
  <1>3. CASE At(w, "record") /\ result.job = runner[w].task.job
    <2>1. SlotOK(w) /\ runner[w].task.job \in DOMAIN jobs
      BY <1>3 DEF RowsInv, TypeInv, JobHeld, JobPcs, At
    <2>. QED
      BY <1>3, <2>1 DEF SlotOK, CameFrom, SucceededJob, JobPcs, At
  <1>. QED
    BY <1>2, <1>3 DEF Source, CameFrom

\* What remains to be shown of a step of w's.
LEMMA RowsFrame ==
    ASSUME TypeInv, RowsInv, NEW w \in Runners, StepOf(w), JobsKept,
           \A j \in DOMAIN jobs' \ DOMAIN jobs : InputsOK(jobs[j].task, jobs[j].inputs)',
           \A v \in Runners \ {w} : runner[v].pc \in JobPcs =>
               /\ jobs'[runner[v].task.job] = jobs[runner[v].task.job]
               /\ runner'[w].pc \in JobPcs => runner'[w].task.job # runner[v].task.job,
           SlotOK(w)'
    PROVE  RowsInv'
  <1>0. Cur(w) \in Tasks /\ CameFrom(Cur(w), NewTask.result)
    BY SlotType DEF NewTask, NoResult, CameFrom
  <1>1. (\A t \in Tasks : CameFrom(t, tasks[t].result))'
    <2>1. ASSUME NEW t \in Tasks PROVE CameFrom(t, tasks'[t].result)
      <3>1. tasks'[t] = tasks[t] \/ (t = Cur(w) /\ Source(w, tasks'[t].result))
        BY RowAfter
      <3>2. CameFrom(t, tasks[t].result)
        BY DEF RowsInv
      <3>. QED
        BY <3>1, <3>2, SourceOK
    <2>2. ASSUME NEW t \in Tasks
          PROVE  LET result == tasks'[t].result
                 IN  result.job # 0 => /\ result.job \in DOMAIN jobs' /\ jobs'[result.job].task = t
                                       /\ jobs'[result.job].status = "SUCCEEDED"
      BY <2>1, ResultKept
    <2>. QED
      BY <2>2 DEF CameFrom, SucceededJob
  <1>1a. (\A v \in Runners : CameFrom(Cur(v), runner[v].task.result))'
    <2>1. ASSUME NEW v \in Runners PROVE CameFrom(runner'[v].cur, runner'[v].task.result)
      <3>1. CASE v = w
        <4>1. \/ runner'[w].task = NewTask
              \/ runner'[w].cur = Cur(w) /\ Source(w, runner'[w].task.result)
          BY CopyAfter
        <4>2. Source(w, runner'[w].task.result) => CameFrom(Cur(w), runner'[w].task.result)
          BY SourceOK
        <4>3. runner'[w].task = NewTask => CameFrom(runner'[w].cur, runner'[w].task.result)
          BY DEF NewTask, NoResult, CameFrom
        <4>. QED
          BY <3>1, <4>1, <4>2, <4>3
      <3>2. CASE v # w
        BY <3>2, OneRunnerMoves DEF RowsInv, Cur
      <3>. QED
        BY <3>1, <3>2
    <2>2. ASSUME NEW v \in Runners
          PROVE  LET result == runner'[v].task.result
                 IN  result.job # 0 => /\ result.job \in DOMAIN jobs' /\ jobs'[result.job].task = runner'[v].cur
                                       /\ jobs'[result.job].status = "SUCCEEDED"
      BY <2>1, ResultKept
    <2>. QED
      BY <2>2 DEF CameFrom, SucceededJob, Cur
  <1>2. ASSUME NEW j \in DOMAIN jobs'
        PROVE  InputsOK(jobs[j].task, jobs[j].inputs)'
    <2>1. CASE j \in DOMAIN jobs
      <3>1. InputsOK(jobs[j].task, jobs[j].inputs)
        BY <2>1 DEF RowsInv
      <3>2. jobs'[j].task = jobs[j].task /\ jobs'[j].inputs = jobs[j].inputs
        BY <2>1 DEF JobsKept
      <3>3. InputsOK(jobs[j].task, jobs[j].inputs) => InputsOK(jobs[j].task, jobs[j].inputs)'
        BY <3>2, SucceededJobKept DEF InputsOK
      <3>. QED
        BY <3>1, <3>3
    <2>. QED
      BY <1>2, <2>1
  <1>3. ASSUME NEW v \in Runners, v # w
        PROVE  SlotOK(v)'
    <2>1. runner'[v] = runner[v]
      BY <1>3, OneRunnerMoves
    <2>2. SlotOK(v)
      BY DEF RowsInv
    <2>3. runner[v].pc \in JobPcs => jobs'[runner[v].task.job] = jobs[runner[v].task.job]
      BY <1>3
    <2>4. InputsOK(Cur(v), runner[v].inputs) => InputsOK(Cur(v), runner[v].inputs)'
      BY <2>1, SucceededJobKept DEF InputsOK, Cur
    <2>5. runner'[v].pc \in {"startTask", "plan"} => InputsOK(Cur(v), runner[v].inputs)'
      BY <2>1, <2>2, <2>4 DEF SlotOK
    <2>. QED
      BY <2>1, <2>2, <2>3, <2>5 DEF SlotOK, Cur, JobPcs
  <1>4. OwnJobs'
    <2> SUFFICES ASSUME NEW v \in Runners, NEW u \in Runners, v # u,
                        runner'[v].pc \in JobPcs, runner'[u].pc \in JobPcs
                 PROVE  runner'[v].task.job # runner'[u].task.job
      BY DEF OwnJobs
    <2>1. CASE v # w /\ u # w
      BY <2>1, OneRunnerMoves DEF RowsInv, OwnJobs
    <2>2. CASE v = w
      BY <2>2, OneRunnerMoves
    <2>3. CASE u = w
      BY <2>3, OneRunnerMoves
    <2>. QED
      BY <2>1, <2>2, <2>3
  <1>. QED
    BY <1>1, <1>1a, <1>2, <1>3, <1>4 DEF RowsInv

\* The steps that write no jobs, and do not lead to one.
LEMMA RowsQuiet ==
    ASSUME TypeInv, RowsInv, NEW w \in Runners, StepOf(w), UNCHANGED jobs,
           \/ runner'[w].pc \notin {"startTask", "plan"} \cup JobPcs
           \/ runner'[w].pc = "startTask" /\ InputsOK(Cur(w)', runner'[w].inputs)
           \/ /\ runner'[w].pc = runner[w].pc /\ runner'[w].task = runner[w].task
              /\ runner'[w].inputs = runner[w].inputs /\ Cur(w)' = Cur(w)
    PROVE  RowsInv'
  <1>1. JobsKept /\ DOMAIN jobs' = DOMAIN jobs
    BY DEF JobsKept
  <1>2. SlotOK(w)'
    <2>1. CASE runner'[w].pc \notin {"startTask", "plan"} \cup JobPcs
      BY <2>1 DEF SlotOK, JobPcs
    <2>2. CASE runner'[w].pc = "startTask" /\ InputsOK(Cur(w)', runner'[w].inputs)
      BY <1>1, <2>2 DEF SlotOK, JobPcs, InputsOK, SucceededJob
    <2>3. CASE /\ runner'[w].pc = runner[w].pc /\ runner'[w].task = runner[w].task
               /\ runner'[w].inputs = runner[w].inputs /\ Cur(w)' = Cur(w)
      <3>1. SlotOK(w)
        BY DEF RowsInv
      <3>. QED
        BY <2>3, <3>1 DEF SlotOK, InputsOK, SucceededJob
    <2>. QED
      BY <2>1, <2>2, <2>3
  <1>3. ASSUME NEW v \in Runners \ {w}, runner[v].pc \in JobPcs, runner'[w].pc \in JobPcs
        PROVE  runner'[w].task.job # runner[v].task.job
    <2>1. runner'[w].pc = runner[w].pc /\ runner'[w].task = runner[w].task
      BY <1>3 DEF JobPcs
    <2>. QED
      BY <1>3, <2>1 DEF RowsInv, OwnJobs
  <1>. QED
    BY <1>1, <1>2, <1>3, RowsFrame

\* The steps that only read rows and jobs.
LEMMA RowsReads ==
    ASSUME TypeInv, RowsInv, NEW w \in Runners,
           \/ \E m \in Messages : Deliver(w, m)
           \/ LoadRun(w) \/ ReadRunForSave(w) \/ StartPipeline(w) \/ ListTaskRuns(w)
           \/ FinishPipeline(w) \/ PrepareTask(w) \/ ReadTaskForSave(w) \/ ValidateDependencies(w) \/ ResolveInputs(w)
           \/ PlanningFails(w) \/ RecordingFails(w) \/ RaiseTask(w) \/ ReturnTask(w)
           \/ FaultInLoop(w) \/ FaultOutside(w) \/ Crash(w) \/ Redeliver(w)
    PROVE  RowsInv'
  <1>0. /\ runner[w] \in RunnerType /\ Cur(w) \in Tasks /\ tasks \in [Tasks -> TaskRow]
    BY SlotType
  <1>1. StepOf(w)
    BY DEF StepOf, RunnerStep
  <1>2. CASE ResolveInputs(w)
    <2>. DEFINE inputs == [d \in Tasks |-> IF d \in DependsOn[Cur(w)] /\ tasks[d].status = "SUCCEEDED"
                                           THEN tasks[d].result.job ELSE 0]
    <2>1. runner'[w] = [runner[w] EXCEPT !.pc = "startTask", !.inputs = inputs]
      BY <1>2, EarlySlots
    <2>2. InputsOK(Cur(w), inputs)
      <3> SUFFICES ASSUME NEW d \in Tasks, inputs[d] # 0
                   PROVE  d \in DependsOn[Cur(w)] /\ SucceededJob(inputs[d], d)
        BY DEF InputsOK
      <3>1. d \in DependsOn[Cur(w)] /\ tasks[d].status = "SUCCEEDED" /\ inputs[d] = tasks[d].result.job
        OBVIOUS
      <3>2. CameFrom(d, tasks[d].result)
        BY DEF RowsInv
      <3>. QED
        BY <3>1, <3>2 DEF CameFrom
    <2>. HIDE DEF inputs
    <2>3. runner'[w].pc = "startTask" /\ runner'[w].inputs = inputs /\ Cur(w)' = Cur(w)
      BY <1>0, <2>1 DEF RunnerType, Cur
    <2>4. UNCHANGED jobs
      BY <1>2 DEF ResolveInputs
    <2>. QED
      BY <1>1, <2>2, <2>3, <2>4, RowsQuiet
  <1>3. CASE Redeliver(w) \/ ReadRunForSave(w) \/ ReadTaskForSave(w)
    <2>1. \/ runner'[w] = runner[w]
          \/ runner'[w] = [runner[w] EXCEPT !.seenRun = run]
          \/ runner'[w] = [runner[w] EXCEPT !.seenTask = tasks[Cur(w)]]
      BY <1>3, EarlySlots, BrokerSlots, Zenon
    <2>2. /\ runner'[w].pc = runner[w].pc /\ runner'[w].task = runner[w].task
          /\ runner'[w].inputs = runner[w].inputs /\ Cur(w)' = Cur(w)
      BY <1>0, <2>1 DEF RunnerType, Cur
    <2>3. UNCHANGED jobs
      BY <1>3 DEF Redeliver, ReadRunForSave, ReadTaskForSave
    <2>. QED
      BY <1>1, <2>2, <2>3, RowsQuiet
  <1>4. CASE ~(ResolveInputs(w) \/ Redeliver(w) \/ ReadRunForSave(w) \/ ReadTaskForSave(w))
    <2>1. runner'[w].pc \in RunnerPcs \ ({"startTask", "plan"} \cup JobPcs)
      BY <1>4, StepTargets DEF IdleRunner, RunnerPcs, ActivePcs, JobPcs
    <2>2. UNCHANGED jobs
      BY <1>4 DEF Deliver, LoadRun, StartPipeline, ListTaskRuns, FinishPipeline, PrepareTask,
          ValidateDependencies, PlanningFails, RecordingFails, RaiseTask, ReturnTask, FaultInLoop,
          FaultOutside, Crash
    <2>. QED
      BY <1>1, <2>1, <2>2, RowsQuiet
  <1>. QED
    BY <1>2, <1>3, <1>4

\* The saves of a task row without a job being created or finished.
LEMMA RowsSaves ==
    ASSUME TypeInv, RowsInv, NEW w \in Runners,
           SkipTask(w) \/ StartTask(w) \/ RecordTaskResult(w) \/ BlockTask(w) \/ FailTask(w)
    PROVE  RowsInv'
  <1>0. /\ runner[w] \in RunnerType /\ runner[w].task \in TaskRow /\ Cur(w) \in Tasks
        /\ tasks \in [Tasks -> TaskRow] /\ SlotOK(w)
    BY SlotType DEF RowsInv
  <1>1. StepOf(w) /\ UNCHANGED jobs
    BY DEF StepOf, RunnerStep, SkipTask, StartTask, RecordTaskResult, BlockTask, FailTask
  <1>2. CASE StartTask(w)
    <2>. DEFINE row == SavedRow(w, [runner[w].task EXCEPT !.status = "RUNNING"])
    <2>1. runner'[w] = [runner[w] EXCEPT !.pc = "plan", !.task = row, !.seenTask = Unread]
      BY <1>2, EarlySlots, Zenon
    <2>. HIDE DEF row
    <2>2. /\ runner'[w].pc = "plan" /\ runner'[w].inputs = runner[w].inputs /\ Cur(w)' = Cur(w)
      BY <1>0, <2>1 DEF RunnerType, Cur
    <2>3. InputsOK(Cur(w), runner[w].inputs)
      BY <1>0, <1>2 DEF StartTask, At, SlotOK
    <2>4. JobsKept /\ DOMAIN jobs' = DOMAIN jobs
      BY <1>1 DEF JobsKept
    <2>5. SlotOK(w)'
      BY <1>1, <2>2, <2>3 DEF SlotOK, InputsOK, SucceededJob, JobPcs
    <2>. QED
      BY <1>1, <2>2, <2>4, <2>5, RowsFrame DEF JobPcs
  <1>3. CASE SkipTask(w) \/ RecordTaskResult(w) \/ BlockTask(w) \/ FailTask(w)
    <2>1. runner'[w].pc \in {"blockTask", "task", "list"}
      BY <1>3, StepTargets
    <2>. QED
      BY <1>1, <2>1, RowsQuiet DEF JobPcs
  <1>. QED
    BY <1>2, <1>3

\* Making, claiming and finishing the job of a task; the jobs that SUCCEEDED
\* before are left alone.
LEMMA RowsJobs ==
    ASSUME TypeInv, TypeInv', RowsInv, NEW w \in Runners,
           CreateAndAttachJob(w) \/ ClaimJob(w) \/ FinishJob(w) \/ FaultInTask(w)
    PROVE  RowsInv' /\ JobsKept
  <1>0. /\ runner[w] \in RunnerType /\ runner[w].task \in TaskRow /\ Cur(w) \in Tasks
        /\ tasks \in [Tasks -> TaskRow] /\ SlotOK(w) /\ jobs \in Seq(Job)
    BY SlotType DEF RowsInv
  <1>1. StepOf(w)
    BY DEF StepOf, RunnerStep
  <1>2. \A v \in Runners : runner[v].pc \in JobPcs => runner[v].task.job \in DOMAIN jobs
    BY DEF TypeInv, JobHeld
  <1>3. CASE CreateAndAttachJob(w)
    <2>. DEFINE job == [task |-> Cur(w), status |-> "PENDING", verdict |-> "none",
                        inputs |-> runner[w].inputs]
                n == Len(jobs) + 1
                new == [runner[w].task EXCEPT !.job = n]
                row == SavedRow(w, new)
    <2>0. jobs' = Append(jobs, job)
      BY <1>3 DEF CreateAndAttachJob
    <2>1. /\ DOMAIN jobs' = DOMAIN jobs \cup {n} /\ n \notin DOMAIN jobs /\ Len(jobs') = n
          /\ jobs'[n] = job /\ \A j \in DOMAIN jobs : jobs'[j] = jobs[j]
      <3>. HIDE DEF job
      <3>1. /\ Len(jobs) \in Nat /\ Len(jobs') = n
            /\ \A j \in 1..Len(jobs) : jobs'[j] = jobs[j]
            /\ jobs'[n] = job /\ DOMAIN jobs = 1..Len(jobs) /\ DOMAIN jobs' = 1..Len(jobs')
        BY <1>0, <2>0
      <3>. QED
        BY <3>1
    <2>2. runner'[w] = [runner[w] EXCEPT !.pc = "claim", !.task = row, !.seenTask = Unread]
      <3>1. runner'[w] = [runner[w] EXCEPT !.pc = "claim",
                              !.task = SavedRow(w, [runner[w].task EXCEPT !.job = Len(jobs')]),
                              !.seenTask = Unread]
        BY <1>3, LateSlots, Zenon
      <3>. QED
        BY <2>1, <3>1
    <2>3. row.job = n
      <3>1. /\ Len(jobs) \in Nat /\ n \in Nat /\ Len(jobs) <= n /\ n > Len(jobs)
            /\ runner[w].task \in Rows(Len(jobs)) /\ runner[w].seenTask # Unread /\ n \in 0..n
        BY <1>3, SlotIds DEF CreateAndAttachJob, SaveTask
      <3>2. runner[w].task \in Rows(n)
        BY <3>1, MoreJobs
      <3>3. new \in Rows(n) /\ new.job = n
        BY <3>1, <3>2 DEF Rows
      <3>. HIDE DEF new, n
      <3>4. row.job = new.job
        BY <3>1, <3>3, SavedRowType
      <3>. QED
        BY <3>3, <3>4
    <2>4. InputsOK(Cur(w), runner[w].inputs)
      BY <1>0, <1>3 DEF CreateAndAttachJob, At, SlotOK
    <2>. HIDE DEF row, new, n
    <2>5. /\ runner'[w].pc = "claim" /\ runner'[w].task = row /\ Cur(w)' = Cur(w)
      BY <1>0, <2>2 DEF RunnerType, Cur
    <2>6. JobsKept
      BY <2>1 DEF JobsKept
    <2>8. ASSUME NEW j \in DOMAIN jobs' \ DOMAIN jobs
          PROVE  InputsOK(jobs[j].task, jobs[j].inputs)'
      <3>1. jobs'[j].task = Cur(w) /\ jobs'[j].inputs = runner[w].inputs
        BY <2>1
      <3>. QED
        BY <2>4, <2>6, <3>1, SucceededJobKept DEF InputsOK
    <2>9. SlotOK(w)'
      BY <2>1, <2>3, <2>5 DEF SlotOK, JobPcs
    <2>10. ASSUME NEW v \in Runners \ {w}, runner[v].pc \in JobPcs
           PROVE  /\ jobs'[runner[v].task.job] = jobs[runner[v].task.job]
                  /\ runner'[w].task.job # runner[v].task.job
      BY <1>2, <2>1, <2>3, <2>5, <2>10
    <2>. QED
      BY <1>1, <2>6, <2>8, <2>9, <2>10, RowsFrame
  <1>4. ASSUME NEW new, runner[w].pc \in JobPcs, runner[w].pc # "record",
               jobs' = [jobs EXCEPT ![runner[w].task.job] = new],
               new.task = jobs[runner[w].task.job].task,
               new.inputs = jobs[runner[w].task.job].inputs,
               \/ runner'[w].pc = "failTask"
               \/ /\ runner'[w].task = runner[w].task /\ Cur(w)' = Cur(w)
                  /\ \/ runner'[w].pc = "job" /\ new.status = "RUNNING"
                     \/ runner'[w].pc = "record" /\ new.status = "SUCCEEDED"
        PROVE  RowsInv' /\ JobsKept
    <2>. DEFINE j == runner[w].task.job
    <2>1. j \in DOMAIN jobs /\ jobs[j].task = Cur(w) /\ jobs[j].status # "SUCCEEDED"
      BY <1>0, <1>2, <1>4 DEF SlotOK, JobPcs
    <2>2. DOMAIN jobs' = DOMAIN jobs /\ jobs'[j] = new /\ \A i \in DOMAIN jobs \ {j} : jobs'[i] = jobs[i]
      BY <1>4, <2>1
    <2>3. JobsKept
      BY <1>4, <2>1, <2>2 DEF JobsKept
    <2>4. SlotOK(w)'
      BY <1>0, <1>4, <2>1, <2>2 DEF SlotOK, JobPcs
    <2>5. ASSUME NEW v \in Runners \ {w}, runner[v].pc \in JobPcs
          PROVE  /\ jobs'[runner[v].task.job] = jobs[runner[v].task.job]
                 /\ runner'[w].pc \in JobPcs => runner'[w].task.job # runner[v].task.job
      <3>1. runner[v].task.job # j
        BY <1>4, <2>5 DEF RowsInv, OwnJobs
      <3>. QED
        BY <1>2, <1>4, <2>2, <2>5, <3>1 DEF JobPcs
    <2>. QED
      BY <1>1, <1>4, <2>2, <2>3, <2>4, <2>5, RowsFrame
  <1>5. CASE ClaimJob(w)
    <2>. DEFINE new == [jobs[runner[w].task.job] EXCEPT !.status = "RUNNING"]
    <2>1. jobs[runner[w].task.job] \in Job
      BY <1>0, <1>2, <1>5 DEF ClaimJob, At, JobPcs
    <2>2. /\ new.task = jobs[runner[w].task.job].task
          /\ new.inputs = jobs[runner[w].task.job].inputs /\ new.status = "RUNNING"
      BY <2>1 DEF Job
    <2>3. jobs' = [jobs EXCEPT ![runner[w].task.job] = new]
      BY <1>5 DEF ClaimJob
    <2>. HIDE DEF new
    <2>4. runner'[w] = [runner[w] EXCEPT !.pc = "job"]
      BY <1>5, LateSlots
    <2>5. runner'[w].pc = "job" /\ runner'[w].task = runner[w].task /\ Cur(w)' = Cur(w)
      BY <1>0, <2>4 DEF RunnerType, Cur
    <2>6. runner[w].pc \in JobPcs /\ runner[w].pc # "record"
      BY <1>5 DEF ClaimJob, At, JobPcs
    <2>. QED
      BY <1>4, <2>2, <2>3, <2>5, <2>6
  <1>6. CASE FinishJob(w)
    <2>2. runner[w].pc \in JobPcs /\ runner[w].pc # "record"
      BY <1>6 DEF FinishJob, At, JobPcs
    <2>1. jobs[runner[w].task.job] \in Job
      <3>1. runner[w].task.job \in 1..Len(jobs)
        BY <1>0, <1>2, <2>2
      <3>. QED
        BY <1>0, <3>1
    <2>3. ASSUME NEW v, jobs' = [jobs EXCEPT ![runner[w].task.job].status = "SUCCEEDED",
                                             ![runner[w].task.job].verdict = v],
                 Goto(w, "record")
          PROVE  RowsInv' /\ JobsKept
      <3>. DEFINE new == [jobs[runner[w].task.job] EXCEPT !.status = "SUCCEEDED", !.verdict = v]
      <3>1. /\ new.task = jobs[runner[w].task.job].task
            /\ new.inputs = jobs[runner[w].task.job].inputs /\ new.status = "SUCCEEDED"
        BY <2>1 DEF Job
      <3>2. jobs' = [jobs EXCEPT ![runner[w].task.job] = new]
        BY <1>0, <1>2, <2>2, <2>3
      <3>. HIDE DEF new
      <3>3. runner'[w].pc = "record" /\ runner'[w].task = runner[w].task /\ Cur(w)' = Cur(w)
        <4>1. runner'[w] = [runner[w] EXCEPT !.pc = "record"]
          BY <2>3, SlotType DEF Goto
        <4>. QED
          BY <1>0, <4>1 DEF RunnerType, Cur
      <3>. QED
        BY <1>4, <2>2, <3>1, <3>2, <3>3
    <2>4. ASSUME jobs' = [jobs EXCEPT ![runner[w].task.job].status = "FAILED"], Goto(w, "failTask")
          PROVE  RowsInv' /\ JobsKept
      <3>. DEFINE new == [jobs[runner[w].task.job] EXCEPT !.status = "FAILED"]
      <3>1. /\ new.task = jobs[runner[w].task.job].task
            /\ new.inputs = jobs[runner[w].task.job].inputs
        BY <2>1 DEF Job
      <3>2. jobs' = [jobs EXCEPT ![runner[w].task.job] = new]
        BY <2>4
      <3>. HIDE DEF new
      <3>3. runner'[w].pc = "failTask"
        BY <2>4, SlotType DEF Goto, RunnerType
      <3>. QED
        BY <1>4, <2>2, <3>1, <3>2, <3>3
    <2>. QED
      BY <1>6, <2>3, <2>4 DEF FinishJob
  <1>7. CASE FaultInTask(w)
    <2>1. runner'[w].pc = "failTask"
      BY <1>7, StepTargets
    <2>2. CASE At(w, "job")
      <3>. DEFINE new == [jobs[runner[w].task.job] EXCEPT !.status = "FAILED"]
      <3>1. jobs[runner[w].task.job] \in Job
        BY <1>0, <1>2, <2>2 DEF At, JobPcs
      <3>2. /\ new.task = jobs[runner[w].task.job].task
            /\ new.inputs = jobs[runner[w].task.job].inputs
        BY <3>1 DEF Job
      <3>3. jobs' = [jobs EXCEPT ![runner[w].task.job] = new]
        BY <1>7, <2>2 DEF FaultInTask
      <3>. HIDE DEF new
      <3>4. runner[w].pc \in JobPcs /\ runner[w].pc # "record"
        BY <2>2 DEF At, JobPcs
      <3>. QED
        BY <1>4, <2>1, <3>2, <3>3, <3>4
    <2>3. CASE ~At(w, "job")
      <3>1. UNCHANGED jobs
        BY <1>7, <2>3 DEF FaultInTask
      <3>. QED
        BY <1>1, <2>1, <3>1, RowsQuiet DEF JobPcs, JobsKept
    <2>. QED
      BY <2>2, <2>3
  <1>. QED
    BY <1>3, <1>5, <1>6, <1>7

\* No step changes what a job was made from, or a job that SUCCEEDED.
LEMMA StepsKeepJobs ==
    ASSUME TypeInv, RowsInv, [Next]_vars
    PROVE  JobsKept
  <1>1. ASSUME UNCHANGED jobs PROVE JobsKept
    BY <1>1 DEF JobsKept
  <1>2. CASE \E r \in Requests :
                 \/ ValidateExecutable(r) \/ ReadForQueued(r) \/ MarkQueued(r) \/ SendTask(r)
                 \/ RecordExecution(r) \/ RequestFault(r)
    BY <1>1, <1>2 DEF ValidateExecutable, ReadForQueued, MarkQueued, SendTask, RecordExecution, RequestFault
  <1>3. ASSUME NEW w \in Runners, StepOf(w) PROVE JobsKept
    <2>1. CASE CreateAndAttachJob(w) \/ ClaimJob(w) \/ FinishJob(w) \/ FaultInTask(w)
      BY <2>1, RowsJobs, PipelineNextType
    <2>2. CASE ~(CreateAndAttachJob(w) \/ ClaimJob(w) \/ FinishJob(w) \/ FaultInTask(w))
      <3>1. UNCHANGED jobs
        BY <1>3, <2>2, WritesElse
      <3>. QED
        BY <1>1, <3>1
    <2>. QED
      BY <2>1, <2>2
  <1>4. CASE UNCHANGED vars
    BY <1>1, <1>4 DEF vars
  <1>. QED
    BY <1>2, <1>3, <1>4, PipelineSteps

\* Nothing has been written at first, and the API does not write tasks or jobs.
LEMMA RowsInvariant ==
    /\ Init => RowsInv
    /\ TypeInv /\ RowsInv /\ [Next]_vars => RowsInv'
  <1>1. Init => RowsInv
    <2> SUFFICES ASSUME Init PROVE RowsInv
      OBVIOUS
    <2>1. /\ \A t \in Tasks : CameFrom(t, tasks[t].result)
          /\ \A w \in Runners : CameFrom(Cur(w), runner[w].task.result)
      BY DEF Init, IdleRunner, NewTask, NoResult, CameFrom
    <2>2. DOMAIN jobs = {}
      BY DEF Init
    <2>3. \A w \in Runners : runner[w].pc = "idle"
      BY DEF Init, IdleRunner
    <2>. QED
      BY <2>1, <2>2, <2>3 DEF RowsInv, SlotOK, OwnJobs, JobPcs
  <1>2. ASSUME TypeInv, RowsInv, UNCHANGED <<tasks, jobs, runner>>
        PROVE  RowsInv'
    BY <1>2 DEF RowsInv, CameFrom, InputsOK, SlotOK, OwnJobs, SucceededJob, Cur
  <1>3. ASSUME TypeInv, RowsInv, [Next]_vars PROVE RowsInv'
    <2>1. CASE \E r \in Requests :
                   \/ ValidateExecutable(r) \/ ReadForQueued(r) \/ MarkQueued(r) \/ SendTask(r)
                   \/ RecordExecution(r) \/ RequestFault(r)
      <3>1. UNCHANGED <<tasks, jobs, runner>>
        BY <2>1
        DEF ValidateExecutable, ReadForQueued, MarkQueued, SendTask, RecordExecution, RequestFault
      <3>. QED
        BY <1>2, <1>3, <3>1
    <2>2. CASE \E w \in Runners : StepOf(w)
      BY <1>3, <2>2, RowsReads, RowsSaves, RowsJobs, PipelineNextType DEF StepOf, RunnerStep
    <2>3. CASE UNCHANGED vars
      BY <1>2, <1>3, <2>3 DEF vars
    <2>. QED
      BY <1>3, <2>1, <2>2, <2>3, PipelineSteps
  <1>. QED
    BY <1>1, <1>3

\* A job's inputs are results of its dependencies' jobs, and those SUCCEEDED,
\* although dependencies are checked and resolved in different transactions
\* and another runner may restart them in between (_resolve_upstream_task_refs).
THEOREM InputsComeFromSuccess == Spec => []JobInputsSucceeded
  <1>1. RowsInv => JobInputsSucceeded
    BY DEF RowsInv, InputsOK, SucceededJob, JobInputsSucceeded
  <1>. QED
    BY <1>1, PipelineInitType, PipelineNextType, RowsInvariant, PTL DEF Spec
-----------------------------------------------------------------------------
(* The order of a pipeline run.  PipelineRunner.run and PipelineTaskRunner *)
(* read, check and save in separate transactions and claim nothing: what   *)
(* keeps two runners from working on one run is that there is only one     *)
(* message for it.  Clients that execute a run one call at a time, and a   *)
(* broker that redelivers no message early, see to that; under these two   *)
(* assumptions, and whatever errors, crashes and retries there are, tasks  *)
(* are done in order and a SUCCEEDED run is complete and final.            *)
-----------------------------------------------------------------------------
(* One message, one runner: there is at most one copy of one message or    *)
(* one runner that is not idle, and none of either before a request sends. *)

Busy(w) == runner[w].pc # "idle"
Waiting(r) == request[r].pc \in {"validated", "queued"}

Solo ==
    /\ \A v, w \in Runners : Busy(v) /\ Busy(w) => v = w
    /\ \A w \in Runners, m \in Messages : queue[m] > 0 => ~Busy(w)
    /\ \A m, n \in Messages : queue[m] > 0 /\ queue[n] > 0 => m = n
    /\ \A m \in Messages : queue[m] \in {0, 1}
    /\ \A q, r \in Requests : Open(q) /\ Open(r) => q = r
    /\ \A r \in Requests : Waiting(r) => ~MessageLive

\* Only a busy runner takes a step, except that an idle one takes a message.
LEMMA BusyOrDelivered ==
    ASSUME NEW w \in Runners, StepOf(w)
    PROVE  Busy(w) \/ \E m \in Messages : Deliver(w, m)
  <1>1. RunnerStep(w) => Busy(w)
    BY DEF RunnerStep, LoadRun, ReadRunForSave, StartPipeline, ListTaskRuns, FinishPipeline, PrepareTask,
        ReadTaskForSave, SkipTask, ValidateDependencies, ResolveInputs, StartTask, CreateAndAttachJob, PlanningFails, ClaimJob,
        FinishJob, RecordTaskResult, RecordingFails, BlockTask, FailTask, RaiseTask, ReturnTask,
        At, Busy
  <1>2. FaultInTask(w) \/ FaultInLoop(w) \/ FaultOutside(w) \/ Crash(w) \/ Redeliver(w) => Busy(w)
    BY DEF FaultInTask, FaultInLoop, FaultOutside, Crash, Redeliver, Busy
  <1>. QED
    BY <1>1, <1>2 DEF StepOf

\* The steps that put messages into the queue or take them out, and what the
\* others leave alone.
LEMMA QueueSteps ==
    ASSUME NEW w \in Runners, StepOf(w)
    PROVE  /\ UNCHANGED <<request, records>>
           /\ \/ UNCHANGED queue
              \/ \E m \in Messages : Deliver(w, m)
              \/ RaiseTask(w) \/ Crash(w) \/ Redeliver(w)
  <1>1. CASE \/ LoadRun(w) \/ ReadRunForSave(w) \/ StartPipeline(w) \/ ListTaskRuns(w)
             \/ FinishPipeline(w) \/ PrepareTask(w) \/ ReadTaskForSave(w) \/ SkipTask(w)
             \/ ValidateDependencies(w) \/ ResolveInputs(w)
             \/ StartTask(w) \/ CreateAndAttachJob(w) \/ PlanningFails(w) \/ ClaimJob(w)
             \/ FinishJob(w) \/ RecordTaskResult(w) \/ RecordingFails(w) \/ BlockTask(w)
             \/ FailTask(w)
    BY <1>1 DEF LoadRun, ReadRunForSave, StartPipeline, ListTaskRuns, FinishPipeline, PrepareTask,
        ReadTaskForSave, SkipTask, ValidateDependencies, ResolveInputs, StartTask, CreateAndAttachJob, PlanningFails, ClaimJob,
        FinishJob, RecordTaskResult, RecordingFails, BlockTask, FailTask, Env
  <1>2. CASE \/ \E m \in Messages : Deliver(w, m)
             \/ RaiseTask(w) \/ ReturnTask(w) \/ Crash(w) \/ Redeliver(w)
             \/ FaultInTask(w) \/ FaultInLoop(w) \/ FaultOutside(w)
    BY <1>2 DEF Deliver, RaiseTask, ReturnTask, Crash, Redeliver, FaultInTask, FaultInLoop,
        FaultOutside
  <1>. QED
    BY <1>1, <1>2 DEF StepOf, RunnerStep

\* While a runner is busy, it is alone, the queue is empty and nobody waits.
LEMMA Alone ==
    ASSUME TypeInv, Solo, NEW w \in Runners, Busy(w)
    PROVE  /\ \A v \in Runners \ {w} : ~Busy(v)
           /\ \A m \in Messages : queue[m] = 0
           /\ \A r \in Requests : ~Waiting(r)
  <1>1. \A m \in Messages : queue[m] = 0
    BY DEF Solo
  <1>2. MessageLive
    BY DEF MessageLive, Busy
  <1>. QED
    BY <1>1, <1>2 DEF Solo

\* When there is a message, every runner is idle and it is the only one.
LEMMA AloneInQueue ==
    ASSUME TypeInv, Solo, NEW m \in Messages, queue[m] > 0
    PROVE  /\ \A v \in Runners : ~Busy(v)
           /\ queue[m] = 1 /\ \A n \in Messages \ {m} : queue[n] = 0
           /\ \A r \in Requests : ~Waiting(r)
  <1>1. queue[m] = 1 /\ \A n \in Messages \ {m} : queue[n] = 0
    BY DEF Solo
  <1>2. MessageLive
    BY DEF MessageLive
  <1>. QED
    BY <1>1, <1>2 DEF Solo

\* The broker and the workers keep the message and the runner single.
LEMMA SoloRunners ==
    ASSUME MaxRedeliveries = 0, TypeInv, TypeInv', Solo, NEW w \in Runners, StepOf(w)
    PROVE  Solo'
  <1>0. /\ queue \in [Messages -> Nat] /\ runner[w] \in RunnerType
        /\ redeliveries \in Nat
    BY SlotType DEF TypeInv, TypeOK
  <1>1. UNCHANGED request
    BY QueueSteps
  <1>2. \A q, r \in Requests : Open(q)' /\ Open(r)' => q = r
    BY <1>1 DEF Solo, Open
  <1>3. \A r \in Requests : ~Waiting(r)'
    <2>1. ASSUME NEW m \in Messages, Deliver(w, m) PROVE queue[m] > 0
      BY <2>1 DEF Deliver
    <2>. QED
      BY <1>1, <2>1, Alone, AloneInQueue, BusyOrDelivered DEF Waiting
  <1>4. \A v \in Runners \ {w} : ~Busy(v)'
    <2>1. ASSUME NEW m \in Messages, Deliver(w, m) PROVE queue[m] > 0
      BY <2>1 DEF Deliver
    <2>. QED
      BY <2>1, Alone, AloneInQueue, BusyOrDelivered, OneRunnerMoves DEF Busy
  <1>5. \/ \A m \in Messages : queue'[m] = 0
        \/ /\ ~Busy(w)'
           /\ \E m \in Messages : queue'[m] = 1 /\ \A n \in Messages \ {m} : queue'[n] = 0
    <2>1. ASSUME NEW m \in Messages, Deliver(w, m) PROVE \A n \in Messages : queue'[n] = 0
      <3>1. queue' = [queue EXCEPT ![m] = queue[m] - 1] /\ queue[m] > 0
        BY <2>1 DEF Deliver
      <3>2. queue[m] = 1 /\ \A n \in Messages \ {m} : queue[n] = 0
        BY <3>1, AloneInQueue
      <3>. QED
        BY <1>0, <3>1, <3>2
    <2>2. CASE UNCHANGED queue /\ Busy(w)
      BY <2>2, Alone
    <2>3. ASSUME NEW m, queue' = [queue EXCEPT ![m] = @ + 1], Busy(w), runner'[w] = IdleRunner
          PROVE  \/ \A n \in Messages : queue'[n] = 0
                 \/ ~Busy(w)' /\ queue'[m] = 1 /\ m \in Messages
                    /\ \A n \in Messages \ {m} : queue'[n] = 0
      <3>1. \A n \in Messages : queue[n] = 0
        BY <2>3, Alone
      <3>2. CASE m \in Messages
        BY <1>0, <2>3, <3>1, <3>2 DEF Busy, IdleRunner
      <3>3. CASE m \notin Messages
        BY <1>0, <2>3, <3>1, <3>3
      <3>. QED
        BY <3>2, <3>3
    <2>4. CASE RaiseTask(w)
      <3>1. Busy(w) /\ runner'[w] = IdleRunner
        BY <2>4, BrokerSlots DEF RaiseTask, Busy
      <3>2. \/ UNCHANGED queue
            \/ queue' = [queue EXCEPT ![<<runner[w].msg[1], runner[w].msg[2] + 1>>] = @ + 1]
        BY <2>4 DEF RaiseTask
      <3>. QED
        BY <2>2, <2>3, <3>1, <3>2
    <2>5. CASE Crash(w)
      <3>1. Busy(w) /\ runner'[w] = IdleRunner
        BY <2>5, BrokerSlots DEF Crash, Busy
      <3>2. queue' = [queue EXCEPT ![runner[w].msg] = @ + 1]
        BY <2>5 DEF Crash
      <3>. QED
        BY <2>3, <3>1, <3>2
    <2>6. CASE Redeliver(w)
      BY <1>0, <2>6 DEF Redeliver
    <2>. QED
      BY <2>1, <2>2, <2>4, <2>5, <2>6, BusyOrDelivered, QueueSteps
  <1>. QED
    BY <1>2, <1>3, <1>4, <1>5 DEF Solo

\* A client that waits for its run, and requests that send once, do so too.
LEMMA SoloRequests ==
    ASSUME DisciplinedClient, TypeInv, Solo, NEW r \in Requests,
           \/ ValidateExecutable(r) \/ ReadForQueued(r) \/ MarkQueued(r) \/ SendTask(r)
           \/ RecordExecution(r) \/ RequestFault(r)
    PROVE  Solo'
  <1>0. request \in [Requests -> RequestType] /\ queue \in [Messages -> Nat]
    BY DEF TypeInv, TypeOK, RequestType
  <1>1. UNCHANGED runner
    BY DEF ValidateExecutable, ReadForQueued, MarkQueued, SendTask, RecordExecution, RequestFault
  <1>2. \A q \in Requests \ {r} : request'[q] = request[q]
    BY <1>0 DEF ValidateExecutable, ReadForQueued, MarkQueued, SendTask, RecordExecution, RequestFault
  <1>3. CASE ValidateExecutable(r)
    <2>1. ~MessageLive /\ \A q \in Requests : ~Open(q)
      BY <1>3 DEF ValidateExecutable, MayCall
    <2>2. UNCHANGED queue
      BY <1>3 DEF ValidateExecutable
    <2>. QED
      BY <1>1, <1>2, <2>1, <2>2 DEF Solo, Busy, Waiting, Open, MessageLive
  <1>4. ASSUME UNCHANGED queue, Open(r), Waiting(r)' => Waiting(r) PROVE Solo'
    BY <1>1, <1>2, <1>4 DEF Solo, Busy, Waiting, Open, MessageLive
  <1>5. CASE MarkQueued(r)
    <2>1. request[r].pc = "validated" /\ UNCHANGED queue
      BY <1>5 DEF MarkQueued
    <2>. QED
      BY <1>4, <2>1 DEF Open, Waiting
  <1>9. CASE ReadForQueued(r)
    <2>1. request[r].pc = "validated" /\ UNCHANGED queue
      BY <1>9 DEF ReadForQueued
    <2>. QED
      BY <1>4, <2>1 DEF Open, Waiting
  <1>6. CASE RecordExecution(r)
    <2>1. request[r].pc = "sent" /\ UNCHANGED queue /\ request'[r].pc = "done"
      BY <1>0, <1>6 DEF RecordExecution, RequestType
    <2>. QED
      BY <1>4, <2>1 DEF Open, Waiting
  <1>7. CASE RequestFault(r)
    <2>1. Open(r) /\ UNCHANGED queue /\ request'[r].pc = "error"
      BY <1>0, <1>7 DEF RequestFault, RequestType
    <2>. QED
      BY <1>4, <2>1 DEF Waiting
  <1>8. CASE SendTask(r)
    <2>1. request[r].pc = "queued" /\ request'[r].pc = "sent"
      BY <1>0, <1>8 DEF SendTask, RequestType
    <2>2. ~MessageLive
      BY <2>1 DEF Solo, Waiting
    <2>3. (\A w \in Runners : ~Busy(w)) /\ \A m \in Messages : queue[m] = 0
      BY <2>2 DEF MessageLive, Busy, Solo
    <2>4. queue' = [queue EXCEPT ![<<r, 0>>] = queue[<<r, 0>>] + 1]
      BY <1>8 DEF SendTask
    <2>5. <<r, 0>> \in Messages
      BY PipelineAssumption DEF Messages
    <2>. DEFINE m == <<r, 0>>
    <2>6. queue'[m] = 1 /\ \A n \in Messages \ {m} : queue'[n] = 0
      BY <1>0, <2>3, <2>4, <2>5
    <2>. HIDE DEF m
    <2>7. \A q \in Requests : ~Waiting(q)'
      <3>1. \A q \in Requests \ {r} : ~Open(q)
        BY <2>1 DEF Solo, Open
      <3>. QED
        BY <1>2, <2>1, <3>1 DEF Waiting, Open
    <2>8. \A q, p \in Requests : Open(q)' /\ Open(p)' => q = p
      BY <1>2, <2>1 DEF Solo, Open
    <2>9. \A w \in Runners : ~Busy(w)'
      BY <1>1, <2>3 DEF Busy
    <2>. QED
      BY <2>6, <2>7, <2>8, <2>9 DEF Solo
  <1>. QED
    BY <1>3, <1>5, <1>6, <1>7, <1>8, <1>9

-----------------------------------------------------------------------------
(* The row of the run belongs to whoever is at work on it: nobody writes a *)
(* run that another one has read, or works on one that is not RUNNING.     *)
(* And what the SELECT of a save has seen is still so at its UPDATE.       *)

Fresh(w) == runner[w].seenRun \in {Unread, run} /\ runner[w].seenTask \in {Unread, tasks[Cur(w)]}

RunFollows ==
    /\ \A r \in Requests : request[r].pc = "validated" =>
          /\ request[r].copy = run /\ run.status \notin NotExecutable
          /\ request[r].seen \in {Unread, run}
    /\ \A w \in Runners : runner[w].pc \in ActivePcs => run.status = "RUNNING"
    /\ \A w \in Runners : runner[w].pc = "start" =>
          runner[w].run = run /\ run.status \notin NotRunnable
    /\ \A w \in Runners : Busy(w) => Fresh(w)
    /\ run.status = "PENDING" => ~MessageLive /\ \A r \in Requests : request[r].pc # "queued"

SoloInv == Solo /\ RunFollows

\* A save whose SELECT saw the row that is there leaves the row saved.
LEMMA ExactRun ==
    ASSUME NEW new \in RunRow, NEW row \in SavedRun(new, run)
    PROVE  row = new
  <1>1. row = [status |-> new.status, result |-> new.result]
    BY DEF SavedRun, Column
  <1>. QED
    BY <1>1 DEF RunRow

LEMMA ExactTask ==
    ASSUME NEW w \in Runners, NEW new \in TaskRow, runner[w].seenTask = tasks[Cur(w)]
    PROVE  SavedRow(w, new) = new
  <1>1. SavedRow(w, new) = [status |-> new.status, job |-> new.job, result |-> new.result]
    BY DEF SavedRow, SavedTask, Column
  <1>. QED
    BY <1>1 DEF TaskRow

\* What the SELECT of a save of the task row saw is dropped when the row is
\* written or the task is over.
LEMMA SeenTaskAfter ==
    ASSUME TypeInv, NEW w \in Runners, StepOf(w)
    PROVE  \/ runner'[w].seenTask = Unread
           \/ /\ UNCHANGED tasks /\ runner'[w].cur = Cur(w)
              /\ runner'[w].seenTask \in {runner[w].seenTask, tasks[Cur(w)]}
  <1>0. runner[w] \in RunnerType
    BY SlotType
  <1>. DEFINE Same == /\ UNCHANGED tasks /\ runner'[w].cur = Cur(w)
                      /\ runner'[w].seenTask \in {runner[w].seenTask, tasks[Cur(w)]}
              Goal == runner'[w].seenTask = Unread \/ Same
  <1> SUFFICES Goal
    OBVIOUS
  <1>n. runner'[w].seenTask = Unread => Goal
    OBVIOUS
  <1>s. ASSUME UNCHANGED tasks, runner'[w].cur = Cur(w),
               runner'[w].seenTask \in {runner[w].seenTask, tasks[Cur(w)]}
        PROVE  Goal
    BY <1>s
  <1>. HIDE DEF Same, Goal
  <1>u. ASSUME ~(\/ SkipTask(w) \/ StartTask(w) \/ CreateAndAttachJob(w) \/ RecordTaskResult(w)
                 \/ BlockTask(w) \/ FailTask(w))
        PROVE  UNCHANGED tasks
    BY <1>u, WritesElse
  <1>r. UNCHANGED tasks /\ runner'[w] = runner[w] => Goal
    BY <1>s DEF Cur
  <1>o. ASSUME NEW pc, runner'[w] = Over(runner[w], pc)
        PROVE  Goal
    BY <1>n, <1>o DEF Over, IdleRunner
  <1>g. ASSUME NEW pc, UNCHANGED tasks, runner'[w] = [runner[w] EXCEPT !.pc = pc]
        PROVE  Goal
    BY <1>0, <1>g, <1>s DEF RunnerType, Cur
  <1>t. ASSUME NEW pc, NEW row,
               runner'[w] = [runner[w] EXCEPT !.pc = pc, !.task = row, !.seenTask = Unread]
        PROVE  Goal
    BY <1>0, <1>n, <1>t DEF RunnerType
  <1>e. ASSUME NextTurn(runner[w]) = runner'[w]
        PROVE  Goal
    <2>1. NextTurn(runner[w]).seenTask = Unread
      BY <1>0, NextTurnForm, Zenon
    <2>. QED
      BY <1>e, <1>n, <2>1
  <1>1. CASE LoadRun(w) \/ ReadRunForSave(w) \/ StartPipeline(w)
    <2>0. UNCHANGED tasks
      BY <1>1 DEF LoadRun, ReadRunForSave, StartPipeline
    <2>1. \/ runner'[w] = Over(runner[w], "raise")
          \/ runner'[w] = [runner[w] EXCEPT !.pc = "start", !.run = run]
          \/ runner'[w] = [runner[w] EXCEPT !.seenRun = run]
          \/ runner'[w] = [runner[w] EXCEPT !.pc = "task", !.run = NewRun, !.seenRun = Unread]
      BY <1>1, EarlySlots
    <2>2. CASE runner'[w] = Over(runner[w], "raise")
      BY <1>o, <2>2
    <2>3. CASE runner'[w] # Over(runner[w], "raise")
      <3>1. runner'[w].cur = Cur(w) /\ runner'[w].seenTask = runner[w].seenTask
        BY <1>0, <2>1, <2>3 DEF RunnerType, Cur
      <3>. QED
        BY <1>s, <2>0, <3>1
    <2>. QED
      BY <2>2, <2>3
  <1>2. CASE ResolveInputs(w) \/ ListTaskRuns(w) \/ ReadTaskForSave(w)
    <2>0. UNCHANGED tasks
      BY <1>2 DEF ResolveInputs, ListTaskRuns, ReadTaskForSave
    <2>1. \/ \E inputs : runner'[w] = [runner[w] EXCEPT !.pc = "startTask", !.inputs = inputs]
          \/ \E shot : runner'[w] = [runner[w] EXCEPT !.pc = "save", !.snapshot = shot]
          \/ runner'[w] = [runner[w] EXCEPT !.seenTask = tasks[Cur(w)]]
      <3>1. ResolveInputs(w) => \E inputs :
                runner'[w] = [runner[w] EXCEPT !.pc = "startTask", !.inputs = inputs]
        BY EarlySlots
      <3>2. ListTaskRuns(w) => \E shot :
                runner'[w] = [runner[w] EXCEPT !.pc = "save", !.snapshot = shot]
        BY LateSlots
      <3>3. ReadTaskForSave(w) => runner'[w] = [runner[w] EXCEPT !.seenTask = tasks[Cur(w)]]
        BY EarlySlots
      <3>. QED
        BY <1>2, <3>1, <3>2, <3>3
    <2>2. runner'[w].cur = Cur(w) /\ runner'[w].seenTask \in {runner[w].seenTask, tasks[Cur(w)]}
      BY <1>0, <2>1 DEF RunnerType, Cur
    <2>. QED
      BY <1>s, <2>0, <2>2
  <1>3. CASE ValidateDependencies(w) \/ PlanningFails(w)
    <2>1. UNCHANGED tasks
      BY <1>3 DEF ValidateDependencies, PlanningFails
    <2>. QED
      BY <1>3, <1>g, <2>1, EarlySlots, Zenon
  <1>4. CASE ClaimJob(w) \/ FinishJob(w) \/ RecordingFails(w)
    <2>1. UNCHANGED tasks
      BY <1>4 DEF ClaimJob, FinishJob, RecordingFails
    <2>. QED
      BY <1>4, <1>g, <2>1, LateSlots, Zenon
  <1>5. CASE PrepareTask(w)
    <2>0. UNCHANGED tasks
      BY <1>5 DEF PrepareTask
    <2>1. \/ runner'[w] = NextTurn(runner[w])
          \/ \E pc : runner'[w] = [runner[w] EXCEPT !.pc = pc, !.task = tasks[Cur(w)]]
      <3>1. runner'[w] = IF tasks[Cur(w)].status \in Done THEN NextTurn(runner[w])
                  ELSE [runner[w] EXCEPT !.pc = IF Cur(w) \in Skippable THEN "skip" ELSE "deps",
                                         !.task = tasks[Cur(w)]]
        BY <1>5, EarlySlots, Zenon
      <3>. QED
        BY <3>1
    <2>2. ASSUME NEW pc, runner'[w] = [runner[w] EXCEPT !.pc = pc, !.task = tasks[Cur(w)]]
          PROVE  Goal
      <3>1. runner'[w].cur = Cur(w) /\ runner'[w].seenTask = runner[w].seenTask
        BY <1>0, <2>2 DEF RunnerType, Cur
      <3>. QED
        BY <1>s, <2>0, <3>1
    <2>. QED
      BY <1>e, <2>1, <2>2
  <1>6. CASE SkipTask(w)
    BY <1>6, <1>e, EarlySlots, Zenon
  <1>7. CASE StartTask(w)
    <2>1. \E row : runner'[w] =
              [runner[w] EXCEPT !.pc = "plan", !.task = row, !.seenTask = Unread]
      BY <1>7, EarlySlots
    <2>. QED
      BY <1>t, <2>1
  <1>8. CASE CreateAndAttachJob(w)
    <2>1. \E row : runner'[w] =
              [runner[w] EXCEPT !.pc = "claim", !.task = row, !.seenTask = Unread]
      BY <1>8, LateSlots
    <2>. QED
      BY <1>t, <2>1
  <1>9. CASE FaultInTask(w)
    <2>1. \E row : runner'[w] =
              [runner[w] EXCEPT !.pc = "failTask", !.task = row, !.seenTask = Unread]
      BY <1>9, BrokerSlots
    <2>. QED
      BY <1>t, <2>1
  <1>10. CASE RecordTaskResult(w)
    <2>1. PICK recorded \in RunnerType :
              \/ runner'[w] = NextTurn(recorded)
              \/ runner'[w] = [recorded EXCEPT !.pc = "blockTask", !.seenTask = Unread]
      BY <1>10, RecordedSlot
    <2>2. NextTurn(recorded).seenTask = Unread
      BY NextTurnForm, Zenon
    <2>3. [recorded EXCEPT !.pc = "blockTask", !.seenTask = Unread].seenTask = Unread
      BY DEF RunnerType
    <2>. QED
      BY <1>n, <2>1, <2>2, <2>3
  <1>11. CASE BlockTask(w) \/ FailTask(w)
    <2>1. PICK final \in {"BLOCKED", "FAILED"} :
              runner'[w] = [TaskOver(runner[w], "list") EXCEPT !.final = final]
      BY <1>11, LateSlots
    <2>2. [TaskOver(runner[w], "list") EXCEPT !.final = final].seenTask = Unread
      BY <1>0, ListedForm, Zenon
    <2>. QED
      BY <1>n, <2>1, <2>2, Zenon
  <1>12. CASE FinishPipeline(w)
    BY <1>12, <1>o, LateSlots, Zenon
  <1>13. CASE FaultOutside(w) \/ FaultInLoop(w)
    <2>1. [TaskOver(runner[w], "list") EXCEPT !.final = "FAILED", !.seenRun = Unread].seenTask = Unread
      BY <1>0, FaultedForm, Zenon
    <2>. QED
      BY <1>13, <1>n, <1>o, <2>1, BrokerSlots, Zenon
  <1>14. CASE (\E m \in Messages : Deliver(w, m)) \/ RaiseTask(w) \/ ReturnTask(w) \/ Crash(w)
    <2>1. ASSUME NEW m, runner'[w] = [IdleRunner EXCEPT !.pc = "load", !.msg = m]
          PROVE  Goal
      BY <1>n, <2>1 DEF IdleRunner
    <2>2. runner'[w] = IdleRunner => Goal
      BY <1>n DEF IdleRunner
    <2>. QED
      BY <1>14, <2>1, <2>2, BrokerSlots, Zenon
  <1>15. CASE Redeliver(w)
    <2>1. UNCHANGED tasks
      BY <1>15 DEF Redeliver
    <2>. QED
      BY <1>15, <1>r, <2>1, BrokerSlots, Zenon
  <1>. QED
    BY <1>1, <1>2, <1>3, <1>4, <1>5, <1>6, <1>7, <1>8, <1>9, <1>10, <1>11, <1>12, <1>13, <1>14,
       <1>15 DEF StepOf, RunnerStep

\* So what a slot's SELECT has seen remains true under its own steps.
LEMMA StaysFresh ==
    ASSUME TypeInv, NEW w \in Runners, StepOf(w), Busy(w) => Fresh(w)
    PROVE  Fresh(w)'
  <1>0. ASSUME NEW m \in Messages, Deliver(w, m) PROVE Fresh(w)'
    <2>1. runner'[w] = [IdleRunner EXCEPT !.pc = "load", !.msg = m]
      BY <1>0, BrokerSlots, Zenon
    <2>2. runner'[w].seenRun = Unread /\ runner'[w].seenTask = Unread
      BY <2>1 DEF IdleRunner
    <2>. QED
      BY <2>2 DEF Fresh
  <1> SUFFICES ASSUME Fresh(w) PROVE Fresh(w)'
    BY <1>0, BusyOrDelivered
  <1>1. runner[w] \in RunnerType
    BY SlotType
  <1>2. runner'[w].seenTask \in {Unread, tasks'[runner'[w].cur]}
    BY SeenTaskAfter DEF Fresh, Cur
  <1>3. runner'[w].seenRun \in {Unread, run'}
    <2>1. CASE StartPipeline(w) \/ FinishPipeline(w)
      <3>1. runner[w].pc \in {"start", "save"} /\ ~ReadRunForSave(w) /\ runner'[w] # runner[w]
        <4>1. runner[w].pc \in {"start", "save"} /\ runner[w].seenRun # Unread
          BY <2>1 DEF StartPipeline, FinishPipeline, At
        <4>2. runner'[w].pc \in {"task", "raise", "return"}
          BY <2>1, StepTargets
        <4>. QED
          BY <4>1, <4>2 DEF ReadRunForSave
      <3>. QED
        BY <3>1, SeenRunAfter
    <2>2. CASE ~StartPipeline(w) /\ ~FinishPipeline(w)
      <3>1. UNCHANGED run
        BY <2>2, WritesElse
      <3>2. [runner[w] EXCEPT !.seenRun = run].seenRun = run
        BY <1>1 DEF RunnerType
      <3>. QED
        BY <3>1, <3>2, SeenRunAfter DEF Fresh
    <2>. QED
      BY <2>1, <2>2
  <1>. QED
    BY <1>2, <1>3 DEF Fresh, Cur

\* The row of the run is written at the start and at the end.
LEMMA RunWrites ==
    ASSUME TypeInv, SoloInv, NEW w \in Runners, StepOf(w)
    PROVE  /\ StartPipeline(w) => run' = [runner[w].run EXCEPT !.status = "RUNNING"]
           /\ FinishPipeline(w) => run' = [status |-> runner[w].final, result |-> runner[w].snapshot]
           /\ ~StartPipeline(w) /\ ~FinishPipeline(w) => UNCHANGED run
  <1>0. runner[w] \in RunnerType
    BY SlotType
  <1>1. ASSUME Busy(w), runner[w].seenRun # Unread PROVE runner[w].seenRun = run
    BY <1>1 DEF SoloInv, RunFollows, Fresh
  <1>2. ASSUME StartPipeline(w) PROVE run' = [runner[w].run EXCEPT !.status = "RUNNING"]
    <2>. DEFINE new == [runner[w].run EXCEPT !.status = "RUNNING"]
    <2>1. run' \in SavedRun(new, run)
      BY <1>1, <1>2 DEF StartPipeline, At, Busy
    <2>2. new \in RunRow
      BY <1>0 DEF RunnerType, RunRow, RunStatus
    <2>. HIDE DEF new
    <2>3. run' = new
      BY <2>1, <2>2, ExactRun
    <2>. QED
      BY <2>3 DEF new
  <1>3. ASSUME FinishPipeline(w)
        PROVE  run' = [status |-> runner[w].final, result |-> runner[w].snapshot]
    <2>. DEFINE new == [status |-> runner[w].final, result |-> runner[w].snapshot]
    <2>1. run' \in SavedRun(new, run)
      BY <1>1, <1>3 DEF FinishPipeline, At, Busy
    <2>2. new \in RunRow
      BY <1>0 DEF RunnerType, RunRow, RunStatus
    <2>. HIDE DEF new
    <2>3. run' = new
      BY <2>1, <2>2, ExactRun
    <2>. QED
      BY <2>3 DEF new
  <1>. QED
    BY <1>2, <1>3, WritesElse

\* A request that queues a run writes only its status.
LEMMA QueuesRun ==
    ASSUME TypeInv, SoloInv, NEW r \in Requests, MarkQueued(r)
    PROVE  run' = [run EXCEPT !.status = "QUEUED"]
  <1>. DEFINE new == [run EXCEPT !.status = "QUEUED"]
  <1>1. request[r].copy = run /\ request[r].seen = run
    BY DEF MarkQueued, SoloInv, RunFollows
  <1>2. run' \in SavedRun(new, run)
    BY <1>1 DEF MarkQueued
  <1>3. new \in RunRow
    BY DEF TypeInv, TypeOK, RunRow, RunStatus
  <1>. HIDE DEF new
  <1>4. run' = new
    BY <1>2, <1>3, ExactRun
  <1>. QED
    BY <1>4 DEF new

\* A runner comes to be at work by the start of the run only, and to be about
\* to start it by loading a run that is runnable.
LEMMA EntersWork ==
    ASSUME TypeInv, NEW w \in Runners, StepOf(w)
    PROVE  /\ runner'[w].pc \in ActivePcs => runner[w].pc \in ActivePcs \/ StartPipeline(w)
           /\ runner'[w].pc = "start" =>
                 \/ runner[w].pc = "start" /\ runner'[w].run = runner[w].run
                 \/ LoadRun(w) /\ run.status \notin NotRunnable /\ runner'[w].run = run
  <1>0. runner[w] \in RunnerType /\ runner \in [Runners -> RunnerType]
    BY SlotType
  <1>1. CASE LoadRun(w)
    <2>1. CASE run.status \in NotRunnable
      BY <1>1, <2>1, StepTargets DEF ActivePcs
    <2>2. CASE run.status \notin NotRunnable
      <3>1. runner'[w] = [runner[w] EXCEPT !.pc = "start", !.run = run]
        BY <1>1, <2>2, EarlySlots, Zenon
      <3>2. runner'[w].run = run /\ runner'[w].pc = "start"
        BY <1>0, <3>1 DEF RunnerType
      <3>. QED
        BY <1>1, <2>2, <3>2 DEF ActivePcs
    <2>. QED
      BY <2>1, <2>2
  <1>2. CASE \/ \E m \in Messages : Deliver(w, m)
             \/ RaiseTask(w) \/ ReturnTask(w) \/ Crash(w) \/ FaultOutside(w) \/ FinishPipeline(w)
    BY <1>2, StepTargets DEF ActivePcs, IdleRunner
  <1>3. CASE Redeliver(w) \/ ReadRunForSave(w) \/ ReadTaskForSave(w)
    <2>1. \/ runner'[w] = runner[w]
          \/ runner'[w] = [runner[w] EXCEPT !.seenRun = run]
          \/ runner'[w] = [runner[w] EXCEPT !.seenTask = tasks[Cur(w)]]
      BY <1>3, EarlySlots, BrokerSlots, Zenon
    <2>2. runner'[w].pc = runner[w].pc /\ runner'[w].run = runner[w].run
      BY <1>0, <2>1 DEF RunnerType
    <2>. QED
      BY <2>2
  <1>4. CASE FaultInTask(w) \/ FaultInLoop(w)
    <2>1. runner[w].pc \in ActivePcs
      BY <1>4 DEF FaultInTask, FaultInLoop, ActivePcs
    <2>2. runner'[w].pc \in {"failTask", "list", "raise"}
      BY <1>4, StepTargets
    <2>. QED
      BY <2>1, <2>2
  <1>5. CASE \/ StartPipeline(w) \/ ListTaskRuns(w)
             \/ PrepareTask(w) \/ SkipTask(w) \/ ValidateDependencies(w) \/ ResolveInputs(w)
             \/ StartTask(w) \/ CreateAndAttachJob(w) \/ PlanningFails(w) \/ ClaimJob(w)
             \/ FinishJob(w) \/ RecordTaskResult(w) \/ RecordingFails(w) \/ BlockTask(w)
             \/ FailTask(w)
    <2>1. runner[w].pc \in ActivePcs \/ StartPipeline(w)
      BY <1>5 DEF ListTaskRuns, PrepareTask, SkipTask, ValidateDependencies, ResolveInputs, StartTask,
          CreateAndAttachJob, PlanningFails, ClaimJob, FinishJob, RecordTaskResult, RecordingFails,
          BlockTask, FailTask, At, ActivePcs
    <2>2. runner'[w].pc \in ActivePcs /\ runner'[w].pc # "start"
      BY <1>5, StepTargets DEF ActivePcs
    <2>. QED
      BY <2>1, <2>2
  <1>. QED
    BY <1>1, <1>2, <1>3, <1>4, <1>5 DEF StepOf, RunnerStep

\* The workers keep the row of the run with the one at work.
LEMMA FollowsRunners ==
    ASSUME MaxRedeliveries = 0, TypeInv, TypeInv', SoloInv, NEW w \in Runners, StepOf(w)
    PROVE  RunFollows'
  <1>0. /\ runner[w] \in RunnerType /\ run \in RunRow
    BY SlotType
  <1>1. ASSUME NEW m \in Messages, Deliver(w, m) PROVE queue[m] > 0
    BY <1>1 DEF Deliver
  <1>2. MessageLive /\ run.status # "PENDING"
    BY <1>1, BusyOrDelivered DEF MessageLive, Busy, SoloInv, RunFollows
  <1>3. \A r \in Requests : ~Waiting(r)'
    BY <1>1, Alone, AloneInQueue, BusyOrDelivered, QueueSteps DEF Waiting, SoloInv
  <1>4. \A v \in Runners \ {w} : runner'[v].pc = "idle"
    BY <1>1, Alone, AloneInQueue, BusyOrDelivered, OneRunnerMoves DEF Busy, SoloInv
  <1>5. run'.status # "PENDING"
    <2>1. StartPipeline(w) => runner[w].run \in RunRow
      BY <1>0 DEF RunnerType
    <2>. QED
      BY <1>0, <1>2, <2>1, RunWrites DEF RunRow, RunnerType
  <1>6. runner'[w].pc \in ActivePcs => run'.status = "RUNNING"
    <2>1. CASE StartPipeline(w)
      <3>1. run' = [runner[w].run EXCEPT !.status = "RUNNING"]
        BY <2>1, RunWrites
      <3>. QED
        BY <1>0, <3>1 DEF RunnerType, RunRow
    <2>2. CASE FinishPipeline(w)
      BY <2>2, StepTargets DEF ActivePcs
    <2>3. CASE ~StartPipeline(w) /\ ~FinishPipeline(w)
      BY <2>3, EntersWork, RunWrites DEF SoloInv, RunFollows
    <2>. QED
      BY <2>1, <2>2, <2>3
  <1>7. runner'[w].pc = "start" => runner'[w].run = run' /\ run'.status \notin NotRunnable
    <2>1. CASE StartPipeline(w) \/ FinishPipeline(w)
      BY <2>1, StepTargets
    <2>2. CASE ~StartPipeline(w) /\ ~FinishPipeline(w)
      BY <2>2, EntersWork, RunWrites DEF SoloInv, RunFollows
    <2>. QED
      BY <2>1, <2>2
  <1>8. \A v \in Runners : Busy(v)' => Fresh(v)'
    <2>1. Fresh(w)'
      BY StaysFresh DEF SoloInv, RunFollows
    <2>. QED
      BY <1>4, <2>1 DEF Busy
  <1>. QED
    BY <1>3, <1>4, <1>5, <1>6, <1>7, <1>8 DEF RunFollows, Waiting, ActivePcs

\* So do the requests: one that queues the run finds it as it was validated.
LEMMA FollowsRequests ==
    ASSUME DisciplinedClient, TypeInv, SoloInv, NEW r \in Requests,
           \/ ValidateExecutable(r) \/ ReadForQueued(r) \/ MarkQueued(r) \/ SendTask(r)
           \/ RecordExecution(r) \/ RequestFault(r)
    PROVE  RunFollows'
  <1>0. request \in [Requests -> RequestType] /\ queue \in [Messages -> Nat] /\ run \in RunRow
    BY DEF TypeInv, TypeOK, RequestType
  <1>1. UNCHANGED <<runner, tasks>>
    BY DEF ValidateExecutable, ReadForQueued, MarkQueued, SendTask, RecordExecution, RequestFault
  <1>2. \A q \in Requests \ {r} : request'[q] = request[q]
    BY <1>0 DEF ValidateExecutable, ReadForQueued, MarkQueued, SendTask, RecordExecution, RequestFault
  <1>f. UNCHANGED run => \A w \in Runners : Busy(w)' => Fresh(w)'
    BY <1>1 DEF SoloInv, RunFollows, Fresh, Busy, Cur
  <1>3. CASE ValidateExecutable(r)
    <2>1. ~MessageLive /\ UNCHANGED <<run, queue>>
      BY <1>3 DEF ValidateExecutable, MayCall
    <2>2. \/ request'[r].pc = "refused"
          \/ /\ request'[r].pc = "validated" /\ request'[r].copy = run
             /\ request'[r].seen = Unread /\ run.status \notin NotExecutable
      BY <1>0, <1>3 DEF ValidateExecutable, RequestType
    <2>. QED
      BY <1>1, <1>2, <1>f, <2>1, <2>2 DEF SoloInv, RunFollows, MessageLive
  <1>4. CASE MarkQueued(r)
    <2>1. request[r].pc = "validated" /\ UNCHANGED queue
      BY <1>4 DEF MarkQueued
    <2>2. ~MessageLive /\ \A q \in Requests \ {r} : ~Open(q)
      BY <2>1 DEF SoloInv, Solo, Waiting, Open
    <2>3. request'[r].pc = "queued" /\ run'.status = "QUEUED"
      <3>1. run' = [run EXCEPT !.status = "QUEUED"]
        BY <1>4, QueuesRun
      <3>. QED
        BY <1>0, <1>4, <3>1 DEF MarkQueued, RequestType, RunRow
    <2>4. \A w \in Runners : runner'[w].pc = "idle"
      BY <1>1, <2>2 DEF MessageLive
    <2>. QED
      BY <1>2, <2>2, <2>3, <2>4 DEF RunFollows, Open, ActivePcs, Busy
  <1>5. CASE SendTask(r)
    <2>1. request[r].pc = "queued" /\ request'[r].pc = "sent" /\ UNCHANGED run
      BY <1>0, <1>5 DEF SendTask, RequestType
    <2>2. run.status # "PENDING"
      BY <2>1 DEF SoloInv, RunFollows
    <2>. QED
      BY <1>1, <1>2, <1>f, <2>1, <2>2 DEF SoloInv, RunFollows
  <1>6. CASE RecordExecution(r) \/ RequestFault(r)
    <2>1. request'[r].pc \in {"done", "error"} /\ UNCHANGED <<run, queue>>
      BY <1>0, <1>6 DEF RecordExecution, RequestFault, RequestType
    <2>. QED
      BY <1>1, <1>2, <1>f, <2>1 DEF SoloInv, RunFollows, MessageLive
  <1>7. CASE ReadForQueued(r)
    <2>1. /\ request[r].pc = "validated" /\ request'[r].pc = "validated"
          /\ request'[r].copy = request[r].copy /\ request'[r].seen = run
          /\ UNCHANGED <<run, queue>>
      BY <1>0, <1>7 DEF ReadForQueued, RequestType
    <2>. QED
      BY <1>1, <1>2, <1>f, <2>1 DEF SoloInv, RunFollows, MessageLive
  <1>. QED
    BY <1>3, <1>4, <1>5, <1>6, <1>7

\* Every step keeps one runner, and the run with it.
LEMMA SoloInvariant ==
    ASSUME DisciplinedClient, MaxRedeliveries = 0
    PROVE  /\ Init => SoloInv
           /\ TypeInv /\ SoloInv /\ [Next]_vars => SoloInv'
  <1>1. Init => SoloInv
    <2> SUFFICES ASSUME Init PROVE SoloInv
      OBVIOUS
    <2>1. /\ \A w \in Runners : runner[w].pc = "idle"
          /\ \A m \in Messages : queue[m] = 0
          /\ \A r \in Requests : request[r].pc = "idle"
      BY DEF Init, IdleRunner
    <2>. QED
      BY <2>1 DEF SoloInv, Solo, RunFollows, Busy, Waiting, Open, MessageLive, ActivePcs
  <1>2. ASSUME TypeInv, SoloInv, [Next]_vars PROVE SoloInv'
    <2>1. CASE \E r \in Requests : \/ ValidateExecutable(r) \/ ReadForQueued(r) \/ MarkQueued(r) \/ SendTask(r)
                                   \/ RecordExecution(r) \/ RequestFault(r)
      BY <1>2, <2>1, SoloRequests, FollowsRequests DEF SoloInv
    <2>2. CASE \E w \in Runners : StepOf(w)
      BY <1>2, <2>2, SoloRunners, FollowsRunners, PipelineNextType DEF SoloInv
    <2>3. CASE UNCHANGED vars
      BY <1>2, <2>3 DEF vars, SoloInv, Solo, RunFollows, Busy, Fresh, Cur, Waiting, Open,
          MessageLive
    <2>. QED
      BY <1>2, <2>1, <2>2, <2>3, PipelineSteps
  <1>. QED
    BY <1>1, <1>2

\* Task rows and jobs are written by a runner that is at work.
LEMMA WritersAreActive ==
    ASSUME NEW w \in Runners, StepOf(w), ~UNCHANGED <<tasks, jobs>>
    PROVE  runner[w].pc \in ActivePcs
  <1>1. \/ SkipTask(w) \/ StartTask(w) \/ CreateAndAttachJob(w) \/ ClaimJob(w) \/ FinishJob(w)
        \/ RecordTaskResult(w) \/ BlockTask(w) \/ FailTask(w) \/ FaultInTask(w)
    BY WritesElse
  <1>. QED
    BY <1>1 DEF SkipTask, StartTask, CreateAndAttachJob, ClaimJob, FinishJob, RecordTaskResult,
        BlockTask, FailTask, FaultInTask, At, ActivePcs

\* Once a run has SUCCEEDED, its row, its tasks and its jobs stay as they are.
LEMMA SucceededStays ==
    ASSUME TypeInv, SoloInv, [Next]_vars, run.status = "SUCCEEDED"
    PROVE  UNCHANGED <<run, tasks, jobs>>
  <1>1. ASSUME NEW r \in Requests,
               \/ ValidateExecutable(r) \/ ReadForQueued(r) \/ MarkQueued(r) \/ SendTask(r)
               \/ RecordExecution(r) \/ RequestFault(r)
        PROVE  UNCHANGED <<run, tasks, jobs>>
    <2>1. ~MarkQueued(r)
      BY DEF MarkQueued, SoloInv, RunFollows, NotExecutable
    <2>. QED
      BY <1>1, <2>1 DEF ValidateExecutable, ReadForQueued, SendTask, RecordExecution, RequestFault
  <1>2. ASSUME NEW w \in Runners, StepOf(w)
        PROVE  UNCHANGED <<run, tasks, jobs>>
    <2>1. runner[w].pc \notin ActivePcs /\ runner[w].pc # "start"
      BY DEF SoloInv, RunFollows, NotRunnable
    <2>2. UNCHANGED <<tasks, jobs>>
      BY <1>2, <2>1, WritersAreActive
    <2>3. ~StartPipeline(w) /\ ~FinishPipeline(w)
      BY <2>1 DEF StartPipeline, FinishPipeline, At, ActivePcs
    <2>. QED
      BY <1>2, <2>2, <2>3, RunWrites
  <1>3. CASE UNCHANGED vars
    BY <1>3 DEF vars
  <1>. QED
    BY <1>1, <1>2, <1>3, PipelineSteps

\* Nothing is changed in a run that SUCCEEDED: late requests are refused, late
\* messages are dropped, and no other runner is still at work on the run
\* (PipelineService.validate_executable, PipelineRunner._validate_runnable).
THEOREM SuccessIsFinal ==
    ASSUME DisciplinedClient, MaxRedeliveries = 0
    PROVE  Spec => SucceededIsFinal
  <1>1. TypeInv /\ SoloInv /\ [Next]_vars
            => [run.status = "SUCCEEDED" => UNCHANGED <<run, tasks, jobs>>]_vars
    BY SucceededStays
  <1>. QED
    BY <1>1, PipelineInitType, PipelineNextType, SoloInvariant, PTL DEF Spec, SucceededIsFinal

-----------------------------------------------------------------------------
(* One runner at a time writes whole task rows, so a row, its result and   *)
(* the job it names stay together.                                         *)

\* What the saves of task rows write, and what they leave in the slot.
LEMMA SeenIsThere ==
    ASSUME TypeInv, SoloInv, NEW w \in Runners, runner[w].pc # "idle", runner[w].seenTask # Unread
    PROVE  runner[w].seenTask = tasks[Cur(w)]
  BY DEF SoloInv, RunFollows, Fresh, Busy

LEMMA ExactSkip ==
    ASSUME TypeInv, SoloInv, NEW w \in Runners, SkipTask(w)
    PROVE  LET row == [runner[w].task EXCEPT !.status = "SKIPPED", !.result = SkippedResult]
           IN  /\ row \in TaskRow /\ row.status = "SKIPPED" /\ row.result = SkippedResult
               /\ tasks' = [tasks EXCEPT ![Cur(w)] = row]
  <1>. DEFINE row == [runner[w].task EXCEPT !.status = "SKIPPED", !.result = SkippedResult]
  <1>1. row \in TaskRow /\ row.status = "SKIPPED" /\ row.result = SkippedResult
    BY SlotType, NewDataType DEF TaskRow, TaskStatus
  <1>2. tasks' = [tasks EXCEPT ![Cur(w)] = SavedRow(w, row)]
    BY DEF SkipTask
  <1>3. runner[w].seenTask = tasks[Cur(w)]
    BY SeenIsThere DEF SkipTask, At
  <1>. HIDE DEF row
  <1>4. SavedRow(w, row) = row
    BY <1>1, <1>3, ExactTask
  <1>. QED
    BY <1>1, <1>2, <1>4 DEF row

LEMMA ExactStart ==
    ASSUME TypeInv, SoloInv, NEW w \in Runners, StartTask(w)
    PROVE  LET row == [runner[w].task EXCEPT !.status = "RUNNING"]
           IN  /\ row \in TaskRow /\ row.status = "RUNNING"
               /\ tasks' = [tasks EXCEPT ![Cur(w)] = row]
               /\ runner'[w] = [runner[w] EXCEPT !.pc = "plan", !.task = row, !.seenTask = Unread]
  <1>. DEFINE row == [runner[w].task EXCEPT !.status = "RUNNING"]
  <1>1. row \in TaskRow /\ row.status = "RUNNING"
    BY SlotType DEF TaskRow, TaskStatus
  <1>2. /\ tasks' = [tasks EXCEPT ![Cur(w)] = SavedRow(w, row)]
        /\ runner'[w] = [runner[w] EXCEPT !.pc = "plan", !.task = SavedRow(w, row), !.seenTask = Unread]
    BY EarlySlots DEF StartTask, SaveTask
  <1>3. runner[w].seenTask = tasks[Cur(w)]
    BY SeenIsThere DEF StartTask, SaveTask, At
  <1>. HIDE DEF row
  <1>4. SavedRow(w, row) = row
    BY <1>1, <1>3, ExactTask
  <1>. QED
    BY <1>1, <1>2, <1>4 DEF row

LEMMA ExactCreate ==
    ASSUME TypeInv, SoloInv, NEW w \in Runners, CreateAndAttachJob(w)
    PROVE  LET row == [runner[w].task EXCEPT !.job = Len(jobs')]
           IN  /\ row \in TaskRow /\ row.status = runner[w].task.status /\ row.job = Len(jobs')
               /\ tasks' = [tasks EXCEPT ![Cur(w)] = row]
               /\ runner'[w] = [runner[w] EXCEPT !.pc = "claim", !.task = row, !.seenTask = Unread]
  <1>. DEFINE row == [runner[w].task EXCEPT !.job = Len(jobs')]
              job == [task |-> Cur(w), status |-> "PENDING", verdict |-> "none",
                      inputs |-> runner[w].inputs]
  <1>0. Len(jobs') \in Nat
    <2>1. jobs \in Seq(Job) /\ jobs' = Append(jobs, job)
      BY SlotType DEF CreateAndAttachJob
    <2>. HIDE DEF job
    <2>2. Len(jobs') = Len(jobs) + 1 /\ Len(jobs) \in Nat
      BY <2>1
    <2>. QED
      BY <2>2
  <1>1. row \in TaskRow /\ row.status = runner[w].task.status /\ row.job = Len(jobs')
    BY <1>0, SlotType DEF TaskRow
  <1>2. /\ tasks' = [tasks EXCEPT ![Cur(w)] = SavedRow(w, row)]
        /\ runner'[w] = [runner[w] EXCEPT !.pc = "claim", !.task = SavedRow(w, row), !.seenTask = Unread]
    BY LateSlots DEF CreateAndAttachJob, SaveTask
  <1>3. runner[w].seenTask = tasks[Cur(w)]
    BY SeenIsThere DEF CreateAndAttachJob, SaveTask, At
  <1>. HIDE DEF row
  <1>4. SavedRow(w, row) = row
    BY <1>1, <1>3, ExactTask
  <1>. QED
    BY <1>1, <1>2, <1>4 DEF row

LEMMA ExactRecord ==
    ASSUME TypeInv, SoloInv, NEW w \in Runners, RecordTaskResult(w)
    PROVE  LET row == RecordedRow(runner[w].task)
               recorded == [runner[w] EXCEPT !.task = row]
           IN  /\ row \in TaskRow /\ recorded \in RunnerType
               /\ row.status = "SUCCEEDED" /\ row.job = runner[w].task.job
               /\ row.result.job = row.job /\ row.result.verdict = jobs[row.job].verdict
               /\ tasks' = [tasks EXCEPT ![Cur(w)] = row]
               /\ \/ /\ ~GateBlocks(Cur(w), row.result)
                     /\ runner'[w] = NextTurn(recorded)
                  \/ /\ GateBlocks(Cur(w), row.result)
                     /\ runner'[w] = [recorded EXCEPT !.pc = "blockTask", !.seenTask = Unread]
  <1>. DEFINE row == RecordedRow(runner[w].task)
  <1>0. runner[w].task.job \in DOMAIN jobs /\ TypeOK /\ Len(jobs) \in Nat /\ runner[w].task \in Rows(Len(jobs))
    BY SlotIds DEF RecordTaskResult, At, TypeInv, JobHeld, JobPcs
  <1>1. row \in Rows(Len(jobs))
    BY <1>0, RecordedRowType
  <1>2. row \in TaskRow
    BY <1>0, <1>1, MoreJobs
  <1>3. /\ row.status = "SUCCEEDED" /\ row.job = runner[w].task.job
        /\ row.result.job = row.job /\ row.result.verdict = jobs[row.job].verdict
    BY SlotType DEF RecordedRow, TaskRow
  <1>4. tasks' = [tasks EXCEPT ![Cur(w)] = SavedRow(w, row)]
    BY DEF RecordTaskResult
  <1>5. runner[w].seenTask = tasks[Cur(w)]
    BY SeenIsThere DEF RecordTaskResult, At
  <1>6. \E saved \in TaskRow :
              LET recorded == [runner[w] EXCEPT !.task = saved]
              IN  /\ saved = SavedRow(w, row) /\ recorded \in RunnerType
                  /\ \/ /\ ~GateBlocks(Cur(w), saved.result)
                        /\ runner'[w] = NextTurn(recorded)
                     \/ /\ GateBlocks(Cur(w), saved.result)
                        /\ runner'[w] = [recorded EXCEPT !.pc = "blockTask", !.seenTask = Unread]
    BY RecordedSlot
  <1>. HIDE DEF row
  <1>7. SavedRow(w, row) = row
    BY <1>2, <1>5, ExactTask
  <1>. QED
    BY <1>2, <1>3, <1>4, <1>6, <1>7 DEF row

LEMMA ExactEnd ==
    ASSUME TypeInv, SoloInv, NEW w \in Runners, NEW status \in {"BLOCKED", "FAILED"},
           \/ BlockTask(w) /\ status = "BLOCKED"
           \/ FailTask(w) /\ status = "FAILED"
    PROVE  LET row == [runner[w].task EXCEPT !.status = status]
           IN  /\ row \in TaskRow /\ row.status = status
               /\ tasks' = [tasks EXCEPT ![Cur(w)] = row]
               /\ runner'[w] = [TaskOver(runner[w], "list") EXCEPT !.final = status]
  <1>. DEFINE row == [runner[w].task EXCEPT !.status = status]
  <1>1. row \in TaskRow /\ row.status = status
    BY SlotType DEF TaskRow, TaskStatus
  <1>2. /\ tasks' = [tasks EXCEPT ![Cur(w)] = SavedRow(w, row)]
        /\ runner'[w] = [TaskOver(runner[w], "list") EXCEPT !.final = status]
    BY LateSlots DEF BlockTask, FailTask
  <1>3. runner[w].seenTask = tasks[Cur(w)]
    BY SeenIsThere DEF BlockTask, FailTask, At
  <1>. HIDE DEF row
  <1>4. SavedRow(w, row) = row
    BY <1>1, <1>3, ExactTask
  <1>. QED
    BY <1>1, <1>2, <1>4 DEF row

RowOK(t) ==
    tasks[t].status = "SUCCEEDED" =>
        /\ tasks[t].result.job = tasks[t].job /\ SucceededJob(tasks[t].job, t)
        /\ jobs[tasks[t].job].verdict = tasks[t].result.verdict

\* From the start of a task to its recording, the copy of its row is RUNNING.
StartedPcs == {"plan", "claim", "job", "record"}
Started(w) == runner[w].pc \in StartedPcs => runner[w].task.status = "RUNNING"

RowsSolo == /\ \A t \in Tasks : RowOK(t)
            /\ \A w \in Runners : Started(w)

\* What remains to be shown of a step of w's.
LEMMA RowsSoloFrame ==
    ASSUME TypeInv, RowsSolo, NEW w \in Runners, StepOf(w), JobsKept, Started(w)',
           \/ UNCHANGED tasks
           \/ \E row \in TaskRow :
                 /\ tasks' = [tasks EXCEPT ![Cur(w)] = row]
                 /\ row.status = "SUCCEEDED" =>
                       /\ row.result.job = row.job /\ row.job \in DOMAIN jobs'
                       /\ jobs'[row.job].task = Cur(w) /\ jobs'[row.job].status = "SUCCEEDED"
                       /\ jobs'[row.job].verdict = row.result.verdict
    PROVE  RowsSolo'
  <1>0. Cur(w) \in Tasks /\ tasks \in [Tasks -> TaskRow]
    BY SlotType
  <1>1. ASSUME NEW t \in Tasks, tasks'[t] = tasks[t] PROVE RowOK(t)'
    <2> SUFFICES ASSUME tasks[t].status = "SUCCEEDED"
                 PROVE  /\ tasks[t].result.job = tasks[t].job
                        /\ tasks[t].job \in DOMAIN jobs' /\ jobs'[tasks[t].job].task = t
                        /\ jobs'[tasks[t].job].status = "SUCCEEDED"
                        /\ jobs'[tasks[t].job].verdict = tasks[t].result.verdict
      BY <1>1 DEF RowOK, SucceededJob
    <2>1. RowOK(t)
      BY DEF RowsSolo
    <2>. QED
      BY <2>1 DEF RowOK, SucceededJob, JobsKept
  <1>2. ASSUME NEW t \in Tasks PROVE RowOK(t)'
    <2>1. CASE tasks'[t] = tasks[t]
      BY <1>1, <2>1
    <2>2. CASE tasks'[t] # tasks[t]
      <3>1. PICK row \in TaskRow :
                 /\ tasks' = [tasks EXCEPT ![Cur(w)] = row]
                 /\ row.status = "SUCCEEDED" =>
                       /\ row.result.job = row.job /\ row.job \in DOMAIN jobs'
                       /\ jobs'[row.job].task = Cur(w) /\ jobs'[row.job].status = "SUCCEEDED"
                       /\ jobs'[row.job].verdict = row.result.verdict
        BY <2>2
      <3>2. t = Cur(w) /\ tasks'[t] = row
        BY <1>0, <2>2, <3>1
      <3>. QED
        BY <3>1, <3>2 DEF RowOK, SucceededJob
    <2>. QED
      BY <2>1, <2>2
  <1>3. ASSUME NEW v \in Runners PROVE Started(v)'
    <2>1. CASE v # w
      BY <2>1, OneRunnerMoves DEF RowsSolo, Started
    <2>. QED
      BY <2>1
  <1>. QED
    BY <1>2, <1>3 DEF RowsSolo

\* The steps of w's other than saves leave the row and the copy alone, or do
\* not lead from the start to the recording.
LEMMA StartedReads ==
    ASSUME TypeInv, RowsSolo, NEW w \in Runners, StepOf(w),
           ~(\/ SkipTask(w) \/ StartTask(w) \/ CreateAndAttachJob(w) \/ RecordTaskResult(w)
             \/ BlockTask(w) \/ FailTask(w))
    PROVE  Started(w)'
  <1>0. runner[w] \in RunnerType /\ Started(w)
    BY SlotType DEF RowsSolo
  <1>1. CASE ClaimJob(w) \/ FinishJob(w)
    <2>1. PICK pc \in {"job", "record", "failTask"} : runner'[w] = [runner[w] EXCEPT !.pc = pc]
      BY <1>1, LateSlots
    <2>2. runner'[w].task = runner[w].task
      BY <1>0, <2>1 DEF RunnerType
    <2>3. runner[w].pc \in StartedPcs
      BY <1>1 DEF ClaimJob, FinishJob, At, StartedPcs
    <2>. QED
      BY <1>0, <2>2, <2>3 DEF Started
  <1>2. CASE Redeliver(w) \/ ReadRunForSave(w) \/ ReadTaskForSave(w)
    <2>1. \/ runner'[w] = runner[w]
          \/ runner'[w] = [runner[w] EXCEPT !.seenRun = run]
          \/ runner'[w] = [runner[w] EXCEPT !.seenTask = tasks[Cur(w)]]
      BY <1>2, EarlySlots, BrokerSlots, Zenon
    <2>2. runner'[w].pc = runner[w].pc /\ runner'[w].task = runner[w].task
      BY <1>0, <2>1 DEF RunnerType
    <2>. QED
      BY <1>0, <2>2 DEF Started
  <1>3. CASE ~(ClaimJob(w) \/ FinishJob(w) \/ Redeliver(w) \/ ReadRunForSave(w) \/ ReadTaskForSave(w))
    <2>1. runner'[w].pc \notin StartedPcs
      BY <1>3, StepTargets DEF StepOf, RunnerStep, IdleRunner, StartedPcs
    <2>. QED
      BY <2>1 DEF Started
  <1>. QED
    BY <1>1, <1>2, <1>3

\* Every step keeps rows and jobs together.
LEMMA RowsSoloInvariant ==
    /\ Init => RowsSolo
    /\ TypeInv /\ RowsInv /\ SoloInv /\ RowsSolo /\ [Next]_vars => RowsSolo'
  <1>1. Init => RowsSolo
    <2> SUFFICES ASSUME Init PROVE RowsSolo
      OBVIOUS
    <2>1. (\A t \in Tasks : tasks[t].status = "PENDING") /\ \A w \in Runners : runner[w].pc = "idle"
      BY DEF Init, NewTask, IdleRunner
    <2>. QED
      BY <2>1 DEF RowsSolo, RowOK, Started, StartedPcs
  <1>2. ASSUME TypeInv, RowsInv, SoloInv, RowsSolo, [Next]_vars, NEW w \in Runners, StepOf(w)
        PROVE  RowsSolo'
    <2>0. /\ runner[w] \in RunnerType /\ Started(w) /\ SlotOK(w) /\ JobsKept
      BY <1>2, SlotType, StepsKeepJobs DEF RowsSolo, RowsInv
    <2>1. CASE ~(\/ SkipTask(w) \/ StartTask(w) \/ CreateAndAttachJob(w) \/ RecordTaskResult(w)
                 \/ BlockTask(w) \/ FailTask(w))
      <3>1. UNCHANGED tasks /\ Started(w)'
        BY <1>2, <2>1, WritesElse, StartedReads
      <3>. QED
        BY <1>2, <2>0, <3>1, RowsSoloFrame
    <2>2. ASSUME NEW row \in TaskRow, tasks' = [tasks EXCEPT ![Cur(w)] = row],
                 row.status # "SUCCEEDED", Started(w)'
          PROVE  RowsSolo'
      BY <1>2, <2>0, <2>2, RowsSoloFrame
    <2>3. CASE SkipTask(w)
      <3>. DEFINE row == [runner[w].task EXCEPT !.status = "SKIPPED", !.result = SkippedResult]
      <3>1. row \in TaskRow /\ row.status = "SKIPPED" /\ tasks' = [tasks EXCEPT ![Cur(w)] = row]
        BY <1>2, <2>3, ExactSkip, Zenon
      <3>. HIDE DEF row
      <3>2. Started(w)'
        BY <1>2, <2>3, StepTargets DEF Started, StartedPcs
      <3>. QED
        BY <2>2, <3>1, <3>2
    <2>4. CASE StartTask(w)
      <3>. DEFINE row == [runner[w].task EXCEPT !.status = "RUNNING"]
      <3>1. /\ row \in TaskRow /\ row.status = "RUNNING" /\ tasks' = [tasks EXCEPT ![Cur(w)] = row]
            /\ runner'[w] = [runner[w] EXCEPT !.pc = "plan", !.task = row, !.seenTask = Unread]
        BY <1>2, <2>4, ExactStart, Zenon
      <3>. HIDE DEF row
      <3>2. runner'[w].task = row
        BY <2>0, <3>1 DEF RunnerType
      <3>. QED
        BY <2>2, <3>1, <3>2 DEF Started
    <2>5. CASE CreateAndAttachJob(w)
      <3>. DEFINE row == [runner[w].task EXCEPT !.job = Len(jobs')]
      <3>1. /\ row \in TaskRow /\ row.status = runner[w].task.status
            /\ tasks' = [tasks EXCEPT ![Cur(w)] = row]
            /\ runner'[w] = [runner[w] EXCEPT !.pc = "claim", !.task = row, !.seenTask = Unread]
        BY <1>2, <2>5, ExactCreate, Zenon
      <3>. HIDE DEF row
      <3>2. runner'[w].task = row
        BY <2>0, <3>1 DEF RunnerType
      <3>3. runner[w].task.status = "RUNNING"
        BY <2>0, <2>5 DEF CreateAndAttachJob, At, Started, StartedPcs
      <3>. QED
        BY <2>2, <3>1, <3>2, <3>3 DEF Started
    <2>6. CASE RecordTaskResult(w)
      <3>. DEFINE row == RecordedRow(runner[w].task)
      <3>1. /\ row \in TaskRow /\ row.job = runner[w].task.job
            /\ row.result.job = row.job /\ row.result.verdict = jobs[row.job].verdict
            /\ tasks' = [tasks EXCEPT ![Cur(w)] = row]
        BY <1>2, <2>6, ExactRecord
      <3>. HIDE DEF row
      <3>2. Started(w)'
        BY <1>2, <2>6, StepTargets DEF Started, StartedPcs
      <3>3. row.job \in DOMAIN jobs /\ jobs[row.job].task = Cur(w) /\ jobs[row.job].status = "SUCCEEDED"
        BY <1>2, <2>0, <2>6, <3>1 DEF RecordTaskResult, At, SlotOK, JobPcs, TypeInv, JobHeld
      <3>4. UNCHANGED jobs
        BY <2>6 DEF RecordTaskResult
      <3>. QED
        BY <1>2, <2>0, <3>1, <3>2, <3>3, <3>4, RowsSoloFrame
    <2>7. CASE BlockTask(w) \/ FailTask(w)
      <3>1. PICK status \in {"BLOCKED", "FAILED"} : \/ BlockTask(w) /\ status = "BLOCKED"
                                                    \/ FailTask(w) /\ status = "FAILED"
        BY <2>7
      <3>. DEFINE row == [runner[w].task EXCEPT !.status = status]
      <3>2. row \in TaskRow /\ row.status = status /\ tasks' = [tasks EXCEPT ![Cur(w)] = row]
        BY <1>2, <3>1, ExactEnd, Zenon
      <3>. HIDE DEF row
      <3>3. Started(w)'
        BY <1>2, <2>7, StepTargets DEF Started, StartedPcs
      <3>. QED
        BY <2>2, <3>2, <3>3
    <2>. QED
      BY <2>1, <2>3, <2>4, <2>5, <2>6, <2>7
  <1>3. ASSUME RowsSolo, UNCHANGED <<tasks, jobs, runner>> PROVE RowsSolo'
    BY <1>3 DEF RowsSolo, RowOK, SucceededJob, Started
  <1>4. ASSUME NEW r \in Requests,
               \/ ValidateExecutable(r) \/ ReadForQueued(r) \/ MarkQueued(r) \/ SendTask(r)
               \/ RecordExecution(r) \/ RequestFault(r)
        PROVE  UNCHANGED <<tasks, jobs, runner>>
    BY <1>4 DEF ValidateExecutable, ReadForQueued, MarkQueued, SendTask, RecordExecution, RequestFault
  <1>5. UNCHANGED vars => UNCHANGED <<tasks, jobs, runner>>
    BY DEF vars
  <1>. QED
    BY <1>1, <1>2, <1>3, <1>4, <1>5, PipelineSteps

\* With one runner at a time, and whatever fails between the end of a job and
\* the save of its task, a SUCCEEDED task row shows the result of the job it
\* names, which is the task's own and SUCCEEDED, although saves are made of
\* columns and rows keep ids and results of failed attempts
\* (PipelineTaskRunner.run, PipelineTaskResultRecorder.record).
THEOREM RowsAgreeWithJobs ==
    ASSUME DisciplinedClient, MaxRedeliveries = 0
    PROVE  Spec => []TaskRowConsistent
  <1>1. RowsSolo => TaskRowConsistent
    BY DEF RowsSolo, RowOK, SucceededJob, TaskRowConsistent
  <1>. QED
    BY <1>1, PipelineInitType, PipelineNextType, RowsInvariant, SoloInvariant, RowsSoloInvariant, PTL
    DEF Spec

-----------------------------------------------------------------------------
(* Tasks in order.  A task is touched only when all before it are done, so *)
(* what a task was given, and what the run shows at its end, stay true.    *)

IsDone(t) == tasks[t].status \in Done
TaskPcs == ActivePcs \ {"list", "save"}

Prefix == \A t, u \in Tasks : u < t /\ tasks[t] # NewTask => IsDone(u)
SkipsAreEmpty == \A t \in Tasks : tasks[t].status = "SKIPPED" => tasks[t].result = SkippedResult

\* The inputs resolved for the task at hand are its dependencies' results.
HeldInputs(w) ==
    \A d \in DependsOn[Cur(w)] :
        /\ runner[w].pc \in {"startTask", "plan"} => runner[w].inputs[d] = tasks[d].result.job
        /\ runner[w].pc \in JobPcs => jobs[runner[w].task.job].inputs[d] = tasks[d].result.job

Progress(w) ==
    /\ runner[w].pc \in {"load", "start"} => Cur(w) = 1
    /\ runner[w].pc \in TaskPcs => \A t \in Tasks : t < Cur(w) => IsDone(t)
    /\ runner[w].pc \in TaskPcs \ {"task", "blockTask"} => ~IsDone(Cur(w))
    /\ runner[w].pc = "blockTask" => \A t \in Tasks : t > Cur(w) => tasks[t] = NewTask
    /\ runner[w].pc \in {"list", "save"} /\ runner[w].final = "SUCCEEDED"
           => \A t \in Tasks : IsDone(t)
    /\ runner[w].pc = "save" => \A t \in Tasks : runner[w].snapshot[t] = tasks[t].result
    /\ HeldInputs(w)

OrderInv ==
    /\ Prefix /\ SkipsAreEmpty
    /\ \A w \in Runners : Progress(w)
    /\ LineageConsistent /\ SucceededIsComplete

AllInv == TypeInv /\ RowsInv /\ SoloInv /\ RowsSolo /\ OrderInv

\* After a turn the progress is what the rows say of the tasks up to the current.
LEMMA TurnProgress ==
    ASSUME TypeInv, NEW w \in Runners, NEW rn \in RunnerType, rn.cur = Cur(w),
           runner'[w] = NextTurn(rn),
           \A t \in Tasks : t <= Cur(w) => IsDone(t)'
    PROVE  Progress(w)'
  <1>0. Cur(w) \in Tasks /\ Tasks \subseteq Nat /\ NumTasks \in Nat /\ Tasks = 1..NumTasks
    BY SlotType, PipelineAssumption DEF Tasks
  <1>1. CASE runner'[w].pc = "list" /\ Cur(w) = NumTasks
    <2>1. \A t \in Tasks : IsDone(t)'
      BY <1>0, <1>1
    <2>. QED
      BY <1>1, <2>1 DEF Progress, HeldInputs, TaskPcs, JobPcs
  <1>2. CASE runner'[w].pc = "task" /\ Cur(w)' = Cur(w) + 1
    <2>1. \A t \in Tasks : t < Cur(w)' => IsDone(t)'
      BY <1>0, <1>2
    <2>. QED
      BY <1>2, <2>1 DEF Progress, HeldInputs, TaskPcs, JobPcs
  <1>3. /\ rn.cur = NumTasks => NextTurn(rn).pc = "list"
        /\ rn.cur # NumTasks => NextTurn(rn).pc = "task" /\ NextTurn(rn).cur = rn.cur + 1
    BY NextTurnForm, Zenon
  <1>. QED
    BY <1>1, <1>2, <1>3 DEF Cur

\* What remains to be shown of a step of w's that writes no task row.
LEMMA OrderReads ==
    ASSUME AllInv, NEW w \in Runners, StepOf(w), [Next]_vars, UNCHANGED tasks,
           Progress(w)', SucceededIsComplete',
           \A v \in Runners \ {w} : runner'[v].pc = "idle"
    PROVE  OrderInv'
  <1>1. JobsKept
    BY StepsKeepJobs DEF AllInv
  <1>2. \A v \in Runners : Progress(v)'
    <2>1. ASSUME NEW v \in Runners \ {w} PROVE Progress(v)'
      BY <2>1 DEF Progress, HeldInputs, TaskPcs, ActivePcs, JobPcs
    <2>. QED
      BY <2>1
  <1>3. LineageConsistent'
    <2> SUFFICES ASSUME NEW t \in Tasks, tasks[t].status = "SUCCEEDED", NEW d \in DependsOn[t]
                 PROVE  jobs'[tasks[t].result.job].inputs[d] = tasks[d].result.job
      BY DEF LineageConsistent
    <2>1. tasks[t].result.job \in DOMAIN jobs
      BY DEF AllInv, RowsSolo, RowOK, SucceededJob
    <2>. QED
      BY <1>1, <2>1 DEF JobsKept, AllInv, OrderInv, LineageConsistent
  <1>. QED
    BY <1>2, <1>3 DEF AllInv, OrderInv, Prefix, SkipsAreEmpty, IsDone

\* What remains to be shown of a step that saves the current task's row.
LEMMA OrderWrites ==
    ASSUME AllInv, NEW w \in Runners, StepOf(w), [Next]_vars, NEW row \in TaskRow,
           tasks' = [tasks EXCEPT ![Cur(w)] = row], UNCHANGED run,
           runner[w].pc \in TaskPcs \ {"task"},
           row.status = "SKIPPED" => row.result = SkippedResult,
           row.status = "SUCCEEDED" =>
               \A d \in DependsOn[Cur(w)] : jobs'[row.result.job].inputs[d] = tasks[d].result.job,
           Progress(w)',
           \A v \in Runners \ {w} : runner'[v].pc = "idle"
    PROVE  OrderInv'
  <1>0. Cur(w) \in Tasks /\ tasks \in [Tasks -> TaskRow] /\ Tasks \subseteq Nat
    BY SlotType DEF AllInv, Tasks
  <1>1. JobsKept
    BY StepsKeepJobs DEF AllInv
  <1>2. \A v \in Runners : Progress(v)'
    <2>1. ASSUME NEW v \in Runners \ {w} PROVE Progress(v)'
      BY <2>1 DEF Progress, HeldInputs, TaskPcs, ActivePcs, JobPcs
    <2>. QED
      BY <2>1
  <1>3. /\ \A t \in Tasks : t < Cur(w) => IsDone(t)
        /\ \A t \in Tasks : t > Cur(w) => tasks[t] = NewTask
    <2>1. Progress(w) /\ Prefix
      BY DEF AllInv, OrderInv
    <2>2. CASE runner[w].pc = "blockTask"
      BY <2>1, <2>2 DEF Progress
    <2>3. CASE runner[w].pc # "blockTask"
      BY <1>0, <2>1, <2>3 DEF Progress, Prefix
    <2>4. \A t \in Tasks : t < Cur(w) => IsDone(t)
      BY <2>1 DEF Progress
    <2>. QED
      BY <2>2, <2>3, <2>4
  <1>4. tasks'[Cur(w)] = row /\ \A t \in Tasks \ {Cur(w)} : tasks'[t] = tasks[t]
    BY <1>0
  <1>5. Prefix'
    <2> SUFFICES ASSUME NEW t \in Tasks, NEW u \in Tasks, u < t, tasks'[t] # NewTask
                 PROVE  IsDone(u)'
      BY DEF Prefix
    <2>0. t \in Nat /\ u \in Nat /\ Cur(w) \in Nat
      BY <1>0
    <2>1. ~(t > Cur(w))
      <3> SUFFICES ASSUME t > Cur(w) PROVE FALSE
        OBVIOUS
      <3>1. t # Cur(w)
        BY <2>0
      <3>. QED
        BY <1>3, <1>4, <3>1
    <2>2. u < Cur(w) /\ u # Cur(w)
      BY <2>0, <2>1
    <2>. QED
      BY <1>3, <1>4, <2>2 DEF IsDone
  <1>6. SkipsAreEmpty'
    BY <1>4 DEF AllInv, OrderInv, SkipsAreEmpty
  <1>7. LineageConsistent'
    <2> SUFFICES ASSUME NEW t \in Tasks, tasks'[t].status = "SUCCEEDED", NEW d \in DependsOn[t]
                 PROVE  jobs'[tasks'[t].result.job].inputs[d] = tasks'[d].result.job
      BY DEF LineageConsistent
    <2>1. d \in Tasks /\ d < t
      BY PipelineAssumption
    <2>2. CASE t = Cur(w)
      <3>1. d # Cur(w)
        BY <1>0, <2>1, <2>2
      <3>. QED
        BY <1>4, <2>1, <2>2, <3>1
    <2>3. CASE t # Cur(w)
      <3>1. tasks[t].status = "SUCCEEDED" /\ tasks'[t] = tasks[t]
        BY <1>4, <2>3
      <3>2. ~(t > Cur(w))
        BY <1>3, <3>1 DEF NewTask
      <3>3. d # Cur(w)
        BY <1>0, <2>1, <2>3, <3>2
      <3>4. tasks[t].result.job \in DOMAIN jobs
        BY <3>1 DEF AllInv, RowsSolo, RowOK, SucceededJob
      <3>5. jobs[tasks[t].result.job].inputs[d] = tasks[d].result.job
        BY <3>1 DEF AllInv, OrderInv, LineageConsistent
      <3>. QED
        BY <1>1, <1>4, <2>1, <3>1, <3>3, <3>4, <3>5 DEF JobsKept
    <2>. QED
      BY <2>2, <2>3
  <1>8. SucceededIsComplete'
    <2>1. run.status = "RUNNING"
      BY DEF TaskPcs, AllInv, SoloInv, RunFollows
    <2>. QED
      BY <2>1 DEF SucceededIsComplete
  <1>. QED
    BY <1>2, <1>5, <1>6, <1>7, <1>8 DEF OrderInv

\* While w takes a step, no other runner is, or gets, busy.
LEMMA OthersIdle ==
    ASSUME TypeInv, Solo, NEW w \in Runners, StepOf(w), NEW v \in Runners \ {w}
    PROVE  runner'[v].pc = "idle"
  <1>1. ASSUME NEW m \in Messages, Deliver(w, m) PROVE queue[m] > 0
    BY <1>1 DEF Deliver
  <1>. QED
    BY <1>1, Alone, AloneInQueue, BusyOrDelivered, OneRunnerMoves DEF Busy

\* The steps of w that write neither task rows nor jobs keep the order.
LEMMA ReadsInOrder ==
    ASSUME AllInv, [Next]_vars, NEW w \in Runners,
           \/ \E m \in Messages : Deliver(w, m)
           \/ LoadRun(w) \/ ReadRunForSave(w) \/ StartPipeline(w) \/ ListTaskRuns(w)
           \/ FinishPipeline(w) \/ PrepareTask(w) \/ ReadTaskForSave(w)
           \/ ValidateDependencies(w) \/ ResolveInputs(w)
           \/ PlanningFails(w) \/ RecordingFails(w) \/ RaiseTask(w) \/ ReturnTask(w)
           \/ FaultInLoop(w) \/ FaultOutside(w) \/ Crash(w) \/ Redeliver(w)
    PROVE  OrderInv'
  <1>0. /\ runner[w] \in RunnerType /\ Cur(w) \in Tasks /\ tasks \in [Tasks -> TaskRow]
        /\ runner \in [Runners -> RunnerType]
        /\ Progress(w) /\ Tasks \subseteq Nat /\ TypeInv
    BY SlotType DEF AllInv, OrderInv, Tasks
  <1>1. StepOf(w)
    BY DEF StepOf, RunnerStep
  <1>2. UNCHANGED <<tasks, jobs>>
    BY DEF Deliver, LoadRun, ReadRunForSave, StartPipeline, ListTaskRuns, FinishPipeline, PrepareTask,
        ReadTaskForSave, ValidateDependencies, ResolveInputs, PlanningFails, RecordingFails, RaiseTask, ReturnTask,
        FaultInLoop, FaultOutside, Crash, Redeliver
  <1>3. \A v \in Runners \ {w} : runner'[v].pc = "idle"
    BY <1>1, OthersIdle DEF AllInv, SoloInv
  <1>4. ASSUME Progress(w)', UNCHANGED run \/ run'.status # "SUCCEEDED" PROVE OrderInv'
    <2>1. SucceededIsComplete'
      BY <1>2, <1>4 DEF AllInv, OrderInv, SucceededIsComplete
    <2>. QED
      BY <1>1, <1>2, <1>3, <1>4, <2>1, OrderReads
  <1>5. ASSUME runner'[w].pc \in {"idle", "raise", "return"} PROVE Progress(w)'
    BY <1>5 DEF Progress, HeldInputs, TaskPcs, ActivePcs, JobPcs
  <1>6. CASE LoadRun(w)
    <2>1. \/ runner'[w] = Over(runner[w], "raise")
          \/ runner'[w] = [runner[w] EXCEPT !.pc = "start", !.run = run]
      BY <1>0, <1>6, EarlySlots
    <2>2. Over(runner[w], "raise").pc = "raise"
      BY DEF Over, IdleRunner
    <2>3. CASE runner'[w] = Over(runner[w], "raise")
      BY <1>4, <1>5, <1>6, <2>2, <2>3 DEF LoadRun
    <2>4. CASE runner'[w] = [runner[w] EXCEPT !.pc = "start", !.run = run]
      <3>1. runner'[w].pc = "start" /\ Cur(w)' = Cur(w)
        BY <1>0, <2>4 DEF RunnerType, Cur
      <3>2. Cur(w) = 1
        BY <1>0, <1>6 DEF LoadRun, At, Progress
      <3>3. Progress(w)'
        BY <3>1, <3>2 DEF Progress, HeldInputs, TaskPcs, ActivePcs, JobPcs
      <3>. QED
        BY <1>4, <1>6, <3>3 DEF LoadRun
    <2>. QED
      BY <2>1, <2>3, <2>4
  <1>7. CASE StartPipeline(w)
    <2>0. runner'[w] = [runner[w] EXCEPT !.pc = "task", !.run = NewRun, !.seenRun = Unread]
      BY <1>0, <1>7, EarlySlots, Zenon
    <2>1. runner'[w].pc = "task" /\ Cur(w)' = Cur(w)
      BY <1>0, <2>0 DEF RunnerType, Cur
    <2>2. Cur(w) = 1
      BY <1>0, <1>7 DEF StartPipeline, At, Progress
    <2>3. \A t \in Tasks : ~(t < 1)
      BY DEF Tasks
    <2>4. Progress(w)'
      BY <2>1, <2>2, <2>3 DEF Progress, HeldInputs, TaskPcs, ActivePcs, JobPcs
    <2>5. run'.status = "RUNNING"
      <3>1. run' = [runner[w].run EXCEPT !.status = "RUNNING"]
        BY <1>0, <1>1, <1>7, RunWrites DEF AllInv
      <3>. QED
        BY <1>0, <3>1 DEF RunnerType, RunRow
    <2>. QED
      BY <1>4, <2>4, <2>5
  <1>8. CASE ListTaskRuns(w)
    <2>1. /\ runner'[w].pc = "save" /\ runner'[w].final = runner[w].final
          /\ runner'[w].snapshot = [t \in Tasks |-> tasks[t].result]
      BY <1>0, <1>8 DEF ListTaskRuns, RunnerType
    <2>2. runner[w].pc = "list"
      BY <1>8 DEF ListTaskRuns, At
    <2>3. Progress(w)'
      BY <1>0, <1>2, <2>1, <2>2 DEF Progress, HeldInputs, TaskPcs, ActivePcs, JobPcs, IsDone
    <2>. QED
      BY <1>4, <1>8, <2>3 DEF ListTaskRuns
  <1>9. CASE FinishPipeline(w)
    <2>1. Progress(w)'
      BY <1>0, <1>5, <1>9, StepTargets
    <2>2. /\ runner[w].pc = "save" /\ run'.status = runner[w].final
          /\ run'.result = runner[w].snapshot
      <3>1. run' = [status |-> runner[w].final, result |-> runner[w].snapshot]
        BY <1>0, <1>1, <1>9, RunWrites DEF AllInv
      <3>. QED
        BY <1>9, <3>1 DEF FinishPipeline, At
    <2>3. SucceededIsComplete'
      BY <1>0, <1>2, <2>2 DEF Progress, SucceededIsComplete, IsDone, Done
    <2>. QED
      BY <1>1, <1>2, <1>3, <2>1, <2>3, OrderReads
  <1>10. CASE PrepareTask(w)
    <2>0. runner[w].pc = "task" /\ UNCHANGED run
      BY <1>10 DEF PrepareTask, At
    <2>1. CASE IsDone(Cur(w))
      <3>1. runner'[w] = NextTurn(runner[w])
        BY <1>10, <2>1, EarlySlots DEF IsDone, AllInv
      <3>2. \A t \in Tasks : t <= Cur(w) => IsDone(t)'
        <4>1. \A t \in Tasks : t < Cur(w) => IsDone(t)
          BY <1>0, <2>0 DEF Progress, TaskPcs, ActivePcs
        <4>2. ASSUME NEW t \in Tasks, t <= Cur(w) PROVE t < Cur(w) \/ t = Cur(w)
          <5>1. t \in Nat /\ Cur(w) \in Nat
            BY <1>0
          <5>. QED
            BY <4>2, <5>1
        <4>. QED
          BY <1>2, <2>1, <4>1, <4>2 DEF IsDone
      <3>3. Progress(w)'
        BY <1>0, <3>1, <3>2, TurnProgress DEF Cur, AllInv
      <3>. QED
        BY <1>4, <2>0, <3>3
    <2>2. CASE ~IsDone(Cur(w))
      <3>1. runner'[w].pc \in {"skip", "deps"} /\ Cur(w)' = Cur(w)
        <4>1. runner'[w] = [runner[w] EXCEPT !.pc = IF Cur(w) \in Skippable THEN "skip" ELSE "deps",
                                             !.task = tasks[Cur(w)]]
          BY <1>10, <2>2, EarlySlots DEF IsDone, AllInv
        <4>. QED
          BY <1>0, <4>1 DEF RunnerType, Cur
      <3>2. Progress(w)'
        BY <1>0, <1>2, <2>0, <2>2, <3>1
        DEF Progress, HeldInputs, TaskPcs, ActivePcs, JobPcs, IsDone
      <3>. QED
        BY <1>4, <2>0, <3>2
    <2>. QED
      BY <2>1, <2>2
  <1>11. CASE ValidateDependencies(w) \/ PlanningFails(w) \/ RecordingFails(w)
    <2>1. runner[w].pc \in {"deps", "plan", "record"} /\ UNCHANGED run
      BY <1>11 DEF ValidateDependencies, PlanningFails, RecordingFails, At
    <2>2. \E pc \in {"resolve", "failTask"} : runner'[w] = [runner[w] EXCEPT !.pc = pc]
      BY <1>11, EarlySlots, LateSlots DEF AllInv
    <2>3. runner'[w].pc \in {"resolve", "failTask"} /\ Cur(w)' = Cur(w)
      BY <1>0, <2>2 DEF RunnerType, Cur
    <2>4. Progress(w)'
      BY <1>0, <1>2, <2>1, <2>3 DEF Progress, HeldInputs, TaskPcs, ActivePcs, JobPcs, IsDone
    <2>. QED
      BY <1>4, <2>1, <2>4
  <1>12. CASE ResolveInputs(w)
    <2>. DEFINE inputs == [d \in Tasks |-> IF d \in DependsOn[Cur(w)] /\ tasks[d].status = "SUCCEEDED"
                                           THEN tasks[d].result.job ELSE 0]
    <2>1. runner[w].pc = "resolve" /\ UNCHANGED run
      BY <1>12 DEF ResolveInputs, At
    <2>2. runner'[w] = [runner[w] EXCEPT !.pc = "startTask", !.inputs = inputs]
      BY <1>12, EarlySlots DEF AllInv
    <2>3. ASSUME NEW d \in DependsOn[Cur(w)] PROVE inputs[d] = tasks[d].result.job
      <3>1. d \in Tasks /\ d < Cur(w)
        BY <1>0, PipelineAssumption
      <3>2. IsDone(d)
        BY <1>0, <2>1, <3>1 DEF Progress, TaskPcs, ActivePcs
      <3>. QED
        BY <3>1, <3>2 DEF IsDone, Done, AllInv, OrderInv, SkipsAreEmpty, SkippedResult
    <2>. HIDE DEF inputs
    <2>4. runner'[w].pc = "startTask" /\ runner'[w].inputs = inputs /\ Cur(w)' = Cur(w)
      BY <1>0, <2>2 DEF RunnerType, Cur
    <2>5. Progress(w)'
      BY <1>0, <1>2, <2>1, <2>3, <2>4 DEF Progress, HeldInputs, TaskPcs, ActivePcs, JobPcs, IsDone
    <2>. QED
      BY <1>4, <2>1, <2>5
  <1>13. CASE \/ \E m \in Messages : Deliver(w, m)
              \/ RaiseTask(w) \/ ReturnTask(w) \/ Crash(w) \/ Redeliver(w)
    <2>0. UNCHANGED run
      BY <1>13 DEF Deliver, RaiseTask, ReturnTask, Crash, Redeliver
    <2>1. CASE \E m \in Messages : Deliver(w, m)
      <3>1. runner'[w].pc = "load" /\ Cur(w)' = 1
        <4>1. ASSUME NEW m \in Messages, Deliver(w, m)
              PROVE  runner'[w].pc = "load" /\ Cur(w)' = 1
          BY <1>0, <4>1 DEF Deliver, IdleRunner, Cur
        <4>. QED
          BY <2>1, <4>1
      <3>. QED
        BY <1>4, <2>0, <3>1 DEF Progress, HeldInputs, TaskPcs, ActivePcs, JobPcs
    <2>2. CASE RaiseTask(w) \/ ReturnTask(w) \/ Crash(w)
      <3>1. runner'[w].pc = "idle"
        BY <1>0, <2>2, StepTargets DEF IdleRunner
      <3>. QED
        BY <1>4, <1>5, <2>0, <3>1
    <2>3. CASE Redeliver(w)
      <3>1. runner'[w] = runner[w]
        BY <2>3, BrokerSlots DEF AllInv
      <3>2. Progress(w)'
        BY <1>0, <1>2, <3>1 DEF Progress, HeldInputs, IsDone, Cur
      <3>. QED
        BY <1>4, <2>0, <3>2
    <2>. QED
      BY <1>13, <2>1, <2>2, <2>3
  <1>14. CASE FaultInLoop(w) \/ FaultOutside(w)
    <2>. DEFINE listed == [TaskOver(runner[w], "list") EXCEPT !.final = "FAILED", !.seenRun = Unread]
    <2>1. runner'[w] = listed \/ runner'[w] = Over(runner[w], "raise")
      BY <1>0, <1>14, BrokerSlots, Zenon
    <2>2. listed.pc = "list" /\ listed.final = "FAILED"
      BY <1>0, FaultedForm, Zenon
    <2>3. Over(runner[w], "raise").pc = "raise"
      BY DEF Over, IdleRunner
    <2>. HIDE DEF listed
    <2>4. Progress(w)'
      BY <2>1, <2>2, <2>3 DEF Progress, HeldInputs, TaskPcs, ActivePcs, JobPcs
    <2>. QED
      BY <1>4, <1>14, <2>4 DEF FaultInLoop, FaultOutside
  <1>15. CASE ReadRunForSave(w) \/ ReadTaskForSave(w)
    <2>0. UNCHANGED run
      BY <1>15 DEF ReadRunForSave, ReadTaskForSave
    <2>1. \/ runner'[w] = [runner[w] EXCEPT !.seenRun = run]
          \/ runner'[w] = [runner[w] EXCEPT !.seenTask = tasks[Cur(w)]]
      BY <1>0, <1>15, EarlySlots, Zenon
    <2>2. /\ runner'[w].pc = runner[w].pc /\ runner'[w].cur = runner[w].cur
          /\ runner'[w].inputs = runner[w].inputs /\ runner'[w].final = runner[w].final
          /\ runner'[w].snapshot = runner[w].snapshot /\ runner'[w].task = runner[w].task
      BY <1>0, <2>1 DEF RunnerType
    <2>3. Progress(w)'
      BY <1>0, <1>2, <2>2 DEF Progress, HeldInputs, IsDone, Cur
    <2>. QED
      BY <1>4, <2>0, <2>3
  <1>. QED
    BY <1>6, <1>7, <1>8, <1>9, <1>10, <1>11, <1>12, <1>13, <1>14, <1>15

\* The steps of w that write a job but no task row keep the order.
LEMMA JobsInOrder ==
    ASSUME AllInv, [Next]_vars, NEW w \in Runners, ClaimJob(w) \/ FinishJob(w) \/ FaultInTask(w)
    PROVE  OrderInv'
  <1>0. /\ runner[w] \in RunnerType /\ runner \in [Runners -> RunnerType]
        /\ Progress(w) /\ TypeInv /\ StepOf(w)
    BY SlotType DEF AllInv, OrderInv, StepOf, RunnerStep
  <1>1. UNCHANGED <<run, tasks>> /\ JobsKept
    BY StepsKeepJobs DEF AllInv, ClaimJob, FinishJob, FaultInTask
  <1>2. \A v \in Runners \ {w} : runner'[v].pc = "idle"
    BY <1>0, OthersIdle DEF AllInv, SoloInv
  <1>3. runner[w].pc \in TaskPcs \ {"task", "blockTask"}
    BY DEF ClaimJob, FinishJob, FaultInTask, At, TaskPcs, ActivePcs
  <1>4. ASSUME runner'[w].pc = "failTask", Cur(w)' = Cur(w) PROVE Progress(w)'
    BY <1>0, <1>1, <1>3, <1>4 DEF Progress, HeldInputs, TaskPcs, ActivePcs, JobPcs, IsDone
  <1>5. ASSUME runner[w].pc \in JobPcs, NEW pc \in {"job", "record"},
               runner'[w] = [runner[w] EXCEPT !.pc = pc]
        PROVE  Progress(w)'
    <2>1. runner'[w].pc = pc /\ runner'[w].task = runner[w].task /\ Cur(w)' = Cur(w)
      BY <1>0, <1>5 DEF RunnerType, Cur
    <2>2. runner[w].task.job \in DOMAIN jobs
      BY <1>0, <1>5 DEF TypeInv, JobHeld
    <2>3. jobs'[runner[w].task.job].inputs = jobs[runner[w].task.job].inputs
      BY <1>1, <2>2 DEF JobsKept
    <2>4. \A d \in DependsOn[Cur(w)] :
              jobs'[runner[w].task.job].inputs[d] = tasks[d].result.job
      BY <1>0, <1>5, <2>3 DEF Progress, HeldInputs
    <2>5. HeldInputs(w)'
      BY <1>1, <2>1, <2>4 DEF HeldInputs
    <2>. QED
      BY <1>0, <1>1, <1>3, <2>1, <2>5 DEF Progress, TaskPcs, ActivePcs, IsDone
  <1>6. Progress(w)'
    <2>1. CASE ClaimJob(w)
      BY <1>0, <1>5, <2>1, LateSlots DEF ClaimJob, At, JobPcs
    <2>2. CASE FinishJob(w)
      <3>1. PICK pc \in {"record", "failTask"} : runner'[w] = [runner[w] EXCEPT !.pc = pc]
        BY <1>0, <2>2, LateSlots
      <3>2. runner[w].pc \in JobPcs
        BY <2>2 DEF FinishJob, At, JobPcs
      <3>3. CASE pc = "failTask"
        BY <1>0, <1>4, <3>1, <3>3 DEF RunnerType, Cur
      <3>. QED
        BY <1>5, <3>1, <3>2, <3>3
    <2>3. CASE FaultInTask(w)
      <3>1. runner'[w].pc = "failTask" /\ Cur(w)' = Cur(w)
        <4>1. \E row : runner'[w] =
                  [runner[w] EXCEPT !.pc = "failTask", !.task = row, !.seenTask = Unread]
          BY <1>0, <2>3, BrokerSlots
        <4>. QED
          BY <1>0, <4>1 DEF RunnerType, Cur
      <3>. QED
        BY <1>4, <3>1
    <2>. QED
      BY <2>1, <2>2, <2>3
  <1>7. SucceededIsComplete'
    BY <1>1 DEF AllInv, OrderInv, SucceededIsComplete
  <1>. QED
    BY <1>0, <1>1, <1>2, <1>6, <1>7, OrderReads

\* The steps that save the row of the task at hand keep the order.
LEMMA WritesInOrder ==
    ASSUME AllInv, [Next]_vars, NEW w \in Runners,
           \/ SkipTask(w) \/ StartTask(w) \/ CreateAndAttachJob(w) \/ RecordTaskResult(w)
           \/ BlockTask(w) \/ FailTask(w)
    PROVE  OrderInv'
  <1>0. /\ runner[w] \in RunnerType /\ runner \in [Runners -> RunnerType]
        /\ runner[w].task \in TaskRow /\ Cur(w) \in Tasks /\ tasks \in [Tasks -> TaskRow]
        /\ Progress(w) /\ SlotOK(w) /\ Tasks \subseteq Nat /\ Cur(w) \in Nat
        /\ TypeInv /\ SoloInv /\ Started(w) /\ StepOf(w) /\ jobs \in Seq(Job)
    BY SlotType DEF AllInv, OrderInv, RowsInv, RowsSolo, StepOf, RunnerStep, Tasks
  <1>1. UNCHANGED run /\ JobsKept
    BY StepsKeepJobs DEF AllInv, SkipTask, StartTask, CreateAndAttachJob, RecordTaskResult,
        BlockTask, FailTask
  <1>2. \A v \in Runners \ {w} : runner'[v].pc = "idle"
    BY <1>0, OthersIdle DEF AllInv, SoloInv
  <1>3. runner[w].pc \in TaskPcs \ {"task"} /\ \A t \in Tasks : t < Cur(w) => IsDone(t)
    BY <1>0 DEF SkipTask, StartTask, CreateAndAttachJob, RecordTaskResult, BlockTask, FailTask,
        At, Progress, TaskPcs, ActivePcs
  <1>4. \A d \in DependsOn[Cur(w)] : d \in Tasks /\ d < Cur(w) /\ d # Cur(w)
    BY <1>0, PipelineAssumption
  <1>5. ASSUME NEW row \in TaskRow, tasks' = [tasks EXCEPT ![Cur(w)] = row],
               row.status \notin {"SUCCEEDED", "SKIPPED"}, Progress(w)'
        PROVE  OrderInv'
    BY <1>0, <1>1, <1>2, <1>3, <1>5, OrderWrites
  <1>6. ASSUME NEW row, tasks' = [tasks EXCEPT ![Cur(w)] = row]
        PROVE  /\ tasks'[Cur(w)] = row /\ \A t \in Tasks \ {Cur(w)} : tasks'[t] = tasks[t]
               /\ \A t \in Tasks : t < Cur(w) => IsDone(t)'
               /\ row.status \in Done => \A t \in Tasks : t <= Cur(w) => IsDone(t)'
    <2>1. tasks'[Cur(w)] = row /\ \A t \in Tasks \ {Cur(w)} : tasks'[t] = tasks[t]
      BY <1>0, <1>6
    <2>2. ASSUME NEW t \in Tasks, t < Cur(w) PROVE IsDone(t)'
      <3>1. t # Cur(w)
        BY <1>0, <2>2
      <3>. QED
        BY <1>3, <2>1, <2>2, <3>1 DEF IsDone
    <2>3. ASSUME row.status \in Done, NEW t \in Tasks, t <= Cur(w) PROVE IsDone(t)'
      <3>1. t \in Nat
        BY <1>0
      <3>2. t < Cur(w) \/ t = Cur(w)
        BY <1>0, <2>3, <3>1
      <3>. QED
        BY <2>1, <2>2, <2>3, <3>2 DEF IsDone
    <2>. QED
      BY <2>1, <2>2, <2>3
  <1>7. CASE SkipTask(w)
    <2>. DEFINE row == [runner[w].task EXCEPT !.status = "SKIPPED", !.result = SkippedResult]
    <2>1. /\ row \in TaskRow /\ row.status = "SKIPPED" /\ row.result = SkippedResult
          /\ tasks' = [tasks EXCEPT ![Cur(w)] = row]
      BY <1>0, <1>7, ExactSkip
    <2>2. runner'[w] = NextTurn(runner[w])
      BY <1>0, <1>7, EarlySlots, Zenon
    <2>. HIDE DEF row
    <2>3. \A t \in Tasks : t <= Cur(w) => IsDone(t)'
      BY <1>6, <2>1 DEF Done
    <2>4. Progress(w)'
      BY <1>0, <2>2, <2>3, TurnProgress DEF Cur
    <2>. QED
      BY <1>0, <1>1, <1>2, <1>3, <2>1, <2>2, <2>4, OrderWrites
  <1>8. CASE StartTask(w)
    <2>. DEFINE row == [runner[w].task EXCEPT !.status = "RUNNING"]
    <2>0. /\ row \in TaskRow /\ row.status = "RUNNING"
          /\ tasks' = [tasks EXCEPT ![Cur(w)] = row]
          /\ runner'[w] = [runner[w] EXCEPT !.pc = "plan", !.task = row, !.seenTask = Unread]
      BY <1>0, <1>8, ExactStart
    <2>1. row \in TaskRow /\ row.status = "RUNNING"
      BY <2>0
    <2>2. /\ tasks' = [tasks EXCEPT ![Cur(w)] = row]
          /\ runner'[w] = [runner[w] EXCEPT !.pc = "plan", !.task = row, !.seenTask = Unread]
      BY <2>0
    <2>. HIDE DEF row
    <2>3. runner'[w].pc = "plan" /\ runner'[w].inputs = runner[w].inputs /\ Cur(w)' = Cur(w)
      BY <1>0, <2>2 DEF RunnerType, Cur
    <2>4. \A d \in DependsOn[Cur(w)] : runner[w].inputs[d] = tasks[d].result.job
      BY <1>0, <1>8 DEF StartTask, At, Progress, HeldInputs
    <2>5. HeldInputs(w)'
      BY <1>4, <1>6, <2>2, <2>3, <2>4 DEF HeldInputs, JobPcs
    <2>6. ~IsDone(Cur(w))'
      <3>1. tasks'[Cur(w)].status = "RUNNING"
        BY <1>6, <2>1, <2>2
      <3>. QED
        BY <2>3, <3>1 DEF IsDone, Done
    <2>7. Progress(w)'
      BY <1>6, <2>2, <2>3, <2>5, <2>6 DEF Progress, TaskPcs
    <2>. QED
      BY <1>5, <2>1, <2>2, <2>7
  <1>9. CASE CreateAndAttachJob(w)
    <2>. DEFINE job == [task |-> Cur(w), status |-> "PENDING", verdict |-> "none",
                        inputs |-> runner[w].inputs]
                n == Len(jobs')
                row == [runner[w].task EXCEPT !.job = n]
    <2>0. jobs' = Append(jobs, job) /\ runner[w].pc = "plan"
      BY <1>9 DEF CreateAndAttachJob, At
    <2>1. n \in Nat /\ jobs'[n] = job
      <3>. HIDE DEF job
      <3>1. Len(jobs') = Len(jobs) + 1 /\ jobs'[Len(jobs) + 1] = job /\ Len(jobs) \in Nat
        BY <1>0, <2>0
      <3>. QED
        BY <3>1
    <2>2. jobs'[n].inputs = runner[w].inputs
      BY <2>1
    <2>3. /\ row \in TaskRow /\ row.status = runner[w].task.status /\ row.job = n
          /\ tasks' = [tasks EXCEPT ![Cur(w)] = row]
          /\ runner'[w] = [runner[w] EXCEPT !.pc = "claim", !.task = row, !.seenTask = Unread]
      BY <1>0, <1>9, ExactCreate
    <2>4. row \in TaskRow /\ row.status = "RUNNING" /\ row.job = n
      BY <1>0, <2>0, <2>3 DEF Started, StartedPcs
    <2>. HIDE DEF row, n
    <2>5. runner'[w].pc = "claim" /\ runner'[w].task = row /\ Cur(w)' = Cur(w)
      BY <1>0, <2>3 DEF RunnerType, Cur
    <2>6. \A d \in DependsOn[Cur(w)] : runner[w].inputs[d] = tasks[d].result.job
      BY <1>0, <2>0 DEF Progress, HeldInputs
    <2>7. HeldInputs(w)'
      BY <1>4, <1>6, <2>2, <2>3, <2>4, <2>5, <2>6 DEF HeldInputs
    <2>8. ~IsDone(Cur(w))'
      <3>1. tasks'[Cur(w)].status = "RUNNING"
        BY <1>6, <2>3, <2>4
      <3>. QED
        BY <2>5, <3>1 DEF IsDone, Done
    <2>9. Progress(w)'
      BY <1>6, <2>3, <2>5, <2>7, <2>8 DEF Progress, TaskPcs
    <2>. QED
      BY <1>5, <2>3, <2>4, <2>9
  <1>10. CASE RecordTaskResult(w)
    <2>. DEFINE j == runner[w].task.job
                row == RecordedRow(runner[w].task)
                recorded == [runner[w] EXCEPT !.task = row]
    <2>0. runner[w].pc = "record" /\ UNCHANGED jobs /\ j \in DOMAIN jobs
      BY <1>0, <1>10 DEF RecordTaskResult, At, JobPcs, TypeInv, JobHeld
    <2>3. /\ row \in TaskRow /\ recorded \in RunnerType
          /\ row.status = "SUCCEEDED" /\ row.result.job = row.job /\ row.job = j
          /\ tasks' = [tasks EXCEPT ![Cur(w)] = row]
          /\ \/ runner'[w] = [recorded EXCEPT !.pc = "blockTask", !.seenTask = Unread]
             \/ runner'[w] = NextTurn(recorded)
      BY <1>0, <1>10, ExactRecord
    <2>1. row \in TaskRow
      BY <2>3
    <2>2. row.status = "SUCCEEDED" /\ row.result.job = j
      BY <2>3
    <2>. HIDE DEF row
    <2>4. \A d \in DependsOn[Cur(w)] : jobs'[row.result.job].inputs[d] = tasks[d].result.job
      BY <1>0, <2>0, <2>2 DEF Progress, HeldInputs, JobPcs
    <2>5. \A t \in Tasks : t > Cur(w) => tasks[t] = NewTask
      BY <1>0, <2>0 DEF Progress, TaskPcs, ActivePcs, AllInv, OrderInv, Prefix
    <2>6. CASE runner'[w] = [recorded EXCEPT !.pc = "blockTask", !.seenTask = Unread]
      <3>1. runner'[w].pc = "blockTask" /\ Cur(w)' = Cur(w)
        BY <1>0, <2>6 DEF RunnerType, Cur
      <3>2. \A t \in Tasks : t > Cur(w) => tasks'[t] = NewTask
        BY <1>0, <1>6, <2>3, <2>5
      <3>3. Progress(w)'
        BY <1>6, <2>3, <3>1, <3>2 DEF Progress, HeldInputs, TaskPcs, JobPcs
      <3>. QED
        BY <1>0, <1>1, <1>2, <1>3, <2>1, <2>2, <2>3, <2>4, <3>3, OrderWrites
    <2>7. CASE runner'[w] = NextTurn(recorded)
      <3>1. recorded \in RunnerType /\ recorded.cur = Cur(w)
        BY <1>0, <2>1 DEF RunnerType, Cur
      <3>. HIDE DEF recorded
      <3>2. \A t \in Tasks : t <= Cur(w) => IsDone(t)'
        BY <1>6, <2>2, <2>3 DEF Done
      <3>3. Progress(w)'
        BY <1>0, <2>7, <3>1, <3>2, TurnProgress
      <3>. QED
        BY <1>0, <1>1, <1>2, <1>3, <2>1, <2>2, <2>3, <2>4, <3>3, OrderWrites
    <2>. QED
      BY <2>3, <2>6, <2>7
  <1>11. CASE BlockTask(w) \/ FailTask(w)
    <2>1. PICK status \in {"BLOCKED", "FAILED"} : \/ BlockTask(w) /\ status = "BLOCKED"
                                                  \/ FailTask(w) /\ status = "FAILED"
      BY <1>11
    <2>. DEFINE row == [runner[w].task EXCEPT !.status = status]
    <2>2. /\ row \in TaskRow /\ row.status = status
          /\ tasks' = [tasks EXCEPT ![Cur(w)] = row]
          /\ runner'[w] = [TaskOver(runner[w], "list") EXCEPT !.final = status]
      BY <1>0, <2>1, ExactEnd, Zenon
    <2>. HIDE DEF row
    <2>3. runner'[w].pc = "list" /\ runner'[w].final = status
      <3>1. LET listed == [TaskOver(runner[w], "list") EXCEPT !.final = status]
            IN  listed.pc = "list" /\ listed.final = status
        BY <1>0, ListedForm, Zenon
      <3>. QED
        BY <2>2, <3>1
    <2>4. Progress(w)'
      BY <2>3 DEF Progress, HeldInputs, TaskPcs, JobPcs
    <2>. QED
      BY <1>5, <2>2, <2>4
  <1>. QED
    BY <1>7, <1>8, <1>9, <1>10, <1>11

\* Every step keeps the order.
LEMMA OrderInvariant ==
    ASSUME DisciplinedClient, MaxRedeliveries = 0
    PROVE  /\ Init => AllInv
           /\ AllInv /\ [Next]_vars => AllInv'
  <1>1. Init => OrderInv
    <2> SUFFICES ASSUME Init PROVE OrderInv
      OBVIOUS
    <2>1. \A t \in Tasks : tasks[t] = NewTask
      BY DEF Init
    <2>2. \A w \in Runners : runner[w].pc = "idle"
      BY DEF Init, IdleRunner
    <2>3. run.status = "PENDING"
      BY DEF Init, NewRun
    <2>. QED
      BY <2>1, <2>2, <2>3 DEF OrderInv, Prefix, SkipsAreEmpty, Progress, HeldInputs, TaskPcs,
          ActivePcs, JobPcs, LineageConsistent, SucceededIsComplete, NewTask
  <1>2. ASSUME AllInv, UNCHANGED <<tasks, jobs, runner>>, UNCHANGED run \/ run'.status # "SUCCEEDED"
        PROVE  OrderInv'
    BY <1>2 DEF AllInv, OrderInv, Prefix, SkipsAreEmpty, Progress, HeldInputs, IsDone, Cur,
        LineageConsistent, SucceededIsComplete
  <1>3. ASSUME AllInv, [Next]_vars PROVE OrderInv'
    <2>1. ASSUME NEW r \in Requests,
                 \/ ValidateExecutable(r) \/ ReadForQueued(r) \/ MarkQueued(r) \/ SendTask(r)
                 \/ RecordExecution(r) \/ RequestFault(r)
          PROVE  OrderInv'
      <3>1. UNCHANGED <<tasks, jobs, runner>>
        BY <2>1
        DEF ValidateExecutable, ReadForQueued, MarkQueued, SendTask, RecordExecution, RequestFault
      <3>2. run \in RunRow
        BY <1>3 DEF AllInv, TypeInv, TypeOK
      <3>3. UNCHANGED run \/ run'.status = "QUEUED"
        <4>1. MarkQueued(r) => run' = [run EXCEPT !.status = "QUEUED"]
          BY <1>3, QueuesRun DEF AllInv
        <4>. QED
          BY <2>1, <3>2, <4>1
          DEF ValidateExecutable, ReadForQueued, SendTask, RecordExecution, RequestFault, RunRow
      <3>. QED
        BY <1>2, <1>3, <3>1, <3>3
    <2>2. ASSUME NEW w \in Runners, StepOf(w) PROVE OrderInv'
      BY <1>3, <2>2, ReadsInOrder, JobsInOrder, WritesInOrder DEF StepOf, RunnerStep
    <2>3. CASE UNCHANGED vars
      BY <1>2, <1>3, <2>3 DEF vars
    <2>. QED
      BY <1>3, <2>1, <2>2, <2>3, PipelineSteps
  <1>. QED
    BY <1>1, <1>3, PipelineInitType, PipelineNextType, RowsInvariant, SoloInvariant, RowsSoloInvariant
    DEF AllInv

\* A SUCCEEDED run is complete, and its result is what its task rows show,
\* whatever attempts, errors and crashes came before it (PipelineRunner.run,
\* build_pipeline_result_from_task_runs).
THEOREM SuccessIsComplete ==
    ASSUME DisciplinedClient, MaxRedeliveries = 0
    PROVE  Spec => []SucceededIsComplete
  <1>1. AllInv => SucceededIsComplete
    BY DEF AllInv, OrderInv
  <1>. QED
    BY <1>1, OrderInvariant, PTL DEF Spec

\* The job behind a task's result was given exactly the results that the
\* task's dependencies show, also after failed attempts, retries and
\* re-executions (PipelineTaskRunner.run, _resolve_upstream_task_refs).
THEOREM LineageIsWhole ==
    ASSUME DisciplinedClient, MaxRedeliveries = 0
    PROVE  Spec => []LineageConsistent
  <1>1. AllInv => LineageConsistent
    BY DEF AllInv, OrderInv
  <1>. QED
    BY <1>1, OrderInvariant, PTL DEF Spec

-----------------------------------------------------------------------------
(* Gates.  A blocking result is committed before the gate looks at it, and *)
(* a task that SUCCEEDED is passed over.  With no error between the two,   *)
(* and a run that a crash leaves RUNNING out of everybody's reach, nobody  *)
(* passes a gate that blocks.                                              *)

Blocking(g) == tasks[g].status = "SUCCEEDED" /\ GateBlocks(g, tasks[g].result)

\* A gate that blocks has only the runner at the gate at work, if any.
GateShut ==
    \A g \in Tasks : Blocking(g) =>
        /\ run.status = "RUNNING"
        /\ \A t \in Tasks : t > g => tasks[t] = NewTask
        /\ \A w \in Runners : runner[w].pc \in ActivePcs => runner[w].pc = "blockTask" /\ Cur(w) = g

\* A runner at the gate has recorded a result that blocks, and one that leaves
\* its loop early does so at a task that is not done.
EndsEarly(w) ==
    /\ runner[w].pc = "blockTask" => Blocking(Cur(w))
    /\ runner[w].pc \in {"list", "save"} /\ runner[w].final # "SUCCEEDED" =>
           /\ ~IsDone(Cur(w)) /\ \A t \in Tasks : t < Cur(w) => IsDone(t)
           /\ runner[w].final = "BLOCKED" => Cur(w) \in Gated

GateInv == GateShut /\ \A w \in Runners : EndsEarly(w)

\* What remains to be shown of a step of w's that writes no task row.
LEMMA GateReads ==
    ASSUME MaxFaults = 0, AllInv, GateInv, NEW w \in Runners, StepOf(w), UNCHANGED tasks,
           EndsEarly(w)'
    PROVE  GateInv'
  <1>0. TypeInv /\ faults \in Nat
    BY SlotType DEF AllInv
  <1>1. \A v \in Runners \ {w} : runner'[v].pc = "idle"
    BY <1>0, OthersIdle DEF AllInv, SoloInv
  <1>2. \A v \in Runners : EndsEarly(v)'
    <2>1. ASSUME NEW v \in Runners \ {w} PROVE EndsEarly(v)'
      BY <1>1, <2>1 DEF EndsEarly
    <2>. QED
      BY <2>1
  <1>3. ASSUME NEW g \in Tasks, Blocking(g)
        PROVE  runner'[w].pc \in ActivePcs => runner'[w].pc = "blockTask" /\ Cur(w)' = g
    <2>0. GateShut /\ SoloInv
      BY DEF GateInv, AllInv
    <2>1. run.status = "RUNNING"
      BY <1>3, <2>0 DEF GateShut
    <2>2. ~StartPipeline(w)
      BY <2>0, <2>1 DEF StartPipeline, At, SoloInv, RunFollows, NotRunnable
    <2>3. CASE runner[w].pc \in ActivePcs
      <3>1. runner[w].pc = "blockTask" /\ Cur(w) = g
        BY <1>3, <2>0, <2>3 DEF GateShut
      <3>2. BlockTask(w) \/ ReadTaskForSave(w) \/ Crash(w) \/ Redeliver(w)
        BY <1>0, <3>1 DEF StepOf, RunnerStep, Deliver, LoadRun, ReadRunForSave, StartPipeline,
            ListTaskRuns, FinishPipeline, PrepareTask, SkipTask, ValidateDependencies, ResolveInputs, StartTask,
            CreateAndAttachJob, PlanningFails, ClaimJob, FinishJob, RecordTaskResult,
            RecordingFails, FailTask, RaiseTask, ReturnTask, FaultInTask, FaultInLoop,
            FaultOutside, At
      <3>3. CASE Redeliver(w)
        <4>1. runner'[w] = runner[w]
          BY <1>0, <3>3, BrokerSlots
        <4>. QED
          BY <3>1, <4>1 DEF Cur
      <3>4. CASE Crash(w)
        BY <1>0, <3>4, StepTargets DEF IdleRunner, ActivePcs
      <3>5. CASE BlockTask(w)
        <4>. DEFINE row == [runner[w].task EXCEPT !.status = "BLOCKED"]
        <4>1. row.status = "BLOCKED" /\ tasks' = [tasks EXCEPT ![Cur(w)] = row]
          BY <1>0, <2>0, <3>5, ExactEnd, Zenon
        <4>. HIDE DEF row
        <4>2. tasks'[g].status = "BLOCKED"
          BY <1>0, <3>1, <4>1, SlotType
        <4>. QED
          BY <1>3, <4>2 DEF Blocking
      <3>6. CASE ReadTaskForSave(w)
        <4>1. runner'[w] = [runner[w] EXCEPT !.seenTask = tasks[Cur(w)]]
          BY <1>0, <3>6, EarlySlots, Zenon
        <4>2. runner'[w].pc = runner[w].pc /\ Cur(w)' = Cur(w)
          BY <1>0, <4>1, SlotType DEF RunnerType, Cur
        <4>. QED
          BY <3>1, <4>2
      <3>. QED
        BY <3>2, <3>3, <3>4, <3>5, <3>6
    <2>4. CASE runner[w].pc \notin ActivePcs
      BY <1>0, <2>2, <2>4, EntersWork
    <2>. QED
      BY <2>3, <2>4
  <1>4. ASSUME NEW g \in Tasks, Blocking(g) PROVE run' = run
    <2>0. GateShut /\ SoloInv
      BY DEF GateInv, AllInv
    <2>1. run.status = "RUNNING"
      BY <1>4, <2>0 DEF GateShut
    <2>2. ~StartPipeline(w)
      BY <2>0, <2>1 DEF StartPipeline, At, SoloInv, RunFollows, NotRunnable
    <2>3. ~FinishPipeline(w)
      <3> SUFFICES ASSUME runner[w].pc = "save" PROVE FALSE
        BY DEF FinishPipeline, At
      <3>. QED
        BY <1>4, <2>0 DEF GateShut, ActivePcs
    <2>. QED
      BY <1>0, <2>0, <2>2, <2>3, RunWrites
  <1>5. GateShut'
    <2> SUFFICES ASSUME NEW g \in Tasks, Blocking(g)'
                 PROVE  /\ run'.status = "RUNNING"
                        /\ \A t \in Tasks : t > g => tasks'[t] = NewTask
                        /\ \A v \in Runners : runner'[v].pc \in ActivePcs =>
                               runner'[v].pc = "blockTask" /\ Cur(v)' = g
      BY DEF GateShut
    <2>1. Blocking(g)
      BY DEF Blocking
    <2>2. run' = run /\ run.status = "RUNNING" /\ \A t \in Tasks : t > g => tasks'[t] = NewTask
      BY <1>4, <2>1 DEF GateInv, GateShut
    <2>3. ASSUME NEW v \in Runners, runner'[v].pc \in ActivePcs
          PROVE  runner'[v].pc = "blockTask" /\ Cur(v)' = g
      BY <1>1, <1>3, <2>1, <2>2, <2>3 DEF ActivePcs
    <2>. QED
      BY <2>2, <2>3
  <1>. QED
    BY <1>2, <1>5 DEF GateInv

\* What remains to be shown of a step that saves the current task's row.
LEMMA GateWrites ==
    ASSUME AllInv, GateInv, NEW w \in Runners, StepOf(w), NEW row,
           tasks' = [tasks EXCEPT ![Cur(w)] = row], UNCHANGED run,
           runner[w].pc \in TaskPcs \ {"task"},
           row.status = "SUCCEEDED" /\ GateBlocks(Cur(w), row.result) =>
               runner[w].pc # "blockTask" /\ runner'[w].pc = "blockTask" /\ Cur(w)' = Cur(w),
           EndsEarly(w)'
    PROVE  GateInv'
  <1>0. TypeInv /\ Cur(w) \in Tasks /\ tasks \in [Tasks -> TaskRow] /\ Tasks \subseteq Nat
    BY SlotType DEF AllInv, Tasks
  <1>1. \A v \in Runners \ {w} : runner'[v].pc = "idle"
    BY <1>0, OthersIdle DEF AllInv, SoloInv
  <1>2. \A v \in Runners : EndsEarly(v)'
    <2>1. ASSUME NEW v \in Runners \ {w} PROVE EndsEarly(v)'
      BY <1>1, <2>1 DEF EndsEarly
    <2>. QED
      BY <2>1
  <1>3. tasks'[Cur(w)] = row /\ \A t \in Tasks \ {Cur(w)} : tasks'[t] = tasks[t]
    BY <1>0
  <1>4. run.status = "RUNNING"
    BY DEF TaskPcs, AllInv, SoloInv, RunFollows
  <1>5. ASSUME NEW g \in Tasks, Blocking(g)' PROVE g = Cur(w)
    <2> SUFFICES ASSUME g # Cur(w) PROVE FALSE
      OBVIOUS
    <2>1. Blocking(g)
      BY <1>3, <1>5 DEF Blocking
    <2>. QED
      BY <2>1 DEF GateInv, GateShut, TaskPcs
  <1>6. GateShut'
    <2> SUFFICES ASSUME NEW g \in Tasks, Blocking(g)'
                 PROVE  /\ run'.status = "RUNNING"
                        /\ \A t \in Tasks : t > g => tasks'[t] = NewTask
                        /\ \A v \in Runners : runner'[v].pc \in ActivePcs =>
                               runner'[v].pc = "blockTask" /\ Cur(v)' = g
      BY DEF GateShut
    <2>1. g = Cur(w)
      BY <1>5
    <2>2. /\ runner[w].pc # "blockTask"
          /\ runner'[w].pc = "blockTask" /\ Cur(w)' = g
      BY <1>3, <2>1 DEF Blocking
    <2>3. ~IsDone(Cur(w)) /\ Prefix
      BY <2>2 DEF AllInv, OrderInv, Progress
    <2>4. ASSUME NEW t \in Tasks, t > g PROVE tasks'[t] = NewTask
      <3>1. t # Cur(w) /\ Cur(w) < t
        BY <1>0, <2>1, <2>4
      <3>. QED
        BY <1>0, <1>3, <2>3, <3>1 DEF Prefix
    <2>5. ASSUME NEW v \in Runners, runner'[v].pc \in ActivePcs
          PROVE  runner'[v].pc = "blockTask" /\ Cur(v)' = g
      BY <1>1, <2>2, <2>5 DEF ActivePcs
    <2>. QED
      BY <1>4, <2>4, <2>5
  <1>. QED
    BY <1>2, <1>6 DEF GateInv

\* A turn ends the loop only after the last task, and then well.
LEMMA TurnEndsWell ==
    ASSUME NEW w \in Runners, NEW rn \in RunnerType, runner'[w] = NextTurn(rn)
    PROVE  EndsEarly(w)'
  <1>1. /\ rn.cur = NumTasks => NextTurn(rn).pc = "list" /\ NextTurn(rn).final = "SUCCEEDED"
        /\ rn.cur # NumTasks => NextTurn(rn).pc = "task"
    BY NextTurnForm, Zenon
  <1>. QED
    BY <1>1 DEF EndsEarly

\* The steps of w that write no task row keep the gates shut.
LEMMA ReadsKeepGates ==
    ASSUME MaxFaults = 0, AllInv, GateInv, NEW w \in Runners, StepOf(w),
           ~(SkipTask(w) \/ StartTask(w) \/ CreateAndAttachJob(w) \/ RecordTaskResult(w)
             \/ BlockTask(w) \/ FailTask(w))
    PROVE  GateInv'
  <1>0. /\ TypeInv /\ runner[w] \in RunnerType /\ faults \in Nat
        /\ runner \in [Runners -> RunnerType]
    BY SlotType DEF AllInv
  <1>1. ~(FaultInTask(w) \/ FaultInLoop(w) \/ FaultOutside(w))
    <2>1. ~(faults < MaxFaults)
      BY <1>0
    <2>. QED
      BY <2>1 DEF FaultInTask, FaultInLoop, FaultOutside
  <1>2. UNCHANGED tasks
    BY WritesElse
  <1>3. ASSUME runner'[w].pc \notin {"blockTask", "list", "save"} PROVE EndsEarly(w)'
    BY <1>3 DEF EndsEarly
  <1>4. EndsEarly(w)'
    <2>1. CASE PrepareTask(w)
      <3>1. CASE tasks[Cur(w)].status \in Done
        <4>1. runner'[w] = NextTurn(runner[w])
          BY <1>0, <2>1, <3>1, EarlySlots, Zenon
        <4>. QED
          BY <1>0, <4>1, TurnEndsWell
      <3>2. CASE tasks[Cur(w)].status \notin Done
        <4>1. runner'[w] = [runner[w] EXCEPT !.pc = IF Cur(w) \in Skippable THEN "skip" ELSE "deps",
                                             !.task = tasks[Cur(w)]]
          BY <1>0, <2>1, <3>2, EarlySlots, Zenon
        <4>2. runner'[w].pc \in {"skip", "deps"}
          BY <1>0, <4>1 DEF RunnerType
        <4>. QED
          BY <1>3, <4>2
      <3>. QED
        BY <3>1, <3>2
    <2>2. CASE ListTaskRuns(w)
      <3>1. /\ runner'[w].pc = "save" /\ runner'[w].final = runner[w].final /\ Cur(w)' = Cur(w)
        BY <1>0, <2>2 DEF ListTaskRuns, RunnerType, Cur
      <3>2. runner[w].pc = "list" /\ EndsEarly(w)
        BY <2>2 DEF ListTaskRuns, At, GateInv
      <3>. QED
        BY <1>2, <3>1, <3>2 DEF EndsEarly, IsDone
    <2>3. CASE Redeliver(w)
      <3>1. runner'[w] = runner[w] /\ EndsEarly(w)
        BY <1>0, <2>3, BrokerSlots DEF GateInv
      <3>. QED
        BY <1>2, <3>1 DEF EndsEarly, IsDone, Cur, Blocking
    <2>4. CASE ReadRunForSave(w) \/ ReadTaskForSave(w)
      <3>1. \/ runner'[w] = [runner[w] EXCEPT !.seenRun = run]
            \/ runner'[w] = [runner[w] EXCEPT !.seenTask = tasks[Cur(w)]]
        BY <1>0, <2>4, EarlySlots, Zenon
      <3>2. /\ runner'[w].pc = runner[w].pc /\ runner'[w].final = runner[w].final
            /\ runner'[w].cur = runner[w].cur
        BY <1>0, <3>1 DEF RunnerType
      <3>3. EndsEarly(w)
        BY DEF GateInv
      <3>. QED
        BY <1>2, <3>2, <3>3 DEF EndsEarly, IsDone, Cur, Blocking
    <2>5. CASE \/ \E m \in Messages : Deliver(w, m)
               \/ LoadRun(w) \/ StartPipeline(w) \/ FinishPipeline(w) \/ ValidateDependencies(w)
               \/ ResolveInputs(w) \/ PlanningFails(w) \/ ClaimJob(w) \/ FinishJob(w) \/ RecordingFails(w) \/ RaiseTask(w)
               \/ ReturnTask(w) \/ Crash(w)
      BY <1>0, <1>3, <2>5, StepTargets DEF IdleRunner
    <2>. QED
      BY <1>1, <2>1, <2>2, <2>3, <2>4, <2>5 DEF StepOf, RunnerStep
  <1>. QED
    BY <1>2, <1>4, GateReads

\* A save of a task row keeps the gates shut: a blocking result takes the
\* runner that records it to the gate.
LEMMA WritesKeepGates ==
    ASSUME AllInv, GateInv, NEW w \in Runners, StepOf(w),
           \/ SkipTask(w) \/ StartTask(w) \/ CreateAndAttachJob(w) \/ RecordTaskResult(w)
           \/ BlockTask(w) \/ FailTask(w)
    PROVE  GateInv'
  <1>0. /\ TypeInv /\ runner[w] \in RunnerType /\ runner \in [Runners -> RunnerType]
        /\ runner[w].task \in TaskRow /\ Cur(w) \in Tasks /\ tasks \in [Tasks -> TaskRow]
        /\ SoloInv /\ Started(w) /\ Progress(w) /\ EndsEarly(w) /\ Tasks \subseteq Nat
    BY SlotType DEF AllInv, RowsSolo, OrderInv, GateInv, Tasks
  <1>1. UNCHANGED run /\ runner[w].pc \in TaskPcs \ {"task"}
    BY DEF SkipTask, StartTask, CreateAndAttachJob, RecordTaskResult, BlockTask, FailTask, At,
        TaskPcs, ActivePcs
  <1>2. ASSUME NEW row, tasks' = [tasks EXCEPT ![Cur(w)] = row], row.status # "SUCCEEDED",
               EndsEarly(w)'
        PROVE  GateInv'
    BY <1>1, <1>2, GateWrites
  <1>3. CASE SkipTask(w)
    <2>. DEFINE row == [runner[w].task EXCEPT !.status = "SKIPPED", !.result = SkippedResult]
    <2>1. row.status = "SKIPPED" /\ tasks' = [tasks EXCEPT ![Cur(w)] = row]
      BY <1>0, <1>3, ExactSkip, Zenon
    <2>. HIDE DEF row
    <2>2. runner'[w] = NextTurn(runner[w])
      BY <1>0, <1>3, EarlySlots, Zenon
    <2>3. EndsEarly(w)'
      BY <1>0, <2>2, TurnEndsWell
    <2>. QED
      BY <1>2, <2>1, <2>3
  <1>4. CASE StartTask(w)
    <2>. DEFINE row == [runner[w].task EXCEPT !.status = "RUNNING"]
    <2>1. row.status = "RUNNING" /\ tasks' = [tasks EXCEPT ![Cur(w)] = row]
      BY <1>0, <1>4, ExactStart, Zenon
    <2>. HIDE DEF row
    <2>2. runner'[w].pc = "plan"
      BY <1>0, <1>4, StepTargets
    <2>3. EndsEarly(w)'
      BY <2>2 DEF EndsEarly
    <2>. QED
      BY <1>2, <2>1, <2>3
  <1>5. CASE CreateAndAttachJob(w)
    <2>. DEFINE n == Len(jobs')
                row == [runner[w].task EXCEPT !.job = n]
    <2>1. row.status = runner[w].task.status /\ tasks' = [tasks EXCEPT ![Cur(w)] = row]
      BY <1>0, <1>5, ExactCreate, Zenon
    <2>2. row.status = "RUNNING"
      BY <1>0, <1>5, <2>1 DEF CreateAndAttachJob, At, Started, StartedPcs
    <2>. HIDE DEF row, n
    <2>3. runner'[w].pc = "claim"
      BY <1>0, <1>5, StepTargets
    <2>4. EndsEarly(w)'
      BY <2>3 DEF EndsEarly
    <2>. QED
      BY <1>2, <2>1, <2>2, <2>4
  <1>6. CASE RecordTaskResult(w)
    <2>. DEFINE row == RecordedRow(runner[w].task)
                recorded == [runner[w] EXCEPT !.task = row]
    <2>0. runner[w].pc = "record"
      BY <1>6 DEF RecordTaskResult, At
    <2>1. /\ row \in TaskRow /\ recorded \in RunnerType /\ row.status = "SUCCEEDED"
          /\ tasks' = [tasks EXCEPT ![Cur(w)] = row]
          /\ \/ /\ ~GateBlocks(Cur(w), row.result)
                /\ runner'[w] = NextTurn(recorded)
             \/ /\ GateBlocks(Cur(w), row.result)
                /\ runner'[w] = [recorded EXCEPT !.pc = "blockTask", !.seenTask = Unread]
      BY <1>0, <1>6, ExactRecord
    <2>2. tasks' = [tasks EXCEPT ![Cur(w)] = row] /\ row.status = "SUCCEEDED"
      BY <2>1
    <2>. HIDE DEF row
    <2>3. CASE GateBlocks(Cur(w), row.result)
      <3>0. runner'[w] = [recorded EXCEPT !.pc = "blockTask", !.seenTask = Unread]
        BY <2>1, <2>3
      <3>1. runner'[w].pc = "blockTask" /\ Cur(w)' = Cur(w)
        BY <1>0, <3>0 DEF RunnerType, Cur
      <3>2. EndsEarly(w)'
        <4>1. tasks'[Cur(w)] = row /\ row.status = "SUCCEEDED"
          BY <1>0, <2>2
        <4>. QED
          BY <2>3, <3>1, <4>1 DEF EndsEarly, Blocking
      <3>. QED
        BY <1>1, <2>0, <2>2, <3>1, <3>2, GateWrites
    <2>4. CASE ~GateBlocks(Cur(w), row.result)
      <3>1. recorded \in RunnerType /\ runner'[w] = NextTurn(recorded)
        BY <2>1, <2>4
      <3>. HIDE DEF recorded
      <3>2. EndsEarly(w)'
        BY <3>1, TurnEndsWell
      <3>. QED
        BY <1>1, <2>2, <2>4, <3>2, GateWrites
    <2>. QED
      BY <2>3, <2>4
  <1>7. CASE BlockTask(w) \/ FailTask(w)
    <2>1. PICK status \in {"BLOCKED", "FAILED"} : \/ BlockTask(w) /\ status = "BLOCKED"
                                                  \/ FailTask(w) /\ status = "FAILED"
      BY <1>7
    <2>. DEFINE row == [runner[w].task EXCEPT !.status = status]
    <2>2. /\ row.status = status /\ tasks' = [tasks EXCEPT ![Cur(w)] = row]
          /\ runner'[w] = [TaskOver(runner[w], "list") EXCEPT !.final = status]
      BY <1>0, <2>1, ExactEnd, Zenon
    <2>. HIDE DEF row
    <2>3. runner'[w].pc = "list" /\ runner'[w].final = status /\ Cur(w)' = Cur(w)
      <3>1. LET listed == [TaskOver(runner[w], "list") EXCEPT !.final = status]
            IN  listed.pc = "list" /\ listed.final = status /\ listed.cur = runner[w].cur
        BY <1>0, ListedForm, Zenon
      <3>. QED
        BY <2>2, <3>1 DEF Cur
    <2>4. status = "BLOCKED" => Cur(w) \in Gated
      BY <1>0, <2>1 DEF BlockTask, At, EndsEarly, Blocking, GateBlocks
    <2>5. tasks'[Cur(w)].status = status /\ \A t \in Tasks \ {Cur(w)} : tasks'[t] = tasks[t]
      BY <1>0, <2>2
    <2>6. ~IsDone(Cur(w))'
      BY <2>3, <2>5 DEF IsDone, Done
    <2>7. ASSUME NEW t \in Tasks, t < Cur(w) PROVE IsDone(t)'
      <3>1. t # Cur(w)
        BY <1>0, <2>7
      <3>2. IsDone(t)
        BY <1>0, <1>1, <2>7 DEF Progress
      <3>. QED
        BY <2>5, <3>1, <3>2 DEF IsDone
    <2>8. EndsEarly(w)'
      BY <2>3, <2>4, <2>6, <2>7 DEF EndsEarly
    <2>. QED
      BY <1>2, <2>2, <2>8
  <1>. QED
    BY <1>3, <1>4, <1>5, <1>6, <1>7

\* Every step keeps the gates shut.
LEMMA GateInvariant ==
    ASSUME DisciplinedClient, MaxRedeliveries = 0, MaxFaults = 0
    PROVE  /\ Init => GateInv
           /\ AllInv /\ GateInv /\ [Next]_vars => GateInv'
  <1>1. Init => GateInv
    <2> SUFFICES ASSUME Init PROVE GateInv
      OBVIOUS
    <2>1. \A t \in Tasks : tasks[t] = NewTask
      BY DEF Init
    <2>2. \A w \in Runners : runner[w].pc = "idle"
      BY DEF Init, IdleRunner
    <2>. QED
      BY <2>1, <2>2 DEF GateInv, GateShut, EndsEarly, Blocking, NewTask
  <1>2. ASSUME GateInv, UNCHANGED <<run, tasks, runner>> PROVE GateInv'
    BY <1>2 DEF GateInv, GateShut, EndsEarly, Blocking, IsDone, Cur
  <1>3. ASSUME AllInv, GateInv, [Next]_vars PROVE GateInv'
    <2>1. ASSUME NEW r \in Requests,
                 \/ ValidateExecutable(r) \/ ReadForQueued(r) \/ MarkQueued(r) \/ SendTask(r)
                 \/ RecordExecution(r) \/ RequestFault(r)
          PROVE  GateInv'
      <3>1. CASE MarkQueued(r)
        <4>1. UNCHANGED <<tasks, runner>> /\ run.status # "RUNNING"
          BY <1>3, <3>1 DEF MarkQueued, AllInv, SoloInv, RunFollows, NotExecutable
        <4>2. \A g \in Tasks : ~Blocking(g)'
          BY <1>3, <4>1 DEF GateInv, GateShut, Blocking
        <4>3. \A w \in Runners : EndsEarly(w)'
          BY <1>3, <4>1 DEF GateInv, EndsEarly, IsDone, Cur, Blocking
        <4>. QED
          BY <4>2, <4>3 DEF GateInv, GateShut
      <3>2. CASE ~MarkQueued(r)
        <4>1. UNCHANGED <<run, tasks, runner>>
          BY <2>1, <3>2
          DEF ValidateExecutable, ReadForQueued, SendTask, RecordExecution, RequestFault
        <4>. QED
          BY <1>2, <1>3, <4>1
      <3>. QED
        BY <3>1, <3>2
    <2>2. ASSUME NEW w \in Runners, StepOf(w) PROVE GateInv'
      BY <1>3, <2>2, ReadsKeepGates, WritesKeepGates
    <2>3. CASE UNCHANGED vars
      BY <1>2, <1>3, <2>3 DEF vars
    <2>. QED
      BY <1>3, <2>1, <2>2, <2>3, PipelineSteps
  <1>. QED
    BY <1>1, <1>3

\* Nothing after a gate that blocks has been touched, through all retries,
\* crashes and re-executions of the run (PipelineTaskRunner's quality gate,
\* PipelineQualityBlocked).
THEOREM GatesHold ==
    ASSUME DisciplinedClient, MaxRedeliveries = 0, MaxFaults = 0
    PROVE  Spec => []GateHolds
  <1>1. AllInv /\ GateInv => GateHolds
    <2> SUFFICES ASSUME AllInv, GateInv, NEW g \in Tasks, NEW t \in Tasks, g < t,
                        GateBlocks(g, tasks[g].result)
                 PROVE  tasks[t] = NewTask
      BY DEF GateHolds
    <2>1. CASE ~IsDone(g)
      BY <2>1 DEF AllInv, OrderInv, Prefix
    <2>2. CASE tasks[g].status = "SKIPPED"
      BY <2>2 DEF AllInv, OrderInv, SkipsAreEmpty, SkippedResult, GateBlocks
    <2>3. CASE Blocking(g)
      <3>1. t > g
        BY DEF Tasks
      <3>. QED
        BY <2>3, <3>1 DEF GateInv, GateShut
    <2>. QED
      BY <2>1, <2>2, <2>3 DEF Blocking, IsDone, Done
  <1>. QED
    BY <1>1, OrderInvariant, GateInvariant, PTL DEF Spec

-----------------------------------------------------------------------------
(* The abstract pipeline.  The tasks passed are those before the one at    *)
(* hand: a runner in a task has passed all before it and not this one, so  *)
(* the count goes up by one when the task is skipped, or recorded with a   *)
(* result that its gate lets through, and by nothing else.                 *)

PassedCount == Cardinality({t \in Tasks : \A u \in 1..t : Passed(u)})

\* Of a set of tasks that has exactly the first c, the prefix has c tasks.
LEMMA PrefixCount ==
    ASSUME NEW P \in SUBSET Tasks, NEW c \in 0..NumTasks, 1..c \subseteq P, c + 1 \notin P
    PROVE  Cardinality({t \in Tasks : \A u \in 1..t : u \in P}) = c
  <1>0. NumTasks \in Nat /\ c \in Nat /\ c <= NumTasks
    BY PipelineAssumption
  <1>1. {t \in Tasks : \A u \in 1..t : u \in P} = 1..c
    <2>1. ASSUME NEW t \in Tasks, \A u \in 1..t : u \in P PROVE t \in 1..c
      <3>1. t \in Nat /\ 1 <= t
        BY DEF Tasks
      <3>2. ~(c + 1 \in 1..t)
        BY <2>1
      <3>. QED
        BY <1>0, <3>1, <3>2
    <2>2. ASSUME NEW t \in 1..c PROVE t \in Tasks /\ \A u \in 1..t : u \in P
      <3>1. t \in Tasks
        BY <1>0 DEF Tasks
      <3>2. 1..t \subseteq 1..c
        BY <1>0
      <3>. QED
        BY <3>1, <3>2
    <2>. QED
      BY <2>1, <2>2
  <1>2. Cardinality(1..c) = c
    BY <1>0, FS_Interval
  <1>. QED
    BY <1>1, <1>2

\* The count now ...
LEMMA CountNow ==
    ASSUME NEW c \in 0..NumTasks, \A t \in Tasks : t <= c => Passed(t),
           c + 1 \in Tasks => ~Passed(c + 1)
    PROVE  PassedCount = c
  <1>. DEFINE P == {t \in Tasks : Passed(t)}
  <1>1. \A t \in Tasks : 1..t \subseteq Tasks
    BY PipelineAssumption DEF Tasks
  <1>2. {t \in Tasks : \A u \in 1..t : Passed(u)} = {t \in Tasks : \A u \in 1..t : u \in P}
    BY <1>1
  <1>3. 1..c \subseteq P /\ c + 1 \notin P /\ P \in SUBSET Tasks
    BY PipelineAssumption DEF Tasks
  <1>. HIDE DEF P
  <1>. QED
    BY <1>2, <1>3, PrefixCount DEF PassedCount

\* ... and after a step.
LEMMA CountNext ==
    ASSUME NEW c \in 0..NumTasks, \A t \in Tasks : t <= c => Passed(t)',
           c + 1 \in Tasks => ~Passed(c + 1)'
    PROVE  PassedCount' = c
  <1>. DEFINE P == {t \in Tasks : Passed(t)'}
  <1>1. \A t \in Tasks : 1..t \subseteq Tasks
    BY PipelineAssumption DEF Tasks
  <1>2. {t \in Tasks : \A u \in 1..t : Passed(u)'} = {t \in Tasks : \A u \in 1..t : u \in P}
    BY <1>1
  <1>3. 1..c \subseteq P /\ c + 1 \notin P /\ P \in SUBSET Tasks
    BY PipelineAssumption DEF Tasks
  <1>4. PassedCount' = Cardinality({t \in Tasks : \A u \in 1..t : Passed(u)'})
    BY DEF PassedCount
  <1>. HIDE DEF P
  <1>. QED
    BY <1>2, <1>3, <1>4, PrefixCount

\* When each task is as passed as before, the count is what it was.
LEMMA CountSame ==
    ASSUME \A t \in Tasks : Passed(t)' <=> Passed(t)
    PROVE  PassedCount' = PassedCount
  <1>1. \A t \in Tasks : 1..t \subseteq Tasks
    BY PipelineAssumption DEF Tasks
  <1>2. {t \in Tasks : \A u \in 1..t : Passed(u)'} = {t \in Tasks : \A u \in 1..t : Passed(u)}
    BY <1>1
  <1>3. PassedCount' = Cardinality({t \in Tasks : \A u \in 1..t : Passed(u)'})
    BY DEF PassedCount
  <1>. QED
    BY <1>2, <1>3 DEF PassedCount

\* A task that is done is passed, unless its gate is shut.
LEMMA DoneIsPassed ==
    ASSUME AllInv, NEW t \in Tasks
    PROVE  Passed(t) <=> IsDone(t) /\ ~Blocking(t)
  BY DEF AllInv, OrderInv, SkipsAreEmpty, SkippedResult, GateBlocks, Passed, IsDone, Done, Blocking

\* The same after a step: a task is passed exactly when it is done and does not block.
LEMMA DoneIsPassedNext ==
    ASSUME AllInv', NEW t \in Tasks
    PROVE  Passed(t)' <=> IsDone(t)' /\ ~Blocking(t)'
  BY DEF AllInv, OrderInv, SkipsAreEmpty, SkippedResult, GateBlocks, Passed, IsDone, Done, Blocking

\* Before a step of a runner that has left its loop early, or is in a task,
\* the tasks passed are those before its own.
LEMMA CountBeforeTask ==
    ASSUME AllInv, GateInv, NEW w \in Runners,
           \/ runner[w].pc \in TaskPcs \ {"task"}
           \/ runner[w].pc \in {"list", "save"} /\ runner[w].final # "SUCCEEDED"
    PROVE  /\ PassedCount = Cur(w) - 1 /\ ~Passed(Cur(w))
           /\ \A t \in Tasks : t < Cur(w) => Passed(t)
  <1>0. /\ TypeInv /\ Cur(w) \in Tasks /\ Tasks \subseteq Nat /\ Tasks = 1..NumTasks
        /\ Progress(w) /\ EndsEarly(w) /\ NumTasks \in Nat
    BY SlotType, PipelineAssumption DEF AllInv, OrderInv, GateInv, Tasks
  <1>1. \A t \in Tasks : t < Cur(w) => IsDone(t)
    BY <1>0 DEF Progress, EndsEarly
  <1>2. \A g \in Tasks : Blocking(g) => g = Cur(w)
    BY DEF GateInv, GateShut, TaskPcs, ActivePcs
  <1>3. ~Passed(Cur(w))
    <2>1. ~IsDone(Cur(w)) \/ Blocking(Cur(w))
      BY <1>0 DEF Progress, EndsEarly
    <2>. QED
      BY <1>0, <2>1, DoneIsPassed
  <1>4. \A t \in Tasks : t < Cur(w) => Passed(t)
    <2>1. \A t \in Tasks : t < Cur(w) => t # Cur(w)
      BY <1>0
    <2>. QED
      BY <1>1, <1>2, <2>1, DoneIsPassed
  <1>. DEFINE c == Cur(w) - 1
  <1>5. c \in 0..NumTasks /\ c + 1 = Cur(w) /\ \A t \in Tasks : t <= c => t < Cur(w)
    BY <1>0
  <1>. HIDE DEF c
  <1>6. PassedCount = c
    BY <1>3, <1>4, <1>5, CountNow
  <1>. QED
    BY <1>3, <1>4, <1>6 DEF c

\* The end of a run: all tasks are passed, or the run fails or is blocked at
\* the first that is not.
LEMMA FinishRefines ==
    ASSUME AllInv, GateInv, NEW w \in Runners, FinishPipeline(w)
    PROVE  Abstract!Succeed \/ Abstract!Block \/ Abstract!Fail
  <1>0. /\ TypeInv /\ runner[w] \in RunnerType /\ Cur(w) \in Tasks
        /\ Progress(w) /\ EndsEarly(w) /\ NumTasks \in Nat /\ Tasks = 1..NumTasks
    BY SlotType, PipelineAssumption DEF AllInv, OrderInv, GateInv, Tasks
  <1>1. /\ runner[w].pc = "save" /\ run'.status = runner[w].final /\ UNCHANGED tasks
        /\ runner[w].final \in {"SUCCEEDED", "BLOCKED", "FAILED"}
    <2>1. runner[w].pc = "save" /\ UNCHANGED tasks
      BY DEF FinishPipeline, At
    <2>2. run' = [status |-> runner[w].final, result |-> runner[w].snapshot]
      <3>1. StepOf(w)
        BY DEF StepOf, RunnerStep
      <3>. QED
        BY <1>0, <3>1, RunWrites DEF AllInv
    <2>3. runner[w].final \in {"SUCCEEDED", "BLOCKED", "FAILED"}
      BY <1>0 DEF RunnerType
    <2>. QED
      BY <2>1, <2>2, <2>3
  <1>2. run.status = "RUNNING"
    BY <1>1 DEF AllInv, SoloInv, RunFollows, ActivePcs
  <1>3. PassedCount' = PassedCount
    BY <1>1, CountSame DEF Passed
  <1>4. CASE runner[w].final = "SUCCEEDED"
    <2>1. \A t \in Tasks : IsDone(t) /\ ~Blocking(t)
      BY <1>0, <1>1, <1>4 DEF Progress, GateInv, GateShut, ActivePcs
    <2>2. \A t \in Tasks : Passed(t)
      BY <2>1, DoneIsPassed
    <2>3. NumTasks \in 0..NumTasks /\ NumTasks + 1 \notin Tasks
      BY <1>0
    <2>4. PassedCount = NumTasks
      BY <2>2, <2>3, CountNow
    <2>. QED
      BY <1>1, <1>2, <1>3, <1>4, <2>4 DEF Abstract!Succeed, PassedCount
  <1>5. CASE runner[w].final = "BLOCKED"
    <2>1. PassedCount = Cur(w) - 1 /\ Cur(w) \in Gated
      BY <1>1, <1>5, <1>0, CountBeforeTask DEF EndsEarly
    <2>2. PassedCount + 1 \in Gated
      BY <1>0, <2>1
    <2>. QED
      BY <1>1, <1>2, <1>3, <1>5, <2>2 DEF Abstract!Block, PassedCount
  <1>6. CASE runner[w].final = "FAILED"
    <2>1. PassedCount = Cur(w) - 1
      BY <1>1, <1>6, CountBeforeTask
    <2>2. PassedCount < NumTasks
      BY <1>0, <2>1
    <2>. QED
      BY <1>1, <1>2, <1>3, <1>6, <2>2 DEF Abstract!Fail, PassedCount
  <1>. QED
    BY <1>1, <1>4, <1>5, <1>6

\* A save of a task row passes that task, or leaves the count alone.
LEMMA WritesRefine ==
    ASSUME AllInv, AllInv', GateInv, GateInv', NEW w \in Runners, StepOf(w), NEW row,
           tasks' = [tasks EXCEPT ![Cur(w)] = row], UNCHANGED run,
           runner[w].pc \in TaskPcs \ {"task"}
    PROVE  Abstract!Pass \/ (run'.status = run.status /\ PassedCount' = PassedCount)
  <1>0. /\ TypeInv /\ Cur(w) \in Tasks /\ tasks \in [Tasks -> TaskRow] /\ Tasks \subseteq Nat
        /\ NumTasks \in Nat /\ Tasks = 1..NumTasks
    BY SlotType, PipelineAssumption DEF AllInv, Tasks
  <1>1. /\ PassedCount = Cur(w) - 1 /\ ~Passed(Cur(w))
        /\ \A t \in Tasks : t < Cur(w) => Passed(t)
    BY CountBeforeTask
  <1>2. \A t \in Tasks \ {Cur(w)} : Passed(t)' <=> Passed(t)
    BY <1>0 DEF Passed
  <1>3. run.status = "RUNNING"
    BY DEF AllInv, SoloInv, RunFollows, TaskPcs
  <1>c. PICK c \in Tasks : c = Cur(w)
    BY <1>0
  <1>4. CASE Passed(c)'
    <2>1. ASSUME NEW t \in Tasks, t <= c PROVE Passed(t)'
      <3>1. t = c \/ (t # c /\ t < c)
        BY <1>0, <2>1
      <3>. QED
        BY <1>c, <1>1, <1>2, <1>4, <3>1
    <2>2. c + 1 \in Tasks => ~Passed(c + 1)'
      <3> SUFFICES ASSUME c + 1 \in Tasks PROVE ~Passed(c + 1)'
        OBVIOUS
      <3>1. c + 1 # c /\ c + 1 > c /\ c < c + 1
        BY <1>0
      <3>2. tasks[c + 1] = NewTask
        <4>1. CASE ~IsDone(c)
          BY <1>0, <1>c, <3>1, <4>1 DEF AllInv, OrderInv, Prefix
        <4>2. CASE Blocking(c)
          BY <1>0, <3>1, <4>2 DEF GateInv, GateShut
        <4>. QED
          BY <1>c, <1>1, <4>1, <4>2, DoneIsPassed
      <3>3. ~Passed(c + 1)
        BY <3>2 DEF Passed, NewTask
      <3>. QED
        BY <1>c, <1>2, <3>1, <3>3
    <2>3. c \in 0..NumTasks /\ c - 1 < NumTasks /\ c = (c - 1) + 1
      BY <1>0
    <2>4. PassedCount' = c
      BY <2>1, <2>2, <2>3, CountNext
    <2>5. PassedCount = c - 1
      BY <1>c, <1>1
    <2>6. PassedCount' = PassedCount + 1 /\ PassedCount < NumTasks
      BY <2>3, <2>4, <2>5
    <2>. QED
      BY <1>3, <2>6 DEF Abstract!Pass, PassedCount
  <1>5. CASE ~Passed(c)'
    <2>1. \A t \in Tasks : Passed(t)' <=> Passed(t)
      BY <1>c, <1>1, <1>2, <1>5
    <2>. QED
      BY <2>1, CountSame
  <1>. QED
    BY <1>4, <1>5

\* Every step is one of the abstract pipeline's or leaves it alone.
LEMMA StepRefines ==
    ASSUME MaxFaults = 0, AllInv, AllInv', GateInv, GateInv', [Next]_vars
    PROVE  Abstract!Next \/ (run'.status = run.status /\ PassedCount' = PassedCount)
  <1>. DEFINE Refined == Abstract!Next \/ (run'.status = run.status /\ PassedCount' = PassedCount)
  <1>0. run \in RunRow /\ request \in [Requests -> RequestType] /\ TypeInv
    BY DEF AllInv, TypeInv, TypeOK, RequestType
  <1>1. ASSUME UNCHANGED tasks PROVE PassedCount' = PassedCount
    BY <1>1, CountSame DEF Passed
  <1>2. ASSUME NEW r \in Requests,
               \/ ValidateExecutable(r) \/ ReadForQueued(r) \/ MarkQueued(r) \/ SendTask(r)
               \/ RecordExecution(r) \/ RequestFault(r)
        PROVE  Refined
    <2>1. CASE MarkQueued(r)
      <3>1. /\ run.status \in {"PENDING", "QUEUED", "FAILED", "BLOCKED"}
            /\ run'.status = "QUEUED" /\ UNCHANGED tasks
        <4>1. run' = [run EXCEPT !.status = "QUEUED"]
          BY <2>1, QueuesRun DEF AllInv
        <4>2. run.status \notin NotExecutable /\ UNCHANGED tasks
          BY <2>1 DEF MarkQueued, AllInv, SoloInv, RunFollows
        <4>. QED
          BY <1>0, <4>1, <4>2 DEF NotExecutable, RunRow, RunStatus
      <3>2. Abstract!Queue
        BY <1>1, <3>1 DEF Abstract!Queue, PassedCount
      <3>. QED
        BY <3>2 DEF Abstract!Next
    <2>2. CASE ~MarkQueued(r)
      <3>1. UNCHANGED <<run, tasks>>
        BY <1>2, <2>2
        DEF ValidateExecutable, ReadForQueued, SendTask, RecordExecution, RequestFault
      <3>. QED
        BY <1>1, <3>1
    <2>. QED
      BY <2>1, <2>2
  <1>3. ASSUME NEW w \in Runners, StepOf(w) PROVE Refined
    <2>1. CASE StartPipeline(w)
      <3>1. runner[w].pc = "start" /\ run'.status = "RUNNING" /\ UNCHANGED tasks
        <4>1. run' = [runner[w].run EXCEPT !.status = "RUNNING"]
          BY <1>0, <1>3, <2>1, RunWrites DEF AllInv
        <4>2. runner[w] \in RunnerType
          BY <1>0, SlotType
        <4>. QED
          BY <2>1, <4>1, <4>2 DEF StartPipeline, At, RunnerType, RunRow
      <3>2. run.status \notin NotRunnable /\ run.status # "PENDING"
        BY <3>1 DEF AllInv, SoloInv, RunFollows, MessageLive
      <3>3. run.status \in {"QUEUED", "FAILED"}
        BY <1>0, <3>2 DEF RunRow, RunStatus, NotRunnable
      <3>4. Abstract!Start
        BY <1>1, <3>1, <3>3 DEF Abstract!Start, PassedCount
      <3>. QED
        BY <3>4 DEF Abstract!Next
    <2>2. CASE FinishPipeline(w)
      BY <2>2, FinishRefines DEF Abstract!Next
    <2>3. CASE ~StartPipeline(w) /\ ~FinishPipeline(w)
      <3>1. UNCHANGED run
        BY <1>3, <2>3, RunWrites DEF AllInv
      <3>2. CASE \/ SkipTask(w) \/ StartTask(w) \/ CreateAndAttachJob(w) \/ RecordTaskResult(w)
                 \/ BlockTask(w) \/ FailTask(w)
        <4>1. runner[w].pc \in TaskPcs \ {"task"}
          BY <3>2 DEF SkipTask, StartTask, CreateAndAttachJob, RecordTaskResult, BlockTask, FailTask,
              At, TaskPcs, ActivePcs
        <4>2. ASSUME NEW row, tasks' = [tasks EXCEPT ![Cur(w)] = row] PROVE Refined
          BY <1>3, <3>1, <4>1, <4>2, WritesRefine DEF Abstract!Next
        <4>. QED
          BY <3>2, <4>2 DEF SkipTask, StartTask, CreateAndAttachJob, SaveTask, RecordTaskResult,
              BlockTask, FailTask
      <3>3. CASE ~(\/ SkipTask(w) \/ StartTask(w) \/ CreateAndAttachJob(w) \/ RecordTaskResult(w)
                   \/ BlockTask(w) \/ FailTask(w))
        <4>1. UNCHANGED tasks
          BY <1>3, <3>3, WritesElse
        <4>. QED
          BY <1>1, <3>1, <4>1
      <3>. QED
        BY <3>2, <3>3
    <2>. QED
      BY <2>1, <2>2, <2>3
  <1>4. CASE UNCHANGED vars
    BY <1>1, <1>4 DEF vars
  <1>. QED
    BY <1>2, <1>3, <1>4, PipelineSteps

\* Under a client that executes a run one call at a time, and with no error
\* and no early redelivery, the platform implements AbstractPipeline: tasks
\* are passed one by one and in order, while the run is RUNNING, none is passed
\* twice or taken back, only a gate blocks the run, and success is final
\* (PipelineRunner.run; crashes and retries of the message are allowed).
THEOREM ImplementsPipeline ==
    ASSUME DisciplinedClient, MaxRedeliveries = 0, MaxFaults = 0
    PROVE  Spec => ImplementsAbstractPipeline
  <1>1. Init => Abstract!Init
    <2> SUFFICES ASSUME Init PROVE Abstract!Init
      OBVIOUS
    <2>1. \A t \in Tasks : ~Passed(t)
      BY DEF Init, NewTask, Passed
    <2>2. PassedCount = 0
      <3>1. 0 \in 0..NumTasks /\ \A t \in Tasks : ~(t <= 0)
        BY PipelineAssumption DEF Tasks
      <3>2. 0 + 1 \in Tasks => ~Passed(0 + 1)
        BY <2>1
      <3>. QED
        BY <3>1, <3>2, CountNow
    <2>. QED
      BY <2>2 DEF Init, NewRun, Abstract!Init, PassedCount
  <1>2. AllInv /\ AllInv' /\ GateInv /\ GateInv' /\ [Next]_vars
            => [Abstract!Next]_<<run.status, PassedCount>>
    BY StepRefines
  <1>3. [Abstract!Next]_<<run.status, PassedCount>>
          <=> [Abstract!Next]_<<run.status, Cardinality({t \in Tasks : \A u \in 1..t : Passed(u)})>>
    BY DEF PassedCount
  <1>. QED
    BY <1>1, <1>2, <1>3, OrderInvariant, GateInvariant, PTL
    DEF Spec, ImplementsAbstractPipeline, Abstract!Spec
=============================================================================
