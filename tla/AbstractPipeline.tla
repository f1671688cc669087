-------------------------- MODULE AbstractPipeline --------------------------
(***************************************************************************)
(* What the platform promises about one pipeline run, with no message,     *)
(* task row, job or manifest copy in sight: the status of the run and the  *)
(* number of tasks it has passed.  Tasks are passed one by one, in order   *)
(* and only while the run is RUNNING; none is passed twice or taken back,  *)
(* whatever fails and is executed again; only a gated task blocks the run; *)
(* the run SUCCEEDED when all are passed, and that is final.               *)
(*                                                                         *)
(* PipelineExecution implements it when its clients execute a run one call *)
(* at a time, no transaction fails and no message is redelivered early.    *)
(***************************************************************************)
EXTENDS Naturals

CONSTANTS NumTasks, Gated
VARIABLES status, passed

Init == status = "PENDING" /\ passed = 0

\* Also after a failure and after a gate has blocked the run.
Queue ==
    /\ status \in {"PENDING", "QUEUED", "FAILED", "BLOCKED"}
    /\ status' = "QUEUED"
    /\ UNCHANGED passed

\* A FAILED run starts again without being queued: Celery retries the task.
Start ==
    /\ status \in {"QUEUED", "FAILED"}
    /\ status' = "RUNNING"
    /\ UNCHANGED passed

Pass ==
    /\ status = "RUNNING"
    /\ passed < NumTasks
    /\ passed' = passed + 1
    /\ UNCHANGED status

Succeed ==
    /\ status = "RUNNING"
    /\ passed = NumTasks
    /\ status' = "SUCCEEDED"
    /\ UNCHANGED passed

Block ==
    /\ status = "RUNNING"
    /\ passed + 1 \in Gated
    /\ status' = "BLOCKED"
    /\ UNCHANGED passed

Fail ==
    /\ status = "RUNNING"
    /\ passed < NumTasks
    /\ status' = "FAILED"
    /\ UNCHANGED passed

Next == Queue \/ Start \/ Pass \/ Succeed \/ Block \/ Fail

Spec == Init /\ [][Next]_<<status, passed>>
=============================================================================
