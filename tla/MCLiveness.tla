----------------------------- MODULE MCLiveness -----------------------------
(***************************************************************************)
(* What must eventually happen, on small instances: in a behaviour one     *)
(* `part` runs and the variables of the others keep their initial values.  *)
(* Each part runs under the fairness of its own module or a weaker one,    *)
(* with the part as a condition: a part that does not run owes no step.    *)
(***************************************************************************)
EXTENDS InferenceServer

CONSTANTS JobRequests, JobWorkers

VARIABLES
    part,
    row, jobRequest, jobQueue, worker, events, queuedEvents, jobRecords, claims,
    faults, losses, redeliveries,
    status, holders, watch, late

jobVars == <<row, jobRequest, jobQueue, worker, events, queuedEvents, jobRecords, claims,
             faults, losses, redeliveries>>
waitVars == <<status, holders, watch, late>>
allVars == <<part, serverVars, jobVars, waitVars>>

\* No error and no crash: one redelivery, and the retries of refused claims.
J == INSTANCE JobLifecycle
        WITH Requests <- JobRequests, Workers <- JobWorkers, NumSteps <- 1, MaxRetries <- 1,
             MaxFaults <- 0, MaxCrashes <- 0, MaxRedeliveries <- 1, DisciplinedClient <- FALSE,
             request <- jobRequest, queue <- jobQueue, records <- jobRecords, crashes <- losses

W == INSTANCE JobWatcher WITH Workers <- JobWorkers, FailOnTerminalFailure <- TRUE

-----------------------------------------------------------------------------
MCInit ==
    /\ part \in {"job", "server", "watcher"}
    /\ ServerInit /\ J!Init /\ W!WatchInit

MCNext ==
    /\ UNCHANGED part
    /\ \/ part = "job" /\ J!Next /\ UNCHANGED <<serverVars, waitVars>>
       \/ part = "server" /\ ServerNext /\ UNCHANGED <<jobVars, waitVars>>
       \/ part = "watcher" /\ W!WatchNext /\ UNCHANGED <<serverVars, jobVars>>

\* Weaker than the fairness of JobLifecycle, and enough: no request and no
\* message can keep the others waiting, because each takes finitely many steps.
JobFairness == WF_jobVars(part = "job" /\
    \/ \E r \in JobRequests : \/ J!ReadForQueued(r) \/ J!MarkQueued(r)
                              \/ J!SendTask(r) \/ J!RecordExecution(r)
    \/ \E w \in JobWorkers : J!RunStep(w) \/ \E m \in J!Messages : J!Deliver(w, m))

DetectorFairness ==
    \A r \in Requests : /\ WF_serverVars(part = "server" /\ Resume(r))
                        /\ WF_serverVars(part = "server" /\ InferenceEnds(r))

WaitFairness ==
    /\ WF_waitVars(part = "watcher" /\ W!Watching)
    /\ WF_waitVars(part = "watcher" /\ W!DeadlinePasses)

MCSpec ==
    /\ MCInit /\ [][MCNext]_allVars
    /\ JobFairness /\ DetectorFairness /\ WaitFairness
-----------------------------------------------------------------------------
\* A queued job ends although claims, deliveries and a second message race.
JobSettles == J!JobSettles

\* The wait for a job ends, whatever becomes of the job.
WatcherEnds == W!WatcherEnds
=============================================================================
