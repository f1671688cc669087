----------------------------- MODULE JobWatcher -----------------------------
(***************************************************************************)
(* Somebody who waits for a job by polling its row until a deadline        *)
(* (DbPollingJobWatcher), composed with what the platform promises about   *)
(* the job (AbstractJob): a job that nobody executes or that loses its     *)
(* worker never ends, and a job that FAILED may be executed again.         *)
(***************************************************************************)
EXTENDS AbstractJob

CONSTANT FailOnTerminalFailure    \* raise, or return the failed job

VARIABLES
    watch,    \* where wait_until_terminal stands
    late      \* the deadline is past

watchVars == <<status, holders, watch, late>>

Waiting == {"polling", "checking", "sleeping"}
Ended == {"returned", "raisedFailure", "raisedTimeout"}

WatchInit == Init /\ watch = "idle" /\ late = FALSE

\* wait_until_terminal is called, and sets its deadline.
StartWaiting ==
    /\ watch = "idle"
    /\ watch' = "polling"
    /\ UNCHANGED <<status, holders, late>>

\* What a poll makes of the row it reads; no row at all is a timeout.
Seen ==
    CASE status = "ABSENT"    -> "raisedTimeout"
      [] status = "SUCCEEDED" -> "returned"
      [] status = "FAILED"    -> IF FailOnTerminalFailure THEN "raisedFailure" ELSE "returned"
      [] OTHER                -> "checking"

Poll ==
    /\ watch = "polling"
    /\ watch' = Seen
    /\ UNCHANGED <<status, holders, late>>

\* Variant: the deadline is not looked at.
CheckNothing ==
    /\ watch = "checking"
    /\ watch' = "sleeping"
    /\ UNCHANGED <<status, holders, late>>

\* The clock is read after the row: the job may have ended in between.
CheckDeadline ==
    /\ watch = "checking"
    /\ watch' = IF late THEN "raisedTimeout" ELSE "sleeping"
    /\ UNCHANGED <<status, holders, late>>

Sleep ==
    /\ watch = "sleeping"
    /\ watch' = "polling"
    /\ UNCHANGED <<status, holders, late>>

DeadlinePasses ==
    /\ watch \in Waiting /\ ~late
    /\ late' = TRUE
    /\ UNCHANGED <<status, holders, watch>>

JobMoves == Next /\ UNCHANGED <<watch, late>>

Watching == Poll \/ CheckDeadline \/ Sleep
WatchNext == JobMoves \/ StartWaiting \/ Watching \/ DeadlinePasses

\* The watcher runs and time passes; nobody has to execute the job.
WatchFairness == WF_watchVars(Watching) /\ WF_watchVars(DeadlinePasses)

WatchSpec == WatchInit /\ [][WatchNext]_watchVars /\ WatchFairness
-----------------------------------------------------------------------------
\* Whatever becomes of the job, be it that it never ends, ends between a poll
\* and the look at the clock, or is executed again, the wait comes to an end.
WatcherEnds == watch \in Waiting ~> watch \in Ended
=============================================================================
