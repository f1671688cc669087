----------------------------- MODULE AbstractJob -----------------------------
(***************************************************************************)
(* What the job platform promises about one job, with no API request,      *)
(* message, manifest copy or event in sight: a status that moves along the *)
(* edges below and nowhere else, and the set of workers that hold the job, *)
(* which never has two members.  A job is queued only while nobody holds   *)
(* it, and only its holder gives it a terminal status.                     *)
(*                                                                         *)
(* JobLifecycle implements this specification when its clients execute a   *)
(* job one call at a time (DisciplinedClient).                             *)
(***************************************************************************)
CONSTANT Workers
VARIABLES status, holders

Init == status = "ABSENT" /\ holders = {}

Create == status = "ABSENT" /\ status' = "PENDING" /\ UNCHANGED holders

\* Also after a failure, and again after a queueing that sent no message.
Queue ==
    /\ status \in {"PENDING", "QUEUED", "FAILED"}
    /\ holders = {}
    /\ status' = "QUEUED"
    /\ UNCHANGED holders

Take(w) ==
    /\ status \in {"PENDING", "QUEUED"}
    /\ holders = {}
    /\ status' = "RUNNING"
    /\ holders' = {w}

Succeed(w) ==
    /\ status = "RUNNING"
    /\ holders = {w}
    /\ status' = "SUCCEEDED"
    /\ UNCHANGED holders

\* Also after Succeed: the holder may fail to report its success.
Fail(w) ==
    /\ status \in {"RUNNING", "SUCCEEDED"}
    /\ holders = {w}
    /\ status' = "FAILED"
    /\ holders' = {}

\* The holder reports its success, or is lost.
Leave(w) ==
    /\ status \in {"RUNNING", "SUCCEEDED"}
    /\ holders = {w}
    /\ holders' = {}
    /\ UNCHANGED status

Next ==
    \/ Create
    \/ Queue
    \/ \E w \in Workers : Take(w) \/ Succeed(w) \/ Fail(w) \/ Leave(w)

Spec == Init /\ [][Next]_<<status, holders>>
=============================================================================
