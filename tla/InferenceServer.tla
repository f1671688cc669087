--------------------------- MODULE InferenceServer ---------------------------
(***************************************************************************)
(* The GroundingDINO server (inference_server/main.py) and the inference   *)
(* runs that are its clients: start with warmup, a semaphore that bounds   *)
(* the inferences at a time and the counter that readyz reports, clients   *)
(* that give up after their timeout while the server goes on, a graceful   *)
(* stop and a crash.                                                       *)
(*                                                                         *)
(* A client sends one request after the other, one per sample, and its run *)
(* fails with the first that has no answer; the job may be executed again. *)
(* The server's handlers share one event loop: one action is what happens  *)
(* between two awaits.                                                     *)
(***************************************************************************)
EXTENDS Naturals, Sequences, FiniteSets

CONSTANTS
    Clients,
    MaxConcurrent,   \* max_concurrent_inference_requests
    EnableWarmup,
    RequireWarmup,   \* require_warmup_success_for_ready
    MaxRequests,     \* bound on the requests of a client, over all executions
    MaxCrashes       \* bound on the losses of the server's process

ASSUME ServerAssumption ==
    /\ MaxConcurrent \in Nat \ {0} /\ MaxRequests \in Nat /\ MaxCrashes \in Nat
    /\ EnableWarmup \in BOOLEAN /\ RequireWarmup \in BOOLEAN

VARIABLES
    server,    \* the life of the process
    warmup,    \* how the warmup ended
    free,      \* permits of the semaphore
    active,    \* _concurrency.active_requests
    waiting,   \* requests that wait for a permit, in order
    handler,   \* per request: its handler
    client,    \* per client: what it does, and how many requests it has sent
    crashes

serverVars == <<server, warmup, free, active, waiting, handler, client, crashes>>

Requests == Clients \X (1..MaxRequests)
Current(c) == <<c, client[c].sent>>
InState(s) == {r \in Requests : handler[r] = s}
Open == {"waiting", "granted", "inferring"}

ServerInit ==
    /\ server = "down" /\ warmup = "none"
    /\ free = MaxConcurrent /\ active = 0 /\ waiting = <<>>
    /\ handler = [r \in Requests |-> "none"]
    /\ client = [c \in Clients |-> [pc |-> "ready", sent |-> 0]]
    /\ crashes = 0

-----------------------------------------------------------------------------
(* lifespan *)

\* Loading the model may raise: the process ends.
Load ==
    /\ server = "down"
    /\ server' \in {"down", IF EnableWarmup THEN "warming" ELSE "serving"}
    /\ warmup' = "none" /\ free' = MaxConcurrent /\ active' = 0
    /\ UNCHANGED <<waiting, handler, client, crashes>>

\* A warmup that fails does not keep the server from serving.
WarmUp ==
    /\ server = "warming"
    /\ warmup' \in {"succeeded", "failed"}
    /\ server' = "serving"
    /\ UNCHANGED <<free, active, waiting, handler, client, crashes>>

\* What readyz says.
Ready == server = "serving" /\ ~(warmup = "failed" /\ RequireWarmup)

\* No new connections; the globals are gone when the last handler has ended.
Stop ==
    /\ server = "serving"
    /\ server' = "stopping"
    /\ UNCHANGED <<warmup, free, active, waiting, handler, client, crashes>>

Stopped ==
    /\ server = "stopping"
    /\ \A r \in Requests : handler[r] \notin Open
    /\ server' = "down" /\ warmup' = "none"
    /\ UNCHANGED <<free, active, waiting, handler, client, crashes>>

\* Handlers, semaphore and counter are lost, and the connections close.
Crash ==
    /\ crashes < MaxCrashes /\ server # "down"
    /\ crashes' = crashes + 1
    /\ server' = "down" /\ warmup' = "none"
    /\ waiting' = <<>> /\ free' = MaxConcurrent /\ active' = 0
    /\ handler' = [r \in Requests |-> IF handler[r] \in Open THEN "closed" ELSE handler[r]]
    /\ client' = [c \in Clients |->
         IF client[c].pc = "asking" THEN [client[c] EXCEPT !.pc = "failed"] ELSE client[c]]

-----------------------------------------------------------------------------
(* The clients *)

\* The next sample.  Without permit, or behind others, the handler waits.
Post(c) ==
    LET r == <<c, client[c].sent + 1>>
    IN /\ client[c].pc = "ready" /\ client[c].sent < MaxRequests
       /\ server = "serving"
       /\ client' = [client EXCEPT ![c] = [pc |-> "asking", sent |-> @.sent + 1]]
       /\ IF free > 0 /\ waiting = <<>>
          THEN /\ handler' = [handler EXCEPT ![r] = "inferring"]
               /\ free' = free - 1 /\ active' = active + 1
               /\ UNCHANGED waiting
          ELSE /\ handler' = [handler EXCEPT ![r] = "waiting"]
               /\ waiting' = Append(waiting, r)
               /\ UNCHANGED <<free, active>>
       /\ UNCHANGED <<server, warmup, crashes>>

\* No connection.
PostFails(c) ==
    /\ client[c].pc = "ready" /\ client[c].sent < MaxRequests
    /\ server # "serving"
    /\ client' = [client EXCEPT ![c].pc = "failed"]
    /\ UNCHANGED <<server, warmup, free, active, waiting, handler, crashes>>

\* The timeout of the HTTP client; the handler does not learn of it.
GiveUp(c) ==
    /\ client[c].pc = "asking"
    /\ client' = [client EXCEPT ![c].pc = "failed"]
    /\ UNCHANGED <<server, warmup, free, active, waiting, handler, crashes>>

\* The job is executed again.
ExecuteAgain(c) ==
    /\ client[c].pc = "failed"
    /\ client' = [client EXCEPT ![c].pc = "ready"]
    /\ UNCHANGED <<server, warmup, free, active, waiting, handler, crashes>>

-----------------------------------------------------------------------------
(* detect *)

\* A handler that was given a permit goes on.
Resume(r) ==
    /\ handler[r] = "granted"
    /\ handler' = [handler EXCEPT ![r] = "inferring"]
    /\ active' = active + 1
    /\ UNCHANGED <<server, warmup, free, waiting, client, crashes>>

\* The semaphore's release hands the permit to the first in the queue.
Release(r) ==
    IF waiting = <<>>
    THEN /\ free' = free + 1
         /\ handler' = [handler EXCEPT ![r] = "closed"]
         /\ UNCHANGED waiting
    ELSE /\ handler' = [handler EXCEPT ![r] = "closed", ![Head(waiting)] = "granted"]
         /\ waiting' = Tail(waiting)
         /\ UNCHANGED free

\* Who still waits for the answer gets it: detections, or an HTTP error.
Answer(r, outcome) ==
    client' = [c \in Clients |->
        IF client[c].pc = "asking" /\ Current(c) = r
        THEN [client[c] EXCEPT !.pc = IF outcome = "detections" THEN "ready" ELSE "failed"]
        ELSE client[c]]

\* Variant: an exception skips the decrement of the counter.
InferenceEndsWithoutFinally(r) ==
    /\ handler[r] = "inferring"
    /\ \E outcome \in {"detections", "error"} :
         /\ Answer(r, outcome)
         /\ active' = IF outcome = "error" THEN active ELSE active - 1
    /\ Release(r)
    /\ UNCHANGED <<server, warmup, crashes>>

\* Variant: an exception skips the release of the semaphore.
InferenceEndsWithoutRelease(r) ==
    /\ handler[r] = "inferring"
    /\ \E outcome \in {"detections", "error"} :
         /\ Answer(r, outcome)
         /\ IF outcome = "error"
            THEN handler' = [handler EXCEPT ![r] = "closed"] /\ UNCHANGED <<free, waiting>>
            ELSE Release(r)
    /\ active' = active - 1
    /\ UNCHANGED <<server, warmup, crashes>>

\* The thread returns: detections, an image that is missing or not allowed, or
\* any other exception; counter and permit come back in every case.
InferenceEnds(r) ==
    /\ handler[r] = "inferring"
    /\ \E outcome \in {"detections", "error"} : Answer(r, outcome)
    /\ active' = active - 1
    /\ Release(r)
    /\ UNCHANGED <<server, warmup, crashes>>

-----------------------------------------------------------------------------
ServerNext ==
    \/ Load \/ WarmUp \/ Stop \/ Stopped \/ Crash
    \/ \E c \in Clients : Post(c) \/ PostFails(c) \/ GiveUp(c) \/ ExecuteAgain(c)
    \/ \E r \in Requests : Resume(r) \/ InferenceEnds(r)

\* The event loop runs and an inference ends; clients and operators are free.
ServerFairness == \A r \in Requests : WF_serverVars(Resume(r)) /\ WF_serverVars(InferenceEnds(r))

ServerSpec == ServerInit /\ [][ServerNext]_serverVars /\ ServerFairness
-----------------------------------------------------------------------------
(* Properties *)

\* Every permit is free or held by a handler that infers or is about to, the
\* counter that readyz reports is the number of those that infer and never
\* above the limit, and nobody waits while a permit is free; errors, clients
\* that gave up, restarts and crashes lose none.
SlotsAddUp ==
    /\ free + Cardinality(InState("granted")) + Cardinality(InState("inferring")) = MaxConcurrent
    /\ active = Cardinality(InState("inferring"))
    /\ Len(waiting) = Cardinality(InState("waiting"))
    /\ waiting # <<>> => free = 0

\* A request that the server took ends, whoever was before it in the queue and
\* whether or not its client still waits.
RequestsEnd == \A r \in Requests : handler[r] \in Open ~> handler[r] = "closed"
=============================================================================
