------------------------ MODULE InferenceServerProofs ------------------------
(***************************************************************************)
(* The permits, the counter and the queue of the inference server add up,  *)
(* for any clients, any limit and any number of requests and crashes.      *)
(***************************************************************************)
EXTENDS InferenceServer, FiniteSetTheorems, SequenceTheorems, TLAPS

-----------------------------------------------------------------------------
(* The inductive invariant *)

HandlerStates == Open \cup {"none", "closed"}

ServerTypeOK ==
    /\ server \in {"down", "warming", "serving", "stopping"}
    /\ free \in Nat /\ active \in Nat
    /\ waiting \in Seq(Requests)
    /\ handler \in [Requests -> HandlerStates]
    /\ client \in [Clients -> [pc : {"ready", "asking", "failed"}, sent : 0..MaxRequests]]

\* The queue names every handler that waits, and none twice.
QueueIsWaiting ==
    /\ \A i \in 1..Len(waiting) : handler[waiting[i]] = "waiting"
    /\ \A r \in InState("waiting") : \E i \in 1..Len(waiting) : waiting[i] = r
    /\ \A i, j \in 1..Len(waiting) : waiting[i] = waiting[j] => i = j

\* The request that a client sends next has no handler yet.
NextIsNew == \A c \in Clients, n \in 1..MaxRequests :
                 client[c].sent < n => handler[<<c, n>>] = "none"

\* Without a server that takes requests, or lets the last ones end, none is open.
DownIsEmpty == server \in {"down", "warming"} => \A r \in Requests : handler[r] \notin Open

FiniteStates == \A s \in Open : IsFiniteSet(InState(s))

ServerInv ==
    ServerTypeOK /\ QueueIsWaiting /\ NextIsNew /\ DownIsEmpty /\ FiniteStates /\ SlotsAddUp

-----------------------------------------------------------------------------
(* The number of handlers in a state changes by one as a handler moves.    *)

Count(s) == Cardinality(InState(s))

\* A handler that moves from one state to another is one more there, one less
\* here, and changes no other number.
LEMMA MoveCounts ==
    ASSUME ServerTypeOK, FiniteStates,
           NEW r \in Requests, NEW s \in HandlerStates, handler[r] # s,
           handler' = [handler EXCEPT ![r] = s]
    PROVE  /\ FiniteStates' /\ handler' \in [Requests -> HandlerStates]
           /\ \A u \in Open : /\ Count(u) \in Nat
                              /\ Count(u)' = IF u = s THEN Count(u) + 1
                                             ELSE IF u = handler[r] THEN Count(u) - 1
                                             ELSE Count(u)
  <1>1. handler' \in [Requests -> HandlerStates]
    BY DEF ServerTypeOK
  <1>2. ASSUME NEW u \in Open
        PROVE  /\ IsFiniteSet(InState(u)') /\ Count(u) \in Nat
               /\ Count(u)' = IF u = s THEN Count(u) + 1
                              ELSE IF u = handler[r] THEN Count(u) - 1
                              ELSE Count(u)
    <2>0. IsFiniteSet(InState(u))
      BY DEF FiniteStates
    <2>1. Count(u) \in Nat
      BY <2>0, FS_CardinalityType DEF Count
    <2>2. CASE u = s
      <3>1. InState(u)' = InState(u) \cup {r} /\ r \notin InState(u)
        BY <2>2 DEF InState, ServerTypeOK
      <3>. QED
        BY <2>0, <2>1, <2>2, <3>1, FS_AddElement DEF Count
    <2>3. CASE u # s /\ u = handler[r]
      <3>1. InState(u)' = InState(u) \ {r} /\ r \in InState(u)
        BY <2>3 DEF InState, ServerTypeOK
      <3>. QED
        BY <2>0, <2>1, <2>3, <3>1, FS_RemoveElement DEF Count
    <2>4. CASE u # s /\ u # handler[r]
      <3>1. InState(u)' = InState(u)
        BY <2>4 DEF InState, ServerTypeOK
      <3>. QED
        BY <2>0, <2>1, <2>4, <3>1 DEF Count
    <2>. QED
      BY <2>2, <2>3, <2>4
  <1>. QED
    BY <1>1, <1>2 DEF FiniteStates

\* With no open handler every number is zero.
LEMMA NoneOpen ==
    ASSUME \A r \in Requests : handler[r] \notin Open
    PROVE  FiniteStates /\ \A u \in Open : InState(u) = {} /\ Count(u) = 0
  <1>1. \A u \in Open : InState(u) = {}
    BY DEF InState
  <1>. QED
    BY <1>1, FS_EmptySet DEF FiniteStates, Count

-----------------------------------------------------------------------------
\* Initially every permit is free and no request has a handler.
LEMMA InitServer == ServerInit => ServerInv
  <1> SUFFICES ASSUME ServerInit PROVE ServerInv
    OBVIOUS
  <1>1. \A r \in Requests : handler[r] \notin Open
    BY DEF ServerInit, Open
  <1>2. FiniteStates /\ Count("granted") = 0 /\ Count("inferring") = 0 /\ Count("waiting") = 0
    BY <1>1, NoneOpen DEF Open
  <1>3. ServerTypeOK
    BY ServerAssumption DEF ServerInit, ServerTypeOK, HandlerStates
  <1>4. QueueIsWaiting
    BY <1>1 DEF ServerInit, QueueIsWaiting, InState, Open
  <1>5. NextIsNew /\ DownIsEmpty
    BY <1>1 DEF ServerInit, NextIsNew, DownIsEmpty, Requests
  <1>6. SlotsAddUp
    BY <1>2, ServerAssumption DEF ServerInit, SlotsAddUp, Count
  <1>. QED
    BY <1>2, <1>3, <1>4, <1>5, <1>6 DEF ServerInv

\* A step that leaves handlers, queue, permits and counter alone.
LEMMA QuietStep ==
    ASSUME ServerInv, UNCHANGED <<handler, waiting, free, active>>,
           server' \in {"down", "warming", "serving", "stopping"},
           client' \in [Clients -> [pc : {"ready", "asking", "failed"}, sent : 0..MaxRequests]],
           \A c \in Clients : client'[c].sent = client[c].sent,
           server' \in {"down", "warming"} => \A r \in Requests : handler[r] \notin Open
    PROVE  ServerInv'
  <1>1. \A s : InState(s)' = InState(s)
    BY DEF InState
  <1>2. ServerTypeOK'
    BY DEF ServerInv, ServerTypeOK
  <1>3. QueueIsWaiting'
    BY <1>1 DEF ServerInv, QueueIsWaiting
  <1>4. NextIsNew' /\ DownIsEmpty' /\ FiniteStates'
    BY <1>1 DEF ServerInv, NextIsNew, DownIsEmpty, FiniteStates
  <1>5. SlotsAddUp'
    BY <1>1 DEF ServerInv, SlotsAddUp
  <1>. QED
    BY <1>2, <1>3, <1>4, <1>5 DEF ServerInv

\* The life of the process, up to its regular end.
LEMMA LifeKeeps ==
    ASSUME ServerInv, Load \/ WarmUp \/ Stop \/ Stopped
    PROVE  ServerInv'
  <1>1. CASE Load
    <2>1. \A r \in Requests : handler[r] \notin Open
      BY <1>1 DEF Load, ServerInv, DownIsEmpty
    <2>2. Count("granted") = 0 /\ Count("inferring") = 0
      BY <2>1, NoneOpen DEF Open
    <2>3. free' = free /\ active' = active
      BY <1>1, <2>2 DEF Load, ServerInv, ServerTypeOK, SlotsAddUp, Count
    <2>. QED
      BY <1>1, <2>1, <2>3, QuietStep DEF Load, ServerInv, ServerTypeOK
  <1>2. CASE WarmUp \/ Stop \/ Stopped
    BY <1>2, QuietStep DEF WarmUp, Stop, Stopped, ServerInv, ServerTypeOK
  <1>. QED
    BY <1>1, <1>2

\* A crash closes every open handler, and the next process starts with all permits.
LEMMA CrashKeeps == ASSUME ServerInv, Crash PROVE ServerInv'
  <1>1. \A r \in Requests : handler'[r] \notin Open
    BY DEF Crash, Open
  <1>2. FiniteStates' /\ Count("granted")' = 0 /\ Count("inferring")' = 0 /\ Count("waiting")' = 0
    <2>1. FiniteStates' /\ \A u \in Open : InState(u)' = {}
      <3>1. \A u \in Open : InState(u)' = {}
        BY <1>1 DEF InState
      <3>. QED
        BY <3>1, FS_EmptySet DEF FiniteStates
    <2>. QED
      BY <2>1, FS_EmptySet DEF Count, Open
  <1>3. ServerTypeOK'
    <2>1. handler' \in [Requests -> HandlerStates]
      BY DEF ServerInv, ServerTypeOK, Crash, HandlerStates
    <2>2. client' \in [Clients -> [pc : {"ready", "asking", "failed"}, sent : 0..MaxRequests]]
      BY DEF ServerInv, ServerTypeOK, Crash
    <2>. QED
      BY <2>1, <2>2, ServerAssumption DEF ServerTypeOK, Crash
  <1>4. QueueIsWaiting'
    BY <1>1 DEF Crash, QueueIsWaiting, InState, Open
  <1>5. NextIsNew'
    <2>1. \A c \in Clients : client'[c].sent = client[c].sent
      BY DEF Crash, ServerInv, ServerTypeOK
    <2>. QED
      BY <2>1 DEF Crash, ServerInv, NextIsNew, Requests, Open
  <1>6. DownIsEmpty'
    BY <1>1 DEF DownIsEmpty, Open
  <1>7. SlotsAddUp'
    BY <1>2, ServerAssumption DEF SlotsAddUp, Count, Crash
  <1>. QED
    BY <1>2, <1>3, <1>4, <1>5, <1>6, <1>7 DEF ServerInv

\* A request takes a free permit at once, or waits at the end of the queue.
LEMMA PostKeeps == ASSUME ServerInv, NEW c \in Clients, Post(c) PROVE ServerInv'
  <1> DEFINE n == client[c].sent + 1
             r == <<c, n>>
             s == IF free > 0 /\ waiting = <<>> THEN "inferring" ELSE "waiting"
  <1>0. client[c] \in [pc : {"ready", "asking", "failed"}, sent : 0..MaxRequests]
    BY DEF ServerInv, ServerTypeOK
  <1>1. n \in 1..MaxRequests /\ r \in Requests /\ client[c].sent < n
    BY <1>0, ServerAssumption DEF Post, Requests
  <1>2. handler[r] = "none"
    BY <1>1 DEF ServerInv, NextIsNew
  <1>3. handler' = [handler EXCEPT ![r] = s] /\ s \in HandlerStates /\ s \in Open
    BY DEF Post, HandlerStates, Open
  <1>4. client' \in [Clients -> [pc : {"ready", "asking", "failed"}, sent : 0..MaxRequests]]
    BY <1>0, <1>1 DEF Post, ServerInv, ServerTypeOK
  <1>5. \A d \in Clients : client'[d].sent = IF d = c THEN n ELSE client[d].sent
    BY DEF Post, ServerInv, ServerTypeOK
  <1>6. server = "serving" /\ server' = server
    BY DEF Post
  <1>. HIDE DEF n, r, s
  <1>7. /\ FiniteStates' /\ handler' \in [Requests -> HandlerStates]
        /\ \A u \in Open : /\ Count(u) \in Nat
                           /\ Count(u)' = IF u = s THEN Count(u) + 1 ELSE Count(u)
    BY <1>1, <1>2, <1>3, MoveCounts DEF ServerInv, Open, HandlerStates
  <1>8. NextIsNew'
    <2> SUFFICES ASSUME NEW d \in Clients, NEW m \in 1..MaxRequests, client'[d].sent < m
                 PROVE  handler'[<<d, m>>] = "none"
      BY DEF NextIsNew
    <2>1. client[d].sent < m /\ <<d, m>> # r /\ <<d, m>> \in Requests
      BY <1>0, <1>1, <1>5 DEF Requests, ServerInv, ServerTypeOK, n, r
    <2>. QED
      BY <1>3, <2>1 DEF ServerInv, ServerTypeOK, NextIsNew
  <1>9. DownIsEmpty'
    BY <1>6 DEF DownIsEmpty
  <1>10. CASE free > 0 /\ waiting = <<>>
    <2>1. s = "inferring" /\ free' = free - 1 /\ active' = active + 1 /\ waiting' = <<>>
      BY <1>10 DEF Post, s
    <2>2. ServerTypeOK'
      BY <1>4, <1>6, <1>7, <1>10, <2>1 DEF ServerInv, ServerTypeOK
    <2>3. QueueIsWaiting'
      BY <1>3, <1>10, <2>1 DEF ServerInv, ServerTypeOK, QueueIsWaiting, InState
    <2>4. SlotsAddUp'
      BY <1>7, <1>10, <2>1, ServerAssumption DEF ServerInv, ServerTypeOK, SlotsAddUp, Count, Open
    <2>. QED
      BY <1>7, <1>8, <1>9, <2>2, <2>3, <2>4 DEF ServerInv
  <1>11. CASE ~(free > 0 /\ waiting = <<>>)
    <2>1. s = "waiting" /\ UNCHANGED <<free, active>> /\ waiting' = Append(waiting, r)
      BY <1>11 DEF Post, s, n, r
    <2>2. /\ waiting' \in Seq(Requests) /\ Len(waiting') = Len(waiting) + 1
          /\ waiting'[Len(waiting) + 1] = r
          /\ \A i \in 1..Len(waiting) : waiting'[i] = waiting[i]
          /\ Len(waiting) \in Nat
      BY <1>1, <2>1, AppendProperties DEF ServerInv, ServerTypeOK
    <2>3. ServerTypeOK'
      BY <1>4, <1>6, <1>7, <2>1, <2>2 DEF ServerInv, ServerTypeOK
    <2>4. \A i \in 1..Len(waiting) : waiting[i] # r /\ waiting[i] \in Requests
      <3>1. \A i \in 1..Len(waiting) : waiting[i] \in Requests
        BY ElementOfSeq DEF ServerInv, ServerTypeOK
      <3>2. \A i \in 1..Len(waiting) : handler[waiting[i]] = "waiting"
        BY DEF ServerInv, QueueIsWaiting
      <3>. QED
        BY <1>2, <3>1, <3>2
    <2>5. QueueIsWaiting'
      <3>1. \A i \in 1..Len(waiting') : i = Len(waiting) + 1 \/ i \in 1..Len(waiting)
        BY <2>2
      <3>2. \A q \in Requests : handler'[q] = IF q = r THEN "waiting" ELSE handler[q]
        BY <1>3, <2>1 DEF ServerInv, ServerTypeOK
      <3>3. \A i \in 1..Len(waiting') : handler'[waiting'[i]] = "waiting"
        BY <1>1, <2>2, <2>4, <3>1, <3>2 DEF ServerInv, QueueIsWaiting
      <3>4. ASSUME NEW q \in InState("waiting")' PROVE \E i \in 1..Len(waiting') : waiting'[i] = q
        <4>1. CASE q = r
          BY <2>2, <4>1
        <4>2. CASE q # r
          <5>1. q \in InState("waiting")
            BY <3>2, <3>4, <4>2 DEF InState
          <5>2. PICK i \in 1..Len(waiting) : waiting[i] = q
            BY <5>1 DEF ServerInv, QueueIsWaiting
          <5>. QED
            BY <2>2, <5>2
        <4>. QED
          BY <4>1, <4>2
      <3>5. \A i, j \in 1..Len(waiting') : waiting'[i] = waiting'[j] => i = j
        BY <2>2, <2>4, <3>1 DEF ServerInv, QueueIsWaiting
      <3>. QED
        BY <3>3, <3>4, <3>5 DEF QueueIsWaiting
    <2>6. SlotsAddUp'
      <3>1. free = 0
        BY <1>11 DEF ServerInv, ServerTypeOK, SlotsAddUp
      <3>. QED
        BY <1>7, <2>1, <2>2, <3>1, ServerAssumption
        DEF ServerInv, ServerTypeOK, SlotsAddUp, Count, Open
    <2>. QED
      BY <1>7, <1>8, <1>9, <2>3, <2>5, <2>6 DEF ServerInv
  <1>. QED
    BY <1>10, <1>11

\* A handler that was handed a permit starts to infer, and is counted.
LEMMA ResumeKeeps == ASSUME ServerInv, NEW r \in Requests, Resume(r) PROVE ServerInv'
  <1>1. handler[r] = "granted" /\ handler' = [handler EXCEPT ![r] = "inferring"]
    BY DEF Resume
  <1>2. /\ FiniteStates' /\ handler' \in [Requests -> HandlerStates]
        /\ \A u \in Open : /\ Count(u) \in Nat
                           /\ Count(u)' = IF u = "inferring" THEN Count(u) + 1
                                          ELSE IF u = "granted" THEN Count(u) - 1
                                          ELSE Count(u)
    BY <1>1, MoveCounts DEF ServerInv, HandlerStates, Open
  <1>3. ServerTypeOK'
    BY <1>2 DEF Resume, ServerInv, ServerTypeOK
  <1>4. \A q \in Requests : handler'[q] = IF q = r THEN "inferring" ELSE handler[q]
    BY <1>1 DEF ServerInv, ServerTypeOK
  <1>5. QueueIsWaiting'
    BY <1>1, <1>4 DEF Resume, ServerInv, ServerTypeOK, QueueIsWaiting, InState
  <1>6. NextIsNew' /\ DownIsEmpty'
    BY <1>1, <1>4 DEF Resume, ServerInv, NextIsNew, DownIsEmpty, Requests, Open
  <1>7. SlotsAddUp'
    BY <1>2, ServerAssumption DEF Resume, ServerInv, ServerTypeOK, SlotsAddUp, Count, Open
  <1>. QED
    BY <1>2, <1>3, <1>5, <1>6, <1>7 DEF ServerInv

\* The end of an inference returns the permit, to the first in the queue if
\* there is one.
LEMMA EndKeeps == ASSUME ServerInv, NEW r \in Requests, InferenceEnds(r) PROVE ServerInv'
  <1>1. handler[r] = "inferring" /\ active' = active - 1 /\ server' = server
    BY DEF InferenceEnds
  <1>2. /\ client' \in [Clients -> [pc : {"ready", "asking", "failed"}, sent : 0..MaxRequests]]
        /\ \A c \in Clients : client'[c].sent = client[c].sent
    <2>1. PICK outcome : Answer(r, outcome)
      BY DEF InferenceEnds
    <2>. QED
      BY <2>1 DEF Answer, ServerInv, ServerTypeOK
  <1>3. Release(r)
    BY DEF InferenceEnds
  <1>4. ServerTypeOK /\ FiniteStates
    BY DEF ServerInv
  <1>5. /\ Count("waiting") \in Nat /\ Count("granted") \in Nat /\ Count("inferring") \in Nat
        /\ Count("inferring") > 0
    <2>1. \A u \in Open : Count(u) \in Nat
      BY <1>4, FS_CardinalityType DEF FiniteStates, Count
    <2>2. r \in InState("inferring") /\ IsFiniteSet(InState("inferring"))
      BY <1>1, <1>4 DEF InState, FiniteStates, Open
    <2>3. Count("inferring") # 0
      BY <2>2, FS_EmptySet DEF Count
    <2>. QED
      BY <2>1, <2>3 DEF Open
  <1>6. active' \in Nat
    BY <1>1, <1>5 DEF ServerInv, SlotsAddUp, Count
  <1>7. CASE waiting = <<>>
    <2>1. free' = free + 1 /\ waiting' = waiting /\ handler' = [handler EXCEPT ![r] = "closed"]
      BY <1>3, <1>7 DEF Release
    <2>2. /\ FiniteStates' /\ handler' \in [Requests -> HandlerStates]
          /\ \A u \in Open : Count(u)' = IF u = "inferring" THEN Count(u) - 1 ELSE Count(u)
      BY <1>1, <1>4, <2>1, MoveCounts DEF HandlerStates, Open
    <2>3. \A q \in Requests : handler'[q] = IF q = r THEN "closed" ELSE handler[q]
      BY <1>4, <2>1 DEF ServerTypeOK
    <2>4. ServerTypeOK'
      BY <1>1, <1>2, <1>4, <1>6, <2>1, <2>2 DEF ServerTypeOK
    <2>5. QueueIsWaiting'
      BY <1>1, <1>7, <2>1, <2>3 DEF ServerInv, QueueIsWaiting, InState
    <2>6. NextIsNew'
      BY <1>1, <1>2, <2>3 DEF ServerInv, NextIsNew, Requests
    <2>7. DownIsEmpty'
      BY <1>1, <2>3 DEF ServerInv, DownIsEmpty, Open
    <2>8. SlotsAddUp'
      BY <1>1, <1>4, <1>5, <1>7, <2>1, <2>2, ServerAssumption
      DEF ServerInv, ServerTypeOK, SlotsAddUp, Count, Open
    <2>. QED
      BY <2>2, <2>4, <2>5, <2>6, <2>7, <2>8 DEF ServerInv
  <1>8. CASE waiting # <<>>
    <2> DEFINE h == Head(waiting)
               closed == [handler EXCEPT ![r] = "closed"]
    <2>1. /\ free' = free /\ waiting' = Tail(waiting)
          /\ handler' = [closed EXCEPT ![h] = "granted"]
      BY <1>3, <1>8 DEF Release
    <2>2. /\ h \in Requests /\ h = waiting[1] /\ Len(waiting) \in Nat \ {0}
          /\ waiting' \in Seq(Requests) /\ Len(waiting') = Len(waiting) - 1
          /\ \A i \in 1..Len(waiting') : waiting'[i] = waiting[i + 1]
      BY <1>4, <1>8, <2>1, HeadTailProperties, EmptySeq, LenProperties DEF ServerTypeOK
    <2>3. handler[h] = "waiting" /\ h # r
      BY <1>1, <2>2 DEF ServerInv, QueueIsWaiting
    <2>. HIDE DEF h
    <2>4. \A q \in Requests : handler'[q] = IF q = h THEN "granted"
                                            ELSE IF q = r THEN "closed" ELSE handler[q]
      BY <1>4, <2>1, <2>2, <2>3 DEF ServerTypeOK
    <2>5. handler' \in [Requests -> HandlerStates]
      BY <1>4, <2>1 DEF ServerTypeOK, HandlerStates, Open
    <2>6. /\ IsFiniteSet(InState("inferring")') /\ IsFiniteSet(InState("granted")')
          /\ IsFiniteSet(InState("waiting")')
          /\ Count("inferring")' = Count("inferring") - 1
          /\ Count("granted")' = Count("granted") + 1
          /\ Count("waiting")' = Count("waiting") - 1
      <3>1. /\ InState("inferring")' = InState("inferring") \ {r} /\ r \in InState("inferring")
            /\ InState("granted")' = InState("granted") \cup {h} /\ h \notin InState("granted")
            /\ InState("waiting")' = InState("waiting") \ {h} /\ h \in InState("waiting")
        BY <1>1, <2>2, <2>3, <2>4 DEF InState
      <3>2. /\ IsFiniteSet(InState("inferring")) /\ IsFiniteSet(InState("granted"))
            /\ IsFiniteSet(InState("waiting"))
        BY <1>4 DEF FiniteStates, Open
      <3>. QED
        BY <3>1, <3>2, FS_AddElement, FS_RemoveElement DEF Count
    <2>7. FiniteStates'
      BY <2>6 DEF FiniteStates, Open
    <2>8. ServerTypeOK'
      BY <1>1, <1>2, <1>4, <1>6, <2>1, <2>2, <2>5 DEF ServerTypeOK
    <2>9. QueueIsWaiting'
      <3>1. \A i \in 1..Len(waiting') : i + 1 \in 1..Len(waiting) /\ i + 1 # 1
        BY <2>2
      <3>2. \A i \in 1..Len(waiting') :
               waiting'[i] \in Requests /\ waiting'[i] # h /\ handler[waiting'[i]] = "waiting"
        BY <2>2, <3>1, ElementOfSeq DEF ServerInv, QueueIsWaiting
      <3>3. \A i \in 1..Len(waiting') : handler'[waiting'[i]] = "waiting"
        BY <1>1, <2>4, <3>2
      <3>4. ASSUME NEW q \in InState("waiting")' PROVE \E i \in 1..Len(waiting') : waiting'[i] = q
        <4>1. q \in InState("waiting") /\ q # h
          BY <2>4, <3>4 DEF InState
        <4>2. PICK i \in 1..Len(waiting) : waiting[i] = q
          BY <4>1 DEF ServerInv, QueueIsWaiting
        <4>3. i - 1 \in 1..Len(waiting') /\ (i - 1) + 1 = i
          BY <2>2, <4>1, <4>2
        <4>. QED
          BY <2>2, <4>2, <4>3
      <3>5. \A i, j \in 1..Len(waiting') : waiting'[i] = waiting'[j] => i = j
        BY <2>2, <3>1 DEF ServerInv, QueueIsWaiting
      <3>. QED
        BY <3>3, <3>4, <3>5 DEF QueueIsWaiting
    <2>10. NextIsNew'
      BY <1>1, <1>2, <2>3, <2>4 DEF ServerInv, NextIsNew, Requests
    <2>11. DownIsEmpty'
      BY <1>1 DEF ServerInv, DownIsEmpty, Open
    <2>12. SlotsAddUp'
      BY <1>1, <1>4, <1>5, <1>8, <2>1, <2>2, <2>6, ServerAssumption
      DEF ServerInv, ServerTypeOK, SlotsAddUp, Count
    <2>. QED
      BY <2>7, <2>8, <2>9, <2>10, <2>11, <2>12 DEF ServerInv
  <1>. QED
    BY <1>7, <1>8

-----------------------------------------------------------------------------
\* Every step of server and clients keeps the invariant.
THEOREM ServerInductive == ServerInv /\ [ServerNext]_serverVars => ServerInv'
  <1> SUFFICES ASSUME ServerInv, [ServerNext]_serverVars PROVE ServerInv'
    OBVIOUS
  <1>1. CASE Load \/ WarmUp \/ Stop \/ Stopped
    BY <1>1, LifeKeeps
  <1>2. CASE Crash
    BY <1>2, CrashKeeps
  <1>3. ASSUME NEW c \in Clients, Post(c) PROVE ServerInv'
    BY <1>3, PostKeeps
  <1>4. ASSUME NEW c \in Clients, PostFails(c) \/ GiveUp(c) \/ ExecuteAgain(c) PROVE ServerInv'
    <2>1. PICK pc \in {"ready", "asking", "failed"} : client' = [client EXCEPT ![c].pc = pc]
      BY <1>4 DEF PostFails, GiveUp, ExecuteAgain
    <2>2. /\ client' \in [Clients -> [pc : {"ready", "asking", "failed"}, sent : 0..MaxRequests]]
          /\ \A d \in Clients : client'[d].sent = client[d].sent
      BY <2>1 DEF ServerInv, ServerTypeOK
    <2>3. UNCHANGED <<server, handler, waiting, free, active>>
      BY <1>4 DEF PostFails, GiveUp, ExecuteAgain
    <2>. QED
      BY <2>2, <2>3, QuietStep DEF ServerInv, ServerTypeOK, DownIsEmpty
  <1>5. ASSUME NEW r \in Requests, Resume(r) \/ InferenceEnds(r) PROVE ServerInv'
    BY <1>5, ResumeKeeps, EndKeeps
  <1>6. CASE UNCHANGED serverVars
    BY <1>6, QuietStep DEF serverVars, ServerInv, ServerTypeOK, DownIsEmpty
  <1>. QED
    BY <1>1, <1>2, <1>3, <1>4, <1>5, <1>6 DEF ServerNext

\* No error, no client that gave up, no restart and no crash loses a permit or
\* leaves the counter wrong, and nobody waits while a permit is free.
THEOREM ServerSlotsAddUp == ServerSpec => []SlotsAddUp
  <1>1. ServerInv => SlotsAddUp
    BY DEF ServerInv
  <1>. QED
    BY <1>1, InitServer, ServerInductive, PTL DEF ServerSpec
=============================================================================
