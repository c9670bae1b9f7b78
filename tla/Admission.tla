----------------------------- MODULE Admission -----------------------------
(***************************************************************************)
(* Admission of requests by the router (main.go handleProxy up to and      *)
(* after its failover loop, Reload, snap, beginBuffering): a counted       *)
(* bounded queue taken before the body is read, the buffered body, the     *)
(* semaphore of the configuration snapshot the request runs under, and the *)
(* deferred releases in the order Go runs them (last deferred first).      *)
(*                                                                         *)
(* Every counter the code keeps is a variable changed where the code       *)
(* changes it, one atomic operation or channel operation per action. What  *)
(* a request does upstream is module Failover; the refusals between the    *)
(* body and the node selection all unwind alike and are one action, and so *)
(* is a rejection by the per-user scheduler. A declared oversized body is  *)
(* answered before anything is counted and is left out.                    *)
(***************************************************************************)
EXTENDS Integers, FiniteSets

CONSTANTS
    Clients,         \* requests that may be in the router at once
    Tiers,           \* tiers of the nodes a request may be routed to
    NoTier,          \* tierLabel = "", before a node is chosen
    MaxGeneration,   \* bound: how often the configuration is reloaded
    MaxQueueDepth,   \* generation -> defaults.max_queue_depth
    MaxConcurrency   \* generation -> defaults.max_concurrency

Generations == 0..MaxGeneration

ASSUME ClientsAssumption == IsFiniteSet(Clients) /\ NoTier \notin Tiers
ASSUME LimitsAssumption ==
    /\ MaxGeneration \in Nat
    /\ MaxQueueDepth \in [Generations -> Nat]
    /\ MaxConcurrency \in [Generations -> Nat \ {0}]

VARIABLES
    current,          \* the configuration new requests snapshot
    queueDepth,       \* router.queueDepth
    queueDepthByTier, \* router.queueDepthByTier
    buffering,        \* router.buffering
    inflight,         \* router.inflight
    semaphore,        \* generation -> tokens in its channel
    pc,               \* client -> where its handler is
    gen,              \* client -> the generation of its snapshot
    tier,             \* client -> tierLabel
    dequeued          \* client -> its dequeue closure has run

avars == <<current, queueDepth, queueDepthByTier, buffering, inflight,
           semaphore, pc, gen, tier, dequeued>>

Labels == {"idle", "admitted", "reading", "waiting", "acquired", "permitted",
           "serving", "relaying", "releasing", "unwinding", "leaving"}

Goto(r, label) == pc' = [pc EXCEPT ![r] = label]

AdmissionInit ==
    /\ current = 0 /\ queueDepth = 0 /\ buffering = 0 /\ inflight = 0
    /\ queueDepthByTier = [t \in Tiers |-> 0]
    /\ semaphore = [g \in Generations |-> 0]
    /\ pc = [r \in Clients |-> "idle"]
    /\ gen = [r \in Clients |-> 0]
    /\ tier = [r \in Clients |-> NoTier]
    /\ dequeued = [r \in Clients |-> FALSE]

\* SIGHUP: the new limits come with a new, empty semaphore.
Reload ==
    /\ current < MaxGeneration
    /\ current' = current + 1
    /\ UNCHANGED <<queueDepth, queueDepthByTier, buffering, inflight,
                   semaphore, pc, gen, tier, dequeued>>

\* Faulty variant: the queue is checked before the slot is counted.
EnterChecksFirst(r) ==
    /\ pc[r] = "idle"
    /\ queueDepth' = queueDepth + 1
    /\ \E g \in 0..current :
           /\ gen' = [gen EXCEPT ![r] = g]
           /\ Goto(r, IF queueDepth > MaxQueueDepth[g] THEN "leaving" ELSE "admitted")
    /\ UNCHANGED <<current, queueDepthByTier, buffering, inflight,
                   semaphore, tier, dequeued>>

\* snap, then the atomic Add whose result decides between the queue and 429;
\* reloads may come between the two, so the snapshot may be an old one.
Enter(r) ==
    /\ pc[r] = "idle"
    /\ queueDepth' = queueDepth + 1
    /\ \E g \in 0..current :
           /\ gen' = [gen EXCEPT ![r] = g]
           /\ Goto(r, IF queueDepth' > MaxQueueDepth[g] THEN "leaving" ELSE "admitted")
    /\ UNCHANGED <<current, queueDepthByTier, buffering, inflight,
                   semaphore, tier, dequeued>>

BeginBuffering(r) ==
    /\ pc[r] = "admitted"
    /\ buffering' = buffering + 1
    /\ Goto(r, "reading")
    /\ UNCHANGED <<current, queueDepth, queueDepthByTier, inflight,
                   semaphore, gen, tier, dequeued>>

\* The body stalls or breaks, or the request is refused before a node is
\* chosen, or no node can serve it.
Refuse(r) ==
    /\ pc[r] = "reading"
    /\ Goto(r, "unwinding")
    /\ UNCHANGED <<current, queueDepth, queueDepthByTier, buffering, inflight,
                   semaphore, gen, tier, dequeued>>

\* A node of tier t is chosen: the slot joins that tier's gauge.
ChooseNode(r, t) ==
    /\ pc[r] = "reading"
    /\ tier' = [tier EXCEPT ![r] = t]
    /\ queueDepthByTier' = [queueDepthByTier EXCEPT ![t] = @ + 1]
    /\ Goto(r, "waiting")
    /\ UNCHANGED <<current, queueDepth, buffering, inflight, semaphore, gen, dequeued>>

\* Faulty variant: waiters of a replaced semaphore are never served.
AcquireCurrentOnly(r) ==
    /\ pc[r] = "waiting" /\ gen[r] = current
    /\ semaphore[gen[r]] < MaxConcurrency[gen[r]]
    /\ semaphore' = [semaphore EXCEPT ![gen[r]] = @ + 1]
    /\ Goto(r, "acquired")
    /\ UNCHANGED <<current, queueDepth, queueDepthByTier, buffering, inflight,
                   gen, tier, dequeued>>

\* The send to the semaphore channel of the request's own snapshot.
Acquire(r) ==
    /\ pc[r] = "waiting"
    /\ semaphore[gen[r]] < MaxConcurrency[gen[r]]
    /\ semaphore' = [semaphore EXCEPT ![gen[r]] = @ + 1]
    /\ Goto(r, "acquired")
    /\ UNCHANGED <<current, queueDepth, queueDepthByTier, buffering, inflight,
                   gen, tier, dequeued>>

\* Faulty variant: the tier's gauge is left behind.
DequeueRouterOnly(r) ==
    /\ queueDepth' = IF dequeued[r] THEN queueDepth ELSE queueDepth - 1
    /\ UNCHANGED queueDepthByTier

\* The dequeue closure, idempotent so that the success path and the deferred
\* call may both run it.
Dequeue(r) ==
    IF dequeued[r] THEN UNCHANGED <<queueDepth, queueDepthByTier>>
    ELSE /\ queueDepth' = queueDepth - 1
         /\ queueDepthByTier' =
               IF tier[r] = NoTier THEN queueDepthByTier
               ELSE [queueDepthByTier EXCEPT ![tier[r]] = IF @ > 0 THEN @ - 1 ELSE 0]

LeaveQueue(r) ==
    /\ pc[r] = "acquired"
    /\ Dequeue(r)
    /\ dequeued' = [dequeued EXCEPT ![r] = TRUE]
    /\ Goto(r, "permitted")
    /\ UNCHANGED <<current, buffering, inflight, semaphore, gen, tier>>

\* The client goes away while it waits for the semaphore.
CancelQueued(r) ==
    /\ pc[r] = "waiting"
    /\ Dequeue(r)
    /\ dequeued' = [dequeued EXCEPT ![r] = TRUE]
    /\ Goto(r, "unwinding")
    /\ UNCHANGED <<current, buffering, inflight, semaphore, gen, tier>>

FairShareReject(r) ==
    /\ pc[r] = "permitted"
    /\ Goto(r, "releasing")
    /\ UNCHANGED <<current, queueDepth, queueDepthByTier, buffering, inflight,
                   semaphore, gen, tier, dequeued>>

BeginServing(r) ==
    /\ pc[r] = "permitted"
    /\ inflight' = inflight + 1
    /\ Goto(r, "serving")
    /\ UNCHANGED <<current, queueDepth, queueDepthByTier, buffering,
                   semaphore, gen, tier, dequeued>>

\* The failover loop has a response: it is copied to the client.
StartRelay(r) ==
    /\ pc[r] = "serving"
    /\ Goto(r, "relaying")
    /\ UNCHANGED <<current, queueDepth, queueDepthByTier, buffering, inflight,
                   semaphore, gen, tier, dequeued>>

\* The deferred end of service.
StopServing(r) ==
    /\ inflight' = inflight - 1
    /\ Goto(r, "releasing")
    /\ UNCHANGED <<current, queueDepth, queueDepthByTier, buffering,
                   semaphore, gen, tier, dequeued>>

\* No upstream answered: 502.
EndServing(r) == pc[r] = "serving" /\ StopServing(r)

\* io.Copy has ended, with the response or because the client left. The server
\* sets no write deadline: a client that stays and does not read keeps it going.
EndRelay(r) == pc[r] = "relaying" /\ StopServing(r)

\* Faulty variant: the token is taken from the current semaphore.
ReleaseSemaphoreCurrent(r) ==
    /\ pc[r] = "releasing"
    /\ semaphore[current] > 0
    /\ semaphore' = [semaphore EXCEPT ![current] = @ - 1]
    /\ Goto(r, "unwinding")
    /\ UNCHANGED <<current, queueDepth, queueDepthByTier, buffering, inflight,
                   gen, tier, dequeued>>

\* The token goes back to the semaphore of the request's own snapshot.
ReleaseSemaphore(r) ==
    /\ pc[r] = "releasing"
    /\ semaphore' = [semaphore EXCEPT ![gen[r]] = @ - 1]
    /\ Goto(r, "unwinding")
    /\ UNCHANGED <<current, queueDepth, queueDepthByTier, buffering, inflight,
                   gen, tier, dequeued>>

ReleaseBuffer(r) ==
    /\ pc[r] = "unwinding"
    /\ buffering' = buffering - 1
    /\ Goto(r, "leaving")
    /\ UNCHANGED <<current, queueDepth, queueDepthByTier, inflight,
                   semaphore, gen, tier, dequeued>>

\* Faulty variant: the deferred dequeue is missing.
LeaveWithoutDequeue(r) ==
    /\ pc[r] = "leaving"
    /\ Goto(r, "idle")
    /\ gen' = [gen EXCEPT ![r] = 0]
    /\ tier' = [tier EXCEPT ![r] = NoTier]
    /\ dequeued' = [dequeued EXCEPT ![r] = FALSE]
    /\ UNCHANGED <<current, queueDepth, queueDepthByTier, buffering, inflight, semaphore>>

\* The deferred dequeue, the last thing the handler does.
Leave(r) ==
    /\ pc[r] = "leaving"
    /\ Dequeue(r)
    /\ Goto(r, "idle")
    /\ gen' = [gen EXCEPT ![r] = 0]
    /\ tier' = [tier EXCEPT ![r] = NoTier]
    /\ dequeued' = [dequeued EXCEPT ![r] = FALSE]
    /\ UNCHANGED <<current, buffering, inflight, semaphore>>

ReadOrRefuse(r) == Refuse(r) \/ \E t \in Tiers : ChooseNode(r, t)

Proceed(r) ==
    \/ BeginBuffering(r) \/ ReadOrRefuse(r) \/ LeaveQueue(r)
    \/ FairShareReject(r) \/ BeginServing(r) \/ StartRelay(r) \/ EndServing(r)
    \/ ReleaseSemaphore(r) \/ ReleaseBuffer(r) \/ Leave(r)

AdmissionNext ==
    \/ Reload
    \/ \E r \in Clients : Enter(r) \/ Proceed(r) \/ Acquire(r) \/ CancelQueued(r) \/ EndRelay(r)

\* Reads are bounded by body_read_timeout and attempts by request_timeout, so a
\* handler that can proceed does; a channel serves its waiting senders in
\* order, so no waiting request is overtaken forever. Nothing is assumed of the
\* clients: they need not cancel, and need not read what is relayed to them.
AdmissionFairness ==
    \A r \in Clients : WF_avars(Proceed(r)) /\ SF_avars(Acquire(r))

AdmissionSpec == AdmissionInit /\ [][AdmissionNext]_avars /\ AdmissionFairness

-----------------------------------------------------------------------------
\* Every variable keeps its shape, and no counter goes below zero although each
\* is decremented on several exit paths.
AdmissionTypeOK ==
    /\ current \in Generations
    /\ queueDepth \in Nat /\ buffering \in Nat /\ inflight \in Nat
    /\ queueDepthByTier \in [Tiers -> Nat]
    /\ semaphore \in [Generations -> Nat]
    /\ pc \in [Clients -> Labels]
    /\ gen \in [Clients -> Generations]
    /\ tier \in [Clients -> Tiers \cup {NoTier}]
    /\ dequeued \in [Clients -> BOOLEAN]

Queued == {r \in Clients : pc[r] # "idle" /\ ~dequeued[r]}
HoldingBody == {r \in Clients : pc[r] \in {"reading", "waiting", "acquired",
                    "permitted", "serving", "relaying", "releasing", "unwinding"}}
HoldingPermit(g) == {r \in Clients : gen[r] = g /\
                        pc[r] \in {"acquired", "permitted", "serving", "relaying", "releasing"}}

\* No exit path leaks a queue slot or gives one back twice: the counter the
\* 429 decision reads is exactly the number of requests that hold a slot.
QueueConserved == queueDepth = Cardinality(Queued)

\* The per-tier gauge agrees with the slots, although a request joins it late
\* and the decrement is clamped at zero (addQueueDepthByTier).
TierConserved ==
    \A t \in Tiers : queueDepthByTier[t] = Cardinality({r \in Queued : tier[r] = t})

\* Every semaphore holds one token per request that was admitted under its own
\* configuration, so a reload neither frees nor strands capacity.
PermitsConserved ==
    \A g \in Generations : /\ semaphore[g] = Cardinality(HoldingPermit(g))
                           /\ semaphore[g] <= MaxConcurrency[g]

\* What the two gates bound together, per configuration and across reloads:
\* requests holding a body and either a queue slot or a semaphore token.
WorkingBodiesBounded ==
    \A g \in Generations :
        Cardinality({r \in HoldingBody : gen[r] = g /\ (~dequeued[r] \/ r \in HoldingPermit(g))})
            <= MaxQueueDepth[g] + MaxConcurrency[g]

\* Every token of configuration g is held by a request whose relay is under way.
AllRelaying(g) ==
    Cardinality({r \in Clients : gen[r] = g /\ pc[r] = "relaying"}) = MaxConcurrency[g]

\* Every request that enters is answered and gone, unless its client never takes
\* the answer; and it waits forever only behind clients like that, one for every
\* token of the configuration it entered under, never behind another semaphore.
RequestsLeave ==
    \A r \in Clients :
        \/ []<>(pc[r] = "idle")
        \/ <>[](pc[r] = "relaying")
        \/ <>[](pc[r] = "waiting" /\ AllRelaying(gen[r]))
=============================================================================
