------------------------- MODULE RequestPathProofs --------------------------
(***************************************************************************)
(* Proofs about Admission and RequestPath, for any clients, tiers, limits, *)
(* reloads, nodes, rules, policies and requests.                           *)
(*                                                                         *)
(* Admission: every counter is tied to the set of requests it stands for;  *)
(* a step moves one request, so each set gains or loses at most that       *)
(* request, and the counters follow.                                       *)
(*                                                                         *)
(* RequestPath: what a request carries never disturbs what Admission       *)
(* counts. Every step is a step of Admission or leaves its variables       *)
(* alone, so what holds of AdmissionSpec carries over. On top of that come *)
(* the PII rule and smart routing.                                         *)
(***************************************************************************)
EXTENDS RequestPath, FiniteSetTheorems, NaturalsInduction, WellFoundedInduction, TLAPS

Serves(label) == label \in {"serving", "relaying"}
InService == {r \in Clients : Serves(pc[r])}
QueuedIn(t) == {r \in Queued : tier[r] = t}
Bit(p) == IF p THEN 1 ELSE 0

Shape ==
    /\ current \in Generations
    /\ queueDepth \in Int /\ buffering \in Int /\ inflight \in Int
    /\ queueDepthByTier \in [Tiers -> Int]
    /\ semaphore \in [Generations -> Int]
    /\ pc \in [Clients -> Labels]
    /\ gen \in [Clients -> Generations]
    /\ tier \in [Clients -> Tiers \cup {NoTier}]
    /\ dequeued \in [Clients -> BOOLEAN]

\* Which requests may have left the queue, and which have a tier.
Progress ==
    \A r \in Clients :
        /\ pc[r] \in {"idle", "admitted", "reading"} => ~dequeued[r] /\ tier[r] = NoTier
        /\ pc[r] \in {"waiting", "acquired"} => ~dequeued[r] /\ tier[r] \in Tiers
        /\ pc[r] \in {"permitted", "serving", "relaying", "releasing"} => dequeued[r]

Counts ==
    /\ queueDepth = Cardinality(Queued)
    /\ buffering = Cardinality(HoldingBody)
    /\ inflight = Cardinality(InService)
    /\ \A t \in Tiers : queueDepthByTier[t] = Cardinality(QueuedIn(t))
    /\ \A g \in Generations : semaphore[g] = Cardinality(HoldingPermit(g))

Capacity == \A g \in Generations : semaphore[g] <= MaxConcurrency[g]

AInv == Shape /\ Progress /\ Counts /\ Capacity

-----------------------------------------------------------------------------
\* A set of clients that changes in at most one element changes its size by
\* what that element does.
LEMMA OneMoves ==
    ASSUME NEW S \in SUBSET Clients, NEW T \in SUBSET Clients, NEW r \in Clients,
           S \ {r} = T \ {r}
    PROVE  /\ Cardinality(S) \in Nat /\ Cardinality(T) \in Nat
           /\ Cardinality(T) = Cardinality(S) + Bit(r \in T) - Bit(r \in S)
<1>1. IsFiniteSet(S) /\ IsFiniteSet(T)
  BY ClientsAssumption, FS_Subset
<1>2. /\ Cardinality(S) \in Nat /\ Cardinality(T) \in Nat
      /\ Cardinality(S \ {r}) = IF r \in S THEN Cardinality(S) - 1 ELSE Cardinality(S)
      /\ Cardinality(T \ {r}) = IF r \in T THEN Cardinality(T) - 1 ELSE Cardinality(T)
  BY <1>1, FS_CardinalityType, FS_RemoveElement
<1> QED
  BY <1>2 DEF Bit

OthersStay(r) ==
    \A x \in Clients \ {r} : /\ pc'[x] = pc[x] /\ gen'[x] = gen[x]
                             /\ tier'[x] = tier[x] /\ dequeued'[x] = dequeued[x]

\* A step of one request changes every counted set by that request only.
LEMMA CountsMove ==
    ASSUME Shape, NEW r \in Clients, OthersStay(r)
    PROVE  /\ Cardinality(Queued') = Cardinality(Queued) + Bit(r \in Queued') - Bit(r \in Queued)
           /\ Cardinality(HoldingBody')
                 = Cardinality(HoldingBody) + Bit(r \in HoldingBody') - Bit(r \in HoldingBody)
           /\ Cardinality(InService')
                 = Cardinality(InService) + Bit(r \in InService') - Bit(r \in InService)
           /\ \A t \in Tiers : Cardinality(QueuedIn(t)')
                 = Cardinality(QueuedIn(t)) + Bit(r \in QueuedIn(t)') - Bit(r \in QueuedIn(t))
           /\ \A g \in Generations : Cardinality(HoldingPermit(g)')
                 = Cardinality(HoldingPermit(g)) + Bit(r \in HoldingPermit(g)')
                                                 - Bit(r \in HoldingPermit(g))
<1>1. Queued \ {r} = Queued' \ {r} /\ Queued \in SUBSET Clients /\ Queued' \in SUBSET Clients
  BY DEF OthersStay, Queued
<1>2. /\ HoldingBody \ {r} = HoldingBody' \ {r}
      /\ HoldingBody \in SUBSET Clients /\ HoldingBody' \in SUBSET Clients
  BY DEF OthersStay, HoldingBody
<1>3. /\ InService \ {r} = InService' \ {r}
      /\ InService \in SUBSET Clients /\ InService' \in SUBSET Clients
  BY DEF OthersStay, InService
<1>4. ASSUME NEW t \in Tiers
      PROVE  /\ QueuedIn(t) \ {r} = QueuedIn(t)' \ {r}
             /\ QueuedIn(t) \in SUBSET Clients /\ QueuedIn(t)' \in SUBSET Clients
  BY DEF OthersStay, QueuedIn, Queued
<1>5. ASSUME NEW g \in Generations
      PROVE  /\ HoldingPermit(g) \ {r} = HoldingPermit(g)' \ {r}
             /\ HoldingPermit(g) \in SUBSET Clients /\ HoldingPermit(g)' \in SUBSET Clients
  BY DEF OthersStay, HoldingPermit
<1>6. ASSUME NEW t \in Tiers
      PROVE  Cardinality(QueuedIn(t)')
                 = Cardinality(QueuedIn(t)) + Bit(r \in QueuedIn(t)') - Bit(r \in QueuedIn(t))
  BY <1>4, OneMoves
<1>7. ASSUME NEW g \in Generations
      PROVE  Cardinality(HoldingPermit(g)')
                 = Cardinality(HoldingPermit(g)) + Bit(r \in HoldingPermit(g)')
                                                 - Bit(r \in HoldingPermit(g))
  BY <1>5, OneMoves
<1> QED
  BY <1>1, <1>2, <1>3, <1>6, <1>7, OneMoves

\* The counted sets have natural sizes, and a set with a member is not empty.
LEMMA Sizes ==
    ASSUME Shape
    PROVE  /\ Cardinality(Queued) \in Nat /\ Cardinality(HoldingBody) \in Nat
           /\ Cardinality(InService) \in Nat
           /\ \A t \in Tiers : /\ Cardinality(QueuedIn(t)) \in Nat
                               /\ QueuedIn(t) # {} => Cardinality(QueuedIn(t)) > 0
           /\ \A g \in Generations : Cardinality(HoldingPermit(g)) \in Nat
<1>1. ASSUME NEW S \in SUBSET Clients
      PROVE  Cardinality(S) \in Nat /\ (S # {} => Cardinality(S) > 0)
  <2>1. IsFiniteSet(S)
    BY ClientsAssumption, FS_Subset
  <2>2. Cardinality(S) \in Nat /\ (Cardinality(S) = 0 <=> S = {})
    BY <2>1, FS_CardinalityType, FS_EmptySet
  <2> QED
    BY <2>2
<1>2. /\ Queued \in SUBSET Clients /\ HoldingBody \in SUBSET Clients
      /\ InService \in SUBSET Clients
      /\ \A t \in Tiers : QueuedIn(t) \in SUBSET Clients
      /\ \A g \in Generations : HoldingPermit(g) \in SUBSET Clients
  BY DEF Queued, HoldingBody, InService, QueuedIn, HoldingPermit
<1> QED
  BY <1>1, <1>2

\* Membership of one request in the counted sets.
InQueue(r) == pc[r] # "idle" /\ ~dequeued[r]
InTier(r, t) == InQueue(r) /\ tier[r] = t
HasBody(r) == pc[r] \in {"reading", "waiting", "acquired", "permitted", "serving",
                         "relaying", "releasing", "unwinding"}
HasPermit(r, g) ==
    gen[r] = g /\ pc[r] \in {"acquired", "permitted", "serving", "relaying", "releasing"}
ProgressOf(r) ==
    /\ pc[r] \in {"idle", "admitted", "reading"} => ~dequeued[r] /\ tier[r] = NoTier
    /\ pc[r] \in {"waiting", "acquired"} => ~dequeued[r] /\ tier[r] \in Tiers
    /\ pc[r] \in {"permitted", "serving", "relaying", "releasing"} => dequeued[r]

\* A step of one request that changes every counter by what the request does to
\* the counted set keeps the invariant.
LEMMA StepKeeps ==
    ASSUME AInv, Shape', NEW r \in Clients, OthersStay(r), ProgressOf(r)', Capacity',
           queueDepth' = queueDepth + Bit(InQueue(r)') - Bit(InQueue(r)),
           buffering' = buffering + Bit(HasBody(r)') - Bit(HasBody(r)),
           inflight' = inflight + Bit(Serves(pc'[r])) - Bit(Serves(pc[r])),
           \A t \in Tiers : queueDepthByTier'[t]
                = queueDepthByTier[t] + Bit(InTier(r, t)') - Bit(InTier(r, t)),
           \A g \in Generations : semaphore'[g]
                = semaphore[g] + Bit(HasPermit(r, g)') - Bit(HasPermit(r, g))
    PROVE  AInv'
<1>1. /\ r \in Queued <=> InQueue(r)
      /\ r \in HoldingBody <=> HasBody(r)
      /\ r \in InService <=> Serves(pc[r])
      /\ \A t \in Tiers : r \in QueuedIn(t) <=> InTier(r, t)
      /\ \A g \in Generations : r \in HoldingPermit(g) <=> HasPermit(r, g)
  BY DEF Queued, HoldingBody, InService, QueuedIn, HoldingPermit,
         InQueue, HasBody, InTier, HasPermit
<1>2. /\ r \in Queued' <=> InQueue(r)'
      /\ r \in HoldingBody' <=> HasBody(r)'
      /\ r \in InService' <=> Serves(pc'[r])
      /\ \A t \in Tiers : r \in QueuedIn(t)' <=> InTier(r, t)'
      /\ \A g \in Generations : r \in HoldingPermit(g)' <=> HasPermit(r, g)'
  BY DEF Queued, HoldingBody, InService, QueuedIn, HoldingPermit,
         InQueue, HasBody, InTier, HasPermit
<1>3. /\ Bit(r \in Queued) = Bit(InQueue(r)) /\ Bit(r \in Queued') = Bit(InQueue(r)')
      /\ Bit(r \in HoldingBody) = Bit(HasBody(r))
      /\ Bit(r \in HoldingBody') = Bit(HasBody(r)')
  BY <1>1, <1>2 DEF Bit
<1>4. queueDepth' = Cardinality(Queued') /\ buffering' = Cardinality(HoldingBody')
  <2>1. /\ queueDepth = Cardinality(Queued) /\ buffering = Cardinality(HoldingBody)
    BY DEF AInv, Counts
  <2>2. /\ Cardinality(Queued')
              = Cardinality(Queued) + Bit(r \in Queued') - Bit(r \in Queued)
        /\ Cardinality(HoldingBody')
              = Cardinality(HoldingBody) + Bit(r \in HoldingBody') - Bit(r \in HoldingBody)
    BY CountsMove DEF AInv
  <2> QED
    BY <1>3, <2>1, <2>2, Zenon
<1>5. inflight' = Cardinality(InService')
  <2>1. /\ Bit(r \in InService) = Bit(Serves(pc[r]))
        /\ Bit(r \in InService') = Bit(Serves(pc'[r]))
    BY <1>1, <1>2 DEF Bit
  <2>2. inflight = Cardinality(InService)
    BY DEF AInv, Counts
  <2>3. Cardinality(InService')
            = Cardinality(InService) + Bit(r \in InService') - Bit(r \in InService)
    BY CountsMove DEF AInv
  <2> QED
    BY <2>1, <2>2, <2>3, Zenon
<1>6. ASSUME NEW t \in Tiers PROVE queueDepthByTier'[t] = Cardinality(QueuedIn(t)')
  <2>1. Bit(r \in QueuedIn(t)) = Bit(InTier(r, t)) /\ Bit(r \in QueuedIn(t)') = Bit(InTier(r, t)')
    BY <1>1, <1>2 DEF Bit
  <2>2. queueDepthByTier[t] = Cardinality(QueuedIn(t))
    BY DEF AInv, Counts
  <2>3. Cardinality(QueuedIn(t)')
            = Cardinality(QueuedIn(t)) + Bit(r \in QueuedIn(t)') - Bit(r \in QueuedIn(t))
    BY CountsMove DEF AInv
  <2> QED
    BY <2>1, <2>2, <2>3, Zenon
<1>7. ASSUME NEW g \in Generations PROVE semaphore'[g] = Cardinality(HoldingPermit(g)')
  <2>1. /\ Bit(r \in HoldingPermit(g)) = Bit(HasPermit(r, g))
        /\ Bit(r \in HoldingPermit(g)') = Bit(HasPermit(r, g)')
    BY <1>1, <1>2 DEF Bit
  <2>2. semaphore[g] = Cardinality(HoldingPermit(g))
    BY DEF AInv, Counts
  <2>3. Cardinality(HoldingPermit(g)')
            = Cardinality(HoldingPermit(g)) + Bit(r \in HoldingPermit(g)')
                                            - Bit(r \in HoldingPermit(g))
    BY CountsMove DEF AInv
  <2> QED
    BY <2>1, <2>2, <2>3, Zenon
<1>8. Progress'
  BY DEF AInv, Progress, ProgressOf, OthersStay
<1> QED
  BY <1>4, <1>5, <1>6, <1>7, <1>8 DEF AInv, Counts

\* Nothing is counted before the first request.
LEMMA InitAInv == AdmissionInit => AInv
<1> SUFFICES ASSUME AdmissionInit PROVE AInv
  OBVIOUS
<1>1. Shape /\ Progress /\ Capacity
  BY LimitsAssumption DEF AdmissionInit, Shape, Progress, Capacity, Labels, Generations
<1>2. /\ Queued = {} /\ HoldingBody = {} /\ InService = {}
      /\ \A t \in Tiers : QueuedIn(t) = {}
      /\ \A g \in Generations : HoldingPermit(g) = {}
  BY DEF AdmissionInit, Queued, HoldingBody, InService, Serves, QueuedIn, HoldingPermit
<1>3. Counts
  BY <1>2, FS_EmptySet DEF Counts, AdmissionInit
<1> QED
  BY <1>1, <1>3 DEF AInv

-----------------------------------------------------------------------------
\* What StepKeeps asks of a step of request r.
Moves(r) ==
    /\ Shape' /\ OthersStay(r) /\ ProgressOf(r)' /\ Capacity'
    /\ queueDepth' = queueDepth + Bit(InQueue(r)') - Bit(InQueue(r))
    /\ buffering' = buffering + Bit(HasBody(r)') - Bit(HasBody(r))
    /\ inflight' = inflight + Bit(Serves(pc'[r])) - Bit(Serves(pc[r]))
    /\ \A t \in Tiers : queueDepthByTier'[t]
             = queueDepthByTier[t] + Bit(InTier(r, t)') - Bit(InTier(r, t))
    /\ \A g \in Generations : semaphore'[g]
             = semaphore[g] + Bit(HasPermit(r, g)') - Bit(HasPermit(r, g))

\* A request is accepted or refused at the queue, starts its body, or gives up
\* before a node is chosen.
LEMMA ArrivalMoves ==
    ASSUME AInv, NEW r \in Clients, Enter(r) \/ BeginBuffering(r) \/ Refuse(r)
    PROVE  Moves(r)
<1> USE ClientsAssumption, LimitsAssumption
    DEF AInv, Moves, Shape, Progress, ProgressOf, OthersStay, Capacity, Bit, InQueue,
        InTier, HasBody, HasPermit, Serves, Goto, Labels
<1>1. CASE Enter(r)
  <2>1. PICK g \in 0..current :
           /\ gen' = [gen EXCEPT ![r] = g]
           /\ Goto(r, IF queueDepth' > MaxQueueDepth[g] THEN "leaving" ELSE "admitted")
    BY <1>1 DEF Enter
  <2>2. g \in Generations
    BY DEF Generations
  <2> QED
    BY <1>1, <2>1, <2>2 DEF Enter
<1>2. CASE BeginBuffering(r)
  BY <1>2 DEF BeginBuffering
<1>3. CASE Refuse(r)
  BY <1>3 DEF Refuse
<1> QED
  BY <1>1, <1>2, <1>3

\* A node is chosen, and a token of the request's own semaphore taken.
LEMMA QueueMoves ==
    ASSUME AInv, NEW r \in Clients,
           Acquire(r) \/ \E t \in Tiers : ChooseNode(r, t)
    PROVE  Moves(r)
<1> USE ClientsAssumption, LimitsAssumption
    DEF AInv, Moves, Shape, Progress, ProgressOf, OthersStay, Capacity, Bit, InQueue,
        InTier, HasBody, HasPermit, Serves, Goto, Labels
<1>1. CASE Acquire(r)
  BY <1>1 DEF Acquire
<1>2. ASSUME NEW t \in Tiers, ChooseNode(r, t) PROVE Moves(r)
  BY <1>2 DEF ChooseNode
<1> QED
  BY <1>1, <1>2

\* A request that holds a slot of a tier finds its gauge above zero, so the clamp
\* of addQueueDepthByTier never hides a decrement.
LEMMA ClampUnused ==
    ASSUME AInv, NEW r \in Clients, InQueue(r), tier[r] # NoTier
    PROVE  tier[r] \in Tiers /\ queueDepthByTier[tier[r]] > 0
<1>1. tier[r] \in Tiers
  BY DEF AInv, Shape
<1>2. r \in QueuedIn(tier[r])
  BY DEF QueuedIn, Queued, InQueue
<1> QED
  BY <1>1, <1>2, Sizes DEF AInv, Counts

\* The dequeue closure, on the way to service, on a cancellation and at the end.
LEMMA DequeueMoves ==
    ASSUME AInv, NEW r \in Clients, LeaveQueue(r) \/ CancelQueued(r) \/ Leave(r)
    PROVE  Moves(r)
<1> USE ClientsAssumption, LimitsAssumption
    DEF AInv, Moves, Shape, Progress, ProgressOf, OthersStay, Capacity, Bit, InQueue,
        InTier, HasBody, HasPermit, Serves, Goto, Labels, Dequeue
<1>1. CASE LeaveQueue(r)
  BY <1>1, ClampUnused DEF LeaveQueue
<1>2. CASE CancelQueued(r)
  BY <1>2, ClampUnused DEF CancelQueued
<1>3. CASE Leave(r)
  <2>1. 0 \in Generations
    BY DEF Generations
  <2> QED
    BY <1>3, <2>1, ClampUnused DEF Leave
<1> QED
  BY <1>1, <1>2, <1>3

\* Service, or its refusal by the per-user scheduler, and the deferred releases.
LEMMA ServiceMoves ==
    ASSUME AInv, NEW r \in Clients,
           \/ FairShareReject(r) \/ BeginServing(r) \/ StartRelay(r) \/ EndServing(r) \/ EndRelay(r)
           \/ ReleaseSemaphore(r) \/ ReleaseBuffer(r)
    PROVE  Moves(r)
<1> USE ClientsAssumption, LimitsAssumption
    DEF AInv, Moves, Shape, Progress, ProgressOf, OthersStay, Capacity, Bit, InQueue,
        InTier, HasBody, HasPermit, Serves, Goto, Labels
<1>1. CASE FairShareReject(r)
  BY <1>1 DEF FairShareReject
<1>2. CASE BeginServing(r)
  BY <1>2 DEF BeginServing
<1>3. CASE EndServing(r) \/ EndRelay(r)
  BY <1>3 DEF EndServing, EndRelay, StopServing
<1>6. CASE StartRelay(r)
  BY <1>6 DEF StartRelay
<1>4. CASE ReleaseSemaphore(r)
  BY <1>4 DEF ReleaseSemaphore
<1>5. CASE ReleaseBuffer(r)
  BY <1>5 DEF ReleaseBuffer
<1> QED
  BY <1>1, <1>2, <1>3, <1>4, <1>5, <1>6

-----------------------------------------------------------------------------
\* Every step keeps the invariant; a reload moves no request.
LEMMA NextKeeps == AInv /\ [AdmissionNext]_avars => AInv'
<1> SUFFICES ASSUME AInv, [AdmissionNext]_avars PROVE AInv'
  OBVIOUS
<1>1. ASSUME NEW r \in Clients, Moves(r) PROVE AInv'
  BY <1>1, StepKeeps DEF Moves
<1>2. CASE Reload
  <2>1. Shape' /\ Progress' /\ Capacity'
    BY <1>2, LimitsAssumption DEF Reload, AInv, Shape, Progress, Capacity, Generations
  <2>2. Counts'
    BY <1>2 DEF Reload, AInv, Counts, Queued, QueuedIn, HoldingBody, HoldingPermit, InService
  <2> QED
    BY <2>1, <2>2 DEF AInv
<1>3. ASSUME NEW r \in Clients, Enter(r) PROVE AInv'
  BY <1>1, <1>3, ArrivalMoves
<1>4. ASSUME NEW r \in Clients, Acquire(r) PROVE AInv'
  BY <1>1, <1>4, QueueMoves
<1>5. ASSUME NEW r \in Clients, CancelQueued(r) PROVE AInv'
  BY <1>1, <1>5, DequeueMoves
<1>6. ASSUME NEW r \in Clients, Proceed(r) PROVE AInv'
  <2>1. CASE BeginBuffering(r) \/ Refuse(r)
    BY <1>1, <2>1, ArrivalMoves
  <2>2. CASE \E t \in Tiers : ChooseNode(r, t)
    BY <1>1, <2>2, QueueMoves
  <2>3. CASE LeaveQueue(r) \/ Leave(r)
    BY <1>1, <2>3, DequeueMoves
  <2>4. CASE \/ FairShareReject(r) \/ BeginServing(r) \/ StartRelay(r) \/ EndServing(r)
             \/ ReleaseSemaphore(r) \/ ReleaseBuffer(r)
    BY <1>1, <2>4, ServiceMoves
  <2> QED
    BY <1>6, <2>1, <2>2, <2>3, <2>4 DEF Proceed, ReadOrRefuse
<1>7. ASSUME NEW r \in Clients, EndRelay(r) PROVE AInv'
  BY <1>1, <1>7, ServiceMoves
<1>8. CASE UNCHANGED avars
  <2>1. Shape' /\ Progress' /\ Capacity'
    BY <1>8 DEF avars, AInv, Shape, Progress, Capacity
  <2>2. Counts'
    BY <1>8 DEF avars, AInv, Counts, Queued, QueuedIn, HoldingBody, HoldingPermit, InService
  <2> QED
    BY <2>1, <2>2 DEF AInv
<1> QED
  BY <1>2, <1>3, <1>4, <1>5, <1>6, <1>7, <1>8 DEF AdmissionNext

\* Every counter of the router is at all times the number of requests it stands
\* for, and no semaphore is over its capacity.
THEOREM AdmissionInvariant == AdmissionSpec => []AInv
<1> QED
  BY InitAInv, NextKeeps, PTL DEF AdmissionSpec

\* queueDepth, buffering, inflight and the gauges are never negative.
THEOREM AdmissionTypes == AdmissionSpec => []AdmissionTypeOK
<1>1. AInv => AdmissionTypeOK
  <2> SUFFICES ASSUME AInv PROVE AdmissionTypeOK
    OBVIOUS
  <2>1. queueDepth \in Nat /\ buffering \in Nat /\ inflight \in Nat
    BY Sizes DEF AInv, Counts
  <2>2. \A t \in Tiers : queueDepthByTier[t] \in Nat
    BY Sizes DEF AInv, Counts
  <2>3. \A g \in Generations : semaphore[g] \in Nat
    BY Sizes DEF AInv, Counts
  <2> QED
    BY <2>1, <2>2, <2>3 DEF AInv, Shape, AdmissionTypeOK
<1> QED
  BY <1>1, AdmissionInvariant, PTL

\* No exit path of handleProxy leaks a queue slot or returns one twice.
THEOREM QueueNeverLeaks == AdmissionSpec => []QueueConserved
<1>1. AInv => QueueConserved
  BY DEF AInv, Counts, QueueConserved
<1> QED
  BY <1>1, AdmissionInvariant, PTL

\* The clamped per-tier gauge of addQueueDepthByTier never drifts.
THEOREM TiersNeverLeak == AdmissionSpec => []TierConserved
<1>1. AInv => TierConserved
  BY DEF AInv, Counts, QueuedIn, TierConserved
<1> QED
  BY <1>1, AdmissionInvariant, PTL

\* Reloads neither strand nor mint semaphore tokens.
THEOREM PermitsNeverLeak == AdmissionSpec => []PermitsConserved
<1>1. AInv => PermitsConserved
  BY DEF AInv, Counts, Capacity, PermitsConserved
<1> QED
  BY <1>1, AdmissionInvariant, PTL

-----------------------------------------------------------------------------
\* The requests of configuration g that the queue let in and that still hold
\* their slot. Those it refused are counted by queueDepth too, but hold no body.
Waiting(g) == {r \in Clients : /\ gen[r] = g /\ ~dequeued[r]
                               /\ pc[r] \in {"admitted", "reading", "waiting", "acquired", "unwinding"}}

\* The queue gate: not the depth of the queue, which refused requests and those
\* of other configurations raise, but the requests let in under a limit obey it.
QueueGate == \A g \in Generations : Cardinality(Waiting(g)) <= MaxQueueDepth[g]

\* A set that loses members or stays as it is obeys the limit it obeyed.
LEMMA SubsetWithin ==
    ASSUME NEW S \in SUBSET Clients, NEW T \in SUBSET S, NEW n \in Nat, Cardinality(S) <= n
    PROVE  Cardinality(T) <= n
<1>1. IsFiniteSet(S)
  BY ClientsAssumption, FS_Subset
<1>2. /\ Cardinality(S) \in Nat /\ Cardinality(T) \in Nat
      /\ Cardinality(T) <= Cardinality(S)
  BY <1>1, FS_Subset, FS_CardinalityType
<1> QED
  BY <1>2

\* Only Enter lets a request in, and it compares the depth with the limit of the
\* request's own snapshot after it has counted the request.
LEMMA EnterGate ==
    ASSUME AInv, AInv', QueueGate, NEW r \in Clients, Enter(r), NEW g \in Generations
    PROVE  Cardinality(Waiting(g)') <= MaxQueueDepth[g]
<1>1. PICK h \in 0..current :
         /\ gen' = [gen EXCEPT ![r] = h]
         /\ pc' = [pc EXCEPT ![r] = IF queueDepth' > MaxQueueDepth[h] THEN "leaving" ELSE "admitted"]
  BY DEF Enter, Goto
<1>2. UNCHANGED dequeued /\ pc[r] = "idle"
  BY DEF Enter
<1>3. MaxQueueDepth[g] \in Nat
  BY LimitsAssumption
<1>4. CASE r \in Waiting(g)'
  <2>1. h = g /\ queueDepth' <= MaxQueueDepth[g]
    BY <1>1, <1>4, LimitsAssumption DEF AInv, Shape, Waiting
  <2>2. Waiting(g)' \in SUBSET Queued' /\ Queued' \in SUBSET Clients
    BY DEF Waiting, Queued
  <2>3. Cardinality(Queued') <= MaxQueueDepth[g]
    BY <2>1 DEF AInv, Counts
  <2> QED
    BY <1>3, <2>2, <2>3, SubsetWithin
<1>5. CASE r \notin Waiting(g)'
  <2>1. Waiting(g)' \in SUBSET Waiting(g) /\ Waiting(g) \in SUBSET Clients
    BY <1>1, <1>2, <1>5 DEF Waiting, AInv, Shape
  <2> QED
    BY <1>3, <2>1, SubsetWithin DEF QueueGate
<1> QED
  BY <1>4, <1>5

\* No other step lets a request in.
LEMMA NextGate == AInv /\ AInv' /\ QueueGate /\ [AdmissionNext]_avars => QueueGate'
<1> SUFFICES ASSUME AInv, AInv', QueueGate, [AdmissionNext]_avars, NEW g \in Generations
             PROVE  Cardinality(Waiting(g)') <= MaxQueueDepth[g]
  BY DEF QueueGate
<1>1. MaxQueueDepth[g] \in Nat /\ Waiting(g) \in SUBSET Clients
  BY LimitsAssumption DEF Waiting
<1>2. ASSUME Waiting(g)' \in SUBSET Waiting(g)
      PROVE  Cardinality(Waiting(g)') <= MaxQueueDepth[g]
  BY <1>1, <1>2, SubsetWithin DEF QueueGate
<1>3. CASE Reload \/ UNCHANGED avars
  BY <1>2, <1>3 DEF Reload, avars, Waiting
<1>4. ASSUME NEW r \in Clients, Enter(r)
      PROVE  Cardinality(Waiting(g)') <= MaxQueueDepth[g]
  BY <1>4, EnterGate
<1>5. ASSUME NEW r \in Clients, Proceed(r) \/ Acquire(r) \/ CancelQueued(r) \/ EndRelay(r)
      PROVE  Waiting(g)' \in SUBSET Waiting(g)
  <2> USE DEF Waiting, Goto, AInv, Shape, Progress
  <2>1. CASE BeginBuffering(r) \/ Refuse(r)
    BY <2>1 DEF BeginBuffering, Refuse
  <2>2. CASE \E t \in Tiers : ChooseNode(r, t)
    BY <2>2 DEF ChooseNode
  <2>3. CASE LeaveQueue(r) \/ Leave(r) \/ CancelQueued(r)
    BY <2>3 DEF LeaveQueue, Leave, CancelQueued
  <2>4. CASE FairShareReject(r) \/ BeginServing(r) \/ StartRelay(r) \/ EndServing(r) \/ EndRelay(r)
    BY <2>4 DEF FairShareReject, BeginServing, StartRelay, EndServing, EndRelay, StopServing
  <2>5. CASE ReleaseSemaphore(r) \/ ReleaseBuffer(r) \/ Acquire(r)
    BY <2>5 DEF ReleaseSemaphore, ReleaseBuffer, Acquire
  <2> QED
    BY <1>5, <2>1, <2>2, <2>3, <2>4, <2>5 DEF Proceed, ReadOrRefuse
<1> QED
  BY <1>2, <1>3, <1>4, <1>5 DEF AdmissionNext

LEMMA InitGate == AdmissionInit => QueueGate
<1> SUFFICES ASSUME AdmissionInit, NEW g \in Generations
             PROVE  Cardinality(Waiting(g)) <= MaxQueueDepth[g]
  BY DEF QueueGate
<1>1. Waiting(g) = {}
  BY DEF AdmissionInit, Waiting
<1> QED
  BY <1>1, LimitsAssumption, FS_EmptySet

\* A body is held by a request the queue let in or by one that has a token.
LEMMA GatesBoundBodies == AInv /\ QueueGate => WorkingBodiesBounded
<1> SUFFICES ASSUME AInv, QueueGate, NEW g \in Generations
             PROVE  Cardinality({r \in HoldingBody : gen[r] = g /\ (~dequeued[r] \/ r \in HoldingPermit(g))})
                       <= MaxQueueDepth[g] + MaxConcurrency[g]
  BY DEF WorkingBodiesBounded
<1> DEFINE W == {r \in HoldingBody : gen[r] = g /\ (~dequeued[r] \/ r \in HoldingPermit(g))}
<1>1. /\ W \subseteq Waiting(g) \cup HoldingPermit(g)
      /\ IsFiniteSet(Waiting(g)) /\ IsFiniteSet(HoldingPermit(g))
  <2>1. Waiting(g) \subseteq Clients /\ HoldingPermit(g) \subseteq Clients
    BY DEF Waiting, HoldingPermit
  <2>2. W \subseteq Waiting(g) \cup HoldingPermit(g)
    BY DEF HoldingBody, Waiting, HoldingPermit
  <2> QED
    BY <2>1, <2>2, ClientsAssumption, FS_Subset
<1>2. /\ IsFiniteSet(Waiting(g) \cup HoldingPermit(g))
      /\ Cardinality(Waiting(g) \cup HoldingPermit(g))
            <= Cardinality(Waiting(g)) + Cardinality(HoldingPermit(g))
  <2>1. Cardinality(Waiting(g) \cap HoldingPermit(g)) \in Nat
    BY <1>1, FS_Intersection, FS_CardinalityType
  <2>2. Cardinality(Waiting(g)) \in Nat /\ Cardinality(HoldingPermit(g)) \in Nat
    BY <1>1, FS_CardinalityType
  <2>3. /\ IsFiniteSet(Waiting(g) \cup HoldingPermit(g))
        /\ Cardinality(Waiting(g) \cup HoldingPermit(g))
              = Cardinality(Waiting(g)) + Cardinality(HoldingPermit(g))
                - Cardinality(Waiting(g) \cap HoldingPermit(g))
    BY <1>1, FS_Union
  <2> QED
    BY <2>1, <2>2, <2>3
<1>3. Cardinality(W) <= Cardinality(Waiting(g) \cup HoldingPermit(g))
  BY <1>1, <1>2, FS_Subset
<1>4. /\ Cardinality(Waiting(g)) <= MaxQueueDepth[g]
      /\ Cardinality(HoldingPermit(g)) <= MaxConcurrency[g]
  BY DEF QueueGate, AInv, Counts, Capacity
<1>5. /\ Cardinality(W) \in Nat /\ Cardinality(Waiting(g)) \in Nat
      /\ Cardinality(HoldingPermit(g)) \in Nat
      /\ Cardinality(Waiting(g) \cup HoldingPermit(g)) \in Nat
  BY <1>1, <1>2, FS_Subset, FS_CardinalityType
<1> QED
  BY <1>2, <1>3, <1>4, <1>5, LimitsAssumption

\* Queue and semaphore together bound the bodies in memory that are worked on,
\* under each configuration and across reloads of the limits.
THEOREM BodiesBounded == AdmissionSpec => []WorkingBodiesBounded
<1> QED
  BY InitGate, NextGate, GatesBoundBodies, AdmissionInvariant, PTL DEF AdmissionSpec

-----------------------------------------------------------------------------
(***************************************************************************)
(* RequestPath.                                                            *)
(***************************************************************************)

\* The node a request is routed to is one of its snapshot's and has a tier
\* Admission knows.
LEMMA RouteChooses ==
    ASSUME AInv, NEW r \in Clients, Route(r)
    PROVE  \E t \in Tiers : ChooseNode(r, t)
<1> DEFINE personal == request[r].personal /\ piiRuleArmed
<1>1. PICK n \in Candidates(r, personal) : ChooseNode(r, n.tier)
  BY Zenon DEF Route
<1>2. n \in Nodes[gen[r]] /\ gen[r] \in Generations
  BY DEF Candidates, AInv, Shape
<1> QED
  BY <1>1, <1>2, RequestAssumption

\* Every step of RequestPath is a step of Admission or a stutter of it.
LEMMA StepRefines == AInv /\ [RequestNext]_rvars => [AdmissionNext]_avars
<1> SUFFICES ASSUME AInv, [RequestNext]_rvars PROVE [AdmissionNext]_avars
  OBVIOUS
<1>1. CASE ReloadConfig
  BY <1>1 DEF ReloadConfig, AdmissionNext
<1>2. CASE Drain \/ UNCHANGED rvars
  BY <1>2 DEF Drain, rvars
<1>3. ASSUME NEW r \in Clients, Arrive(r) \/ RequestProceeds(r) \/ FailOver(r)
                                \/ Acquire(r) \/ Done(r, CancelQueued(r)) \/ Done(r, EndRelay(r))
      PROVE  [AdmissionNext]_avars
  <2>1. CASE Arrive(r)
    BY <2>1 DEF Arrive, AdmissionNext
  <2>2. CASE Route(r)
    BY <2>2, RouteChooses DEF AdmissionNext, Proceed, ReadOrRefuse
  <2>3. CASE RequestProceeds(r) /\ ~Route(r)
    BY <2>3 DEF RequestProceeds, Done, LeaveAttributed, AdmissionNext, Proceed, ReadOrRefuse
  <2>4. CASE FailOver(r)
    BY <2>4 DEF FailOver
  <2>5. CASE Acquire(r) \/ Done(r, CancelQueued(r)) \/ Done(r, EndRelay(r))
    BY <2>5 DEF Done, AdmissionNext
  <2> QED
    BY <1>3, <2>1, <2>2, <2>3, <2>4, <2>5
<1> QED
  BY <1>1, <1>2, <1>3 DEF RequestNext

LEMMA RequestKeepsAInv == AInv /\ [RequestNext]_rvars => AInv'
BY StepRefines, NextKeeps

\* Admission's invariant holds of requests with content, under every reload of
\* nodes, rules and policies.
THEOREM RequestInvariant == RequestSpec => []AInv
<1>1. RequestInit => AInv
  BY InitAInv DEF RequestInit
<1> QED
  BY <1>1, RequestKeepsAInv, PTL DEF RequestSpec

\* RequestPath implements Admission: handleProxy with its routing decisions does
\* to the counters what Admission says.
THEOREM RequestRefinesAdmission ==
    RequestSpec => AdmissionInit /\ [][AdmissionNext]_avars
<1>1. RequestInit => AdmissionInit
  BY DEF RequestInit
<1> QED
  BY <1>1, StepRefines, RequestInvariant, PTL DEF RequestSpec

\* No routing decision, refusal, failover or reload leaks a queue slot.
THEOREM RequestQueueNeverLeaks == RequestSpec => []QueueConserved
<1>1. AInv => QueueConserved
  BY DEF AInv, Counts, QueueConserved
<1> QED
  BY <1>1, RequestInvariant, PTL

\* Nor does one make a tier's gauge drift.
THEOREM RequestTiersNeverLeak == RequestSpec => []TierConserved
<1>1. AInv => TierConserved
  BY DEF AInv, Counts, QueuedIn, TierConserved
<1> QED
  BY <1>1, RequestInvariant, PTL

\* Nor does one strand or mint a semaphore token.
THEOREM RequestPermitsNeverLeak == RequestSpec => []PermitsConserved
<1>1. AInv => PermitsConserved
  BY DEF AInv, Counts, Capacity, PermitsConserved
<1> QED
  BY <1>1, RequestInvariant, PTL

\* The bodies worked on stay within the queue and the permits of their own
\* configuration, whatever the requests carry and however often it is reloaded.
THEOREM RequestBodiesBounded == RequestSpec => []WorkingBodiesBounded
<1>1. RequestInit => QueueGate
  BY InitGate DEF RequestInit
<1>2. AInv /\ AInv' /\ QueueGate /\ [RequestNext]_rvars => QueueGate'
  BY StepRefines, NextGate
<1> QED
  BY <1>1, <1>2, GatesBoundBodies, RequestInvariant, PTL DEF RequestSpec

-----------------------------------------------------------------------------
\* The handlers between the choice of a node and the end of its use.
Routed == {"waiting", "acquired", "permitted", "serving", "relaying"}

AllNodes == UNION {Nodes[g] : g \in Generations}
Target == [node: AllNodes \cup {NoRequest}, personal: BOOLEAN]

\* Some configuration since the request took its snapshot has the rule off.
RuleWasOff(r) == \E g \in gen[r] .. current : ~Rearmed(g)

\* What is known of a request's target: there is none before a node is chosen
\* and after its use, the decision taken then binds every attempt, and a
\* personal body decided not to be personal met a rule that was off.
TargetKept(r) ==
    /\ pc[r] \notin Routed => target[r] = NoTarget
    /\ pc[r] \in Routed =>
           /\ target[r].personal => target[r].node.piiLocal
           /\ request[r].personal => target[r].personal \/ RuleWasOff(r)

\* The flag the handlers read is the one of the configuration in force, and no
\* snapshot is newer than it.
PathInv ==
    /\ piiRuleArmed = Rearmed(current)
    /\ \A r \in Clients : gen[r] <= current
    /\ target \in [Clients -> Target]
    /\ \A r \in Clients : TargetKept(r)

\* A rule that was off once since the snapshot still was after any step that
\* keeps the snapshot.
LEMMA RuleStaysOff ==
    ASSUME AInv, AInv', NEW r \in Clients, current <= current', gen'[r] = gen[r], RuleWasOff(r)
    PROVE  RuleWasOff(r)'
<1>1. PICK g \in gen[r] .. current : ~Rearmed(g)
  BY DEF RuleWasOff
<1>2. gen[r] \in Int /\ current \in Int /\ current' \in Int
  BY LimitsAssumption DEF AInv, Shape, Generations
<1>3. g \in gen[r] .. current'
  BY <1>2
<1> QED
  BY <1>1, <1>3 DEF RuleWasOff, Rearmed

\* A client whose handler, snapshot, request and target stay keeps what is known
\* of it, whatever is reloaded meanwhile.
LEMMA KeptByOthers ==
    ASSUME AInv, AInv', PathInv, NEW r \in Clients, current <= current',
           pc'[r] = pc[r], gen'[r] = gen[r], request'[r] = request[r], target'[r] = target[r]
    PROVE  TargetKept(r)'
<1>1. RuleWasOff(r) => RuleWasOff(r)'
  BY RuleStaysOff
<1>2. TargetKept(r)
  BY DEF PathInv
<1> QED
  BY <1>1, <1>2 DEF TargetKept

\* A step of one client, the configuration standing still, keeps the invariant
\* if it keeps what is known of that client.
OthersKeep(r) ==
    \A x \in Clients \ {r} : /\ pc'[x] = pc[x] /\ gen'[x] = gen[x]
                             /\ request'[x] = request[x] /\ target'[x] = target[x]

LEMMA ClientStepKeeps ==
    ASSUME AInv, AInv', PathInv, NEW r \in Clients, OthersKeep(r),
           UNCHANGED <<current, piiRuleArmed>>,
           gen'[r] <= current, target' \in [Clients -> Target], TargetKept(r)'
    PROVE  PathInv'
<1>1. current \in Int
  BY LimitsAssumption DEF AInv, Shape, Generations
<1>2. \A x \in Clients : TargetKept(x)'
  BY <1>1, KeptByOthers DEF OthersKeep
<1>3. \A x \in Clients : gen'[x] <= current'
  BY DEF OthersKeep, PathInv
<1>4. piiRuleArmed' = Rearmed(current')
  BY DEF PathInv, Rearmed
<1> QED
  BY <1>2, <1>3, <1>4 DEF PathInv

\* A configuration is replaced together with the flag.
LEMMA ReloadKeepsPath ==
    ASSUME AInv, AInv', PathInv, ReloadConfig
    PROVE  PathInv'
<1>1. current \in Int /\ current' = current + 1
  BY LimitsAssumption DEF AInv, Shape, Generations, ReloadConfig, Reload
<1>2. UNCHANGED <<pc, gen, request, target>>
  BY DEF ReloadConfig, Reload
<1>3. \A x \in Clients : TargetKept(x)'
  BY <1>1, <1>2, KeptByOthers
<1>4. \A x \in Clients : gen[x] \in Int
  BY LimitsAssumption DEF AInv, Shape, Generations
<1>5. \A x \in Clients : gen'[x] <= current'
  BY <1>1, <1>2, <1>4 DEF PathInv
<1>6. piiRuleArmed' = Rearmed(current')
  BY DEF ReloadConfig
<1> QED
  BY <1>2, <1>3, <1>5, <1>6 DEF PathInv

\* The choice of a node: the flag is the one of the current configuration, so a
\* personal body that passes it unmarked has met a rule that is off now.
LEMMA RouteKeepsPath ==
    ASSUME AInv, AInv', PathInv, NEW r \in Clients, Route(r)
    PROVE  PathInv'
<1> DEFINE personal == request[r].personal /\ piiRuleArmed
<1>1. PICK n \in Candidates(r, personal) :
         /\ ChooseNode(r, n.tier)
         /\ target' = [target EXCEPT ![r] = [node |-> n, personal |-> personal]]
  BY Zenon DEF Route
<1>2. /\ UNCHANGED <<piiRuleArmed, request, current, gen>>
      /\ pc' = [pc EXCEPT ![r] = "waiting"]
  BY <1>1 DEF Route, ChooseNode, Goto
<1>3. n \in Nodes[gen[r]] /\ gen[r] \in Generations /\ n \in AllNodes /\ ~(personal /\ ~n.piiLocal)
  BY DEF Candidates, AInv, Shape, AllNodes, PersonalBlocks
<1>4. [node |-> n, personal |-> personal] \in Target
  BY <1>3 DEF Target
<1>5. /\ target' \in [Clients -> Target]
      /\ target'[r] = [node |-> n, personal |-> personal]
      /\ \A x \in Clients \ {r} : target'[x] = target[x]
  BY <1>1, <1>4 DEF PathInv
<1>6. gen[r] \in Int /\ current \in Int /\ gen[r] <= current
  BY LimitsAssumption DEF AInv, Shape, Generations, PathInv
<1>7. ~piiRuleArmed => RuleWasOff(r)'
  <2>1. current \in gen[r] .. current
    BY <1>6
  <2> QED
    BY <1>2, <2>1 DEF RuleWasOff, PathInv, Rearmed
<1>8. TargetKept(r)'
  <2>1. pc'[r] = "waiting"
    BY <1>2 DEF AInv, Shape
  <2>2. target'[r].personal = personal /\ target'[r].node = n
    BY <1>5
  <2>3. target'[r].personal => target'[r].node.piiLocal
    BY <1>3, <2>2
  <2>4. request'[r].personal => target'[r].personal \/ RuleWasOff(r)'
    BY <1>2, <1>7, <2>2
  <2> QED
    BY <2>1, <2>3, <2>4 DEF TargetKept, Routed
<1>9. OthersKeep(r) /\ gen'[r] <= current
  BY <1>2, <1>5, <1>6 DEF OthersKeep, AInv, Shape
<1> QED
  BY <1>2, <1>5, <1>8, <1>9, ClientStepKeeps

\* Another attempt is decided by the first one's verdict.
LEMMA FailOverKeepsPath ==
    ASSUME AInv, AInv', PathInv, NEW r \in Clients, FailOver(r)
    PROVE  PathInv'
<1>1. PICK n \in Candidates(r, target[r].personal) : target' = [target EXCEPT ![r].node = n]
  BY DEF FailOver
<1>2. UNCHANGED <<piiRuleArmed, request, current, gen, pc>> /\ pc[r] = "serving"
  BY DEF FailOver, avars
<1>3. /\ n \in AllNodes
      /\ target[r].personal => n.piiLocal
  BY DEF Candidates, AInv, Shape, AllNodes, PersonalBlocks
<1>4. PICK m \in AllNodes \cup {NoRequest}, p \in BOOLEAN : target[r] = [node |-> m, personal |-> p]
  BY DEF PathInv, Target
<1>5. /\ target' = [target EXCEPT ![r] = [node |-> n, personal |-> p]]
      /\ [node |-> n, personal |-> p] \in Target
  <2>1. [[node |-> m, personal |-> p] EXCEPT !.node = n] = [node |-> n, personal |-> p]
    OBVIOUS
  <2>2. target' = [target EXCEPT ![r] = [target[r] EXCEPT !.node = n]]
    BY <1>1, Zenon
  <2>3. target' = [target EXCEPT ![r] = [node |-> n, personal |-> p]]
    BY <1>4, <2>1, <2>2, Zenon
  <2> QED
    BY <1>3, <2>3 DEF Target
<1>6. /\ target' \in [Clients -> Target]
      /\ target'[r].node = n /\ target'[r].personal = target[r].personal
      /\ \A x \in Clients \ {r} : target'[x] = target[x]
  BY <1>4, <1>5 DEF PathInv
<1>7. RuleWasOff(r) => RuleWasOff(r)'
  BY <1>2 DEF RuleWasOff, Rearmed
<1>8. TargetKept(r)'
  <2>1. TargetKept(r)
    BY DEF PathInv
  <2> QED
    BY <1>2, <1>3, <1>6, <1>7, <2>1 DEF TargetKept, Routed
<1>9. OthersKeep(r) /\ gen'[r] <= current
  BY <1>2, <1>6 DEF OthersKeep, PathInv
<1> QED
  BY <1>2, <1>6, <1>8, <1>9, ClientStepKeeps

\* A handler that moves on without touching its target.
LEMMA MoveKeepsPath ==
    ASSUME AInv, AInv', PathInv, NEW r \in Clients,
           UNCHANGED <<current, piiRuleArmed, request, target, gen>>, OthersStay(r),
           pc[r] \in Routed <=> pc'[r] \in Routed
    PROVE  PathInv'
<1>1. RuleWasOff(r) => RuleWasOff(r)'
  BY DEF RuleWasOff, Rearmed
<1>2. TargetKept(r)
  BY DEF PathInv
<1>3. TargetKept(r)'
  BY <1>1, <1>2 DEF TargetKept
<1> QED
  BY <1>3, ClientStepKeeps DEF OthersStay, OthersKeep, PathInv

\* A handler that has no target, before its step and after it.
LEMMA ClearKeepsPath ==
    ASSUME AInv, AInv', PathInv, NEW r \in Clients,
           UNCHANGED <<current, piiRuleArmed>>, OthersKeep(r), gen'[r] <= current,
           target' = [target EXCEPT ![r] = NoTarget], pc'[r] \notin Routed
    PROVE  PathInv'
<1>1. target' \in [Clients -> Target] /\ target'[r] = NoTarget
  BY DEF PathInv, Target, NoTarget
<1>2. TargetKept(r)'
  BY <1>1 DEF TargetKept
<1> QED
  BY <1>1, <1>2, ClientStepKeeps

LEMMA ArriveKeepsPath ==
    ASSUME AInv, AInv', PathInv, NEW r \in Clients, Arrive(r)
    PROVE  PathInv'
<1>1. PICK g \in 0..current :
         /\ gen' = [gen EXCEPT ![r] = g]
         /\ pc' = [pc EXCEPT ![r] = IF queueDepth' > MaxQueueDepth[g] THEN "leaving" ELSE "admitted"]
  BY DEF Arrive, Enter, Goto
<1>2. PICK q \in Incoming[r] :
         request' = [request EXCEPT ![r] = IF pc'[r] = "admitted" THEN q ELSE NoRequest]
  BY DEF Arrive
<1>3. pc[r] = "idle" /\ UNCHANGED <<current, piiRuleArmed, target>>
  BY DEF Arrive, Enter
<1>4. pc'[r] \notin Routed /\ gen'[r] = g /\ g <= current
  BY <1>1, LimitsAssumption DEF AInv, Shape, Routed, Generations
<1>5. OthersKeep(r)
  <2>1. \A x \in Clients \ {r} : request'[x] = request[x]
    BY <1>2
  <2> QED
    BY <1>1, <1>3, <2>1 DEF OthersKeep, AInv, Shape
<1>6. target[r] = NoTarget
  BY <1>3 DEF PathInv, TargetKept, Routed
<1>7. target' \in [Clients -> Target] /\ TargetKept(r)'
  BY <1>3, <1>4, <1>6 DEF PathInv, TargetKept
<1> QED
  BY <1>3, <1>4, <1>5, <1>7, ClientStepKeeps

\* A request that is over drops its target with its content.
LEMMA DoneKeepsPath ==
    ASSUME AInv, AInv', PathInv, NEW r \in Clients,
           \/ Done(r, Refuse(r)) \/ Done(r, FairShareReject(r))
           \/ Done(r, EndServing(r)) \/ Done(r, EndRelay(r)) \/ Done(r, CancelQueued(r))
    PROVE  PathInv'
<1>1. /\ request' = [request EXCEPT ![r] = NoRequest]
      /\ target' = [target EXCEPT ![r] = NoTarget]
      /\ UNCHANGED <<piiRuleArmed, current, gen>>
  BY DEF Done, Refuse, FairShareReject, EndServing, EndRelay, StopServing, CancelQueued
<1>2. /\ pc'[r] \notin Routed
      /\ \A x \in Clients \ {r} : pc'[x] = pc[x]
  BY DEF Done, Refuse, FairShareReject, EndServing, EndRelay, StopServing, CancelQueued,
         Goto, AInv, Shape, Routed
<1>3. OthersKeep(r) /\ gen'[r] <= current
  BY <1>1, <1>2 DEF OthersKeep, PathInv
<1> QED
  BY <1>1, <1>2, <1>3, ClearKeepsPath

LEMMA LeaveKeepsPath ==
    ASSUME AInv, AInv', PathInv, NEW r \in Clients, LeaveAttributed(r)
    PROVE  PathInv'
<1>1. /\ UNCHANGED <<current, piiRuleArmed, request, target>>
      /\ pc[r] = "leaving" /\ pc' = [pc EXCEPT ![r] = "idle"] /\ gen' = [gen EXCEPT ![r] = 0]
  BY DEF LeaveAttributed, Leave, Goto
<1>2. pc'[r] = "idle" /\ gen'[r] = 0 /\ 0 <= current
  BY <1>1, LimitsAssumption DEF AInv, Shape, Generations
<1>3. target[r] = NoTarget
  BY <1>1 DEF PathInv, TargetKept, Routed
<1>4. target' \in [Clients -> Target] /\ TargetKept(r)'
  BY <1>1, <1>2, <1>3 DEF PathInv, TargetKept, Routed
<1>5. OthersKeep(r)
  BY <1>1 DEF OthersKeep, AInv, Shape
<1> QED
  BY <1>1, <1>2, <1>4, <1>5, ClientStepKeeps

\* Every step keeps the invariant.
LEMMA NextKeepsPath == AInv /\ AInv' /\ PathInv /\ [RequestNext]_rvars => PathInv'
<1> SUFFICES ASSUME AInv, AInv', PathInv, [RequestNext]_rvars PROVE PathInv'
  OBVIOUS
<1>1. CASE ReloadConfig
  BY <1>1, ReloadKeepsPath
<1>2. CASE UNCHANGED <<avars, piiRuleArmed, request, target>>
  BY <1>2 DEF avars, PathInv, TargetKept, RuleWasOff, Rearmed
<1>3. ASSUME NEW r \in Clients,
             \/ BeginBuffering(r) \/ LeaveQueue(r) \/ BeginServing(r) \/ StartRelay(r)
             \/ ReleaseSemaphore(r) \/ ReleaseBuffer(r) \/ Acquire(r),
             UNCHANGED pvars
      PROVE  PathInv'
  <2>1. UNCHANGED <<current, piiRuleArmed, request, target, gen>>
    BY <1>3 DEF pvars, BeginBuffering, LeaveQueue, BeginServing, StartRelay,
                ReleaseSemaphore, ReleaseBuffer, Acquire
  <2>2. OthersStay(r) /\ (pc[r] \in Routed <=> pc'[r] \in Routed)
    BY <1>3 DEF BeginBuffering, LeaveQueue, BeginServing, StartRelay, ReleaseSemaphore,
                ReleaseBuffer, Acquire, Goto, AInv, Shape, OthersStay, Routed
  <2> QED
    BY <2>1, <2>2, MoveKeepsPath
<1>4. ASSUME NEW r \in Clients, Arrive(r) PROVE PathInv'
  BY <1>4, ArriveKeepsPath
<1>5. ASSUME NEW r \in Clients, FailOver(r) PROVE PathInv'
  BY <1>5, FailOverKeepsPath
<1>6. ASSUME NEW r \in Clients,
             RequestProceeds(r) \/ Done(r, CancelQueued(r)) \/ Done(r, EndRelay(r))
      PROVE  PathInv'
  BY <1>3, <1>6, DoneKeepsPath, LeaveKeepsPath, RouteKeepsPath DEF RequestProceeds
<1> QED
  BY <1>1, <1>2, <1>3, <1>4, <1>5, <1>6 DEF RequestNext, rvars, pvars, Drain

\* A personal body reaches a node that is not pii_local only if a configuration
\* in force since the request's snapshot has the rule off: on the first attempt,
\* where the rule is read live, and on each failover after it.
THEOREM PersonalBodiesStayLocal == RequestSpec => []PIILocalOnly
<1>1. RequestInit => PathInv
  <2> SUFFICES ASSUME RequestInit PROVE PathInv
    OBVIOUS
  <2>1. /\ piiRuleArmed = Rearmed(current)
        /\ target = [r \in Clients |-> NoTarget] /\ pc = [r \in Clients |-> "idle"]
        /\ \A r \in Clients : gen[r] <= current
    BY DEF RequestInit, AdmissionInit
  <2>2. target \in [Clients -> Target]
    BY <2>1 DEF Target, NoTarget
  <2> QED
    BY <2>1, <2>2 DEF PathInv, TargetKept, Routed
<1>2. PathInv => PIILocalOnly
  <2> SUFFICES ASSUME PathInv, NEW r \in Clients, target[r] # NoTarget,
                      request[r].personal, ~target[r].node.piiLocal
               PROVE  \E g \in gen[r] .. current : ~RuleArmed(PIILocalRule[g], AnyNodePIILocal(g))
    BY DEF PIILocalOnly
  <2>1. TargetKept(r)
    BY DEF PathInv
  <2> QED
    BY <2>1 DEF TargetKept, RuleWasOff, Rearmed
<1> QED
  BY <1>1, <1>2, NextKeepsPath, RequestInvariant, PTL DEF RequestSpec

-----------------------------------------------------------------------------
(***************************************************************************)
(* Smart routing. A policy that loads has classes of different, nonempty   *)
(* names, so that looking a name up finds the class it came from; the      *)
(* largest threshold the prompt reaches exists because all that are        *)
(* reached lie below the length of the prompt.                             *)
(***************************************************************************)

\* A set of numbers has a least element.
LEMMA NaturalsHaveLeast ==
    ASSUME NEW S \in SUBSET Nat, S # {}
    PROVE  \E x \in S : \A y \in S : x <= y
<1>1. \E x \in S : \A y \in S : <<y, x>> \notin OpToRel(<, Nat)
  BY NatLessThanWellFounded, WFMin
<1>2. PICK x \in S : \A y \in S : <<y, x>> \notin OpToRel(<, Nat)
  BY <1>1
<1>3. ASSUME NEW y \in S PROVE x <= y
  <2>1. SUFFICES ASSUME y < x PROVE FALSE
    OBVIOUS
  <2>2. <<y, x>> \in OpToRel(<, Nat)
    BY <2>1 DEF OpToRel
  <2> QED
    BY <1>2, <2>2
<1> QED
  BY <1>3

\* First is the place a loop stops at.
LEMMA FirstIsIn ==
    ASSUME NEW S \in SUBSET Nat, S # {}
    PROVE  First(S) \in S
<1>1. \E x \in S : \A y \in S : x <= y
  BY NaturalsHaveLeast
<1>2. Min(S) \in S
  BY <1>1, Zenon DEF Min
<1> QED
  BY <1>2 DEF First

\* The places of a policy's classes are numbers, and their classes are typed.
LEMMA ClassesTyped ==
    ASSUME NEW p \in Policies
    PROVE  /\ DOMAIN p.classes \in SUBSET Nat
           /\ \A i \in DOMAIN p.classes : /\ p.classes[i].enabled \in BOOLEAN
                                          /\ p.classes[i].least \in Nat
<1>1. p.classes \in Seq(ClassType)
  BY DecisionAssumption
<1>2. ASSUME NEW i \in DOMAIN p.classes
      PROVE  p.classes[i] \in ClassType
  BY <1>1
<1>3. ASSUME NEW c \in ClassType PROVE c.enabled \in BOOLEAN /\ c.least \in Nat
  BY DEF ClassType
<1>4. DOMAIN p.classes \in SUBSET Nat
  BY <1>1
<1> QED
  BY <1>2, <1>3, <1>4

\* Looking up the name of a class finds that class.
LEMMA LookupFinds ==
    ASSUME NEW p \in Policies, ValidatePolicy(p), NEW i \in DOMAIN p.classes
    PROVE  Lookup(p, p.classes[i].name) = p.classes[i]
<1> DEFINE S == {j \in DOMAIN p.classes : p.classes[j].name = p.classes[i].name}
<1>1. First(S) \in S
  <2>1. S \in SUBSET Nat /\ S # {}
    BY ClassesTyped
  <2> QED
    BY <2>1, FirstIsIn
<1>2. First(S) = i
  BY <1>1 DEF ValidatePolicy
<1> QED
  BY <1>2 DEF Lookup

\* A usable name is the name of an enabled class, which lookup returns.
LEMMA UsableIsOn ==
    ASSUME NEW p \in Policies, ValidatePolicy(p),
           NEW name \in ClassNames(p) \cup {NoneSet}, Usable(p, name)
    PROVE  \E i \in EnabledClasses(p) :
               p.classes[i].name = name /\ Lookup(p, name) = p.classes[i]
<1>1. name \in ClassNames(p)
  BY DEF Usable
<1>2. PICK i \in DOMAIN p.classes : p.classes[i].name = name
  BY <1>1 DEF ClassNames
<1>3. Lookup(p, name) = p.classes[i]
  BY <1>2, LookupFinds
<1> QED
  BY <1>2, <1>3 DEF EnabledClasses, Usable

\* The name of an enabled class is usable.
LEMMA OnIsUsable ==
    ASSUME NEW p \in Policies, ValidatePolicy(p), NEW i \in EnabledClasses(p)
    PROVE  /\ Usable(p, p.classes[i].name)
           /\ Lookup(p, p.classes[i].name) = p.classes[i]
           /\ p.classes[i].name \in ClassNames(p)
<1>1. i \in DOMAIN p.classes /\ p.classes[i].enabled
  BY DEF EnabledClasses
<1>2. Lookup(p, p.classes[i].name) = p.classes[i]
  BY <1>1, LookupFinds
<1>3. p.classes[i].name # NoneSet
  BY <1>1 DEF ValidatePolicy
<1> QED
  BY <1>1, <1>2, <1>3 DEF Usable, ClassNames

\* A prompt that reaches a threshold reaches a largest one.
LEMMA LargestExists ==
    ASSUME NEW p \in Policies, NEW q \in Inputs, Reached(p, q) # {}
    PROVE  Largest(p, q) # {}
<1> DEFINE least(i) == p.classes[i].least
           rest(i) == PromptLength(q) - least(i)
           S == {rest(i) : i \in Reached(p, q)}
<1>1. PromptLength(q) \in Nat
  BY DecisionAssumption DEF PromptLength
<1>2. ASSUME NEW i \in Reached(p, q) PROVE least(i) \in Nat /\ least(i) <= PromptLength(q)
  BY <1>1, ClassesTyped DEF Reached, EnabledClasses
<1> HIDE DEF least
<1>3. S \in SUBSET Nat /\ S # {}
  BY <1>1, <1>2
<1>4. PICK x \in S : \A y \in S : x <= y
  BY <1>3, NaturalsHaveLeast
<1>5. PICK i \in Reached(p, q) : x = rest(i)
  BY <1>4
<1>6. ASSUME NEW j \in Reached(p, q) PROVE least(j) <= least(i)
  <2>1. rest(i) <= rest(j)
    BY <1>4, <1>5
  <2> QED
    BY <1>1, <1>2, <2>1
<1>7. i \in Largest(p, q)
  BY <1>5, <1>6 DEF Largest, least
<1> QED
  BY <1>7

\* The class heuristics infer is an enabled one or none, and has the largest
\* threshold if any is reached.
LEMMA HeuristicIsOn ==
    ASSUME NEW p \in Policies, NEW q \in Inputs
    PROVE  /\ HeuristicClass(p, q) # NoneSet =>
                 \E i \in EnabledClasses(p) : HeuristicClass(p, q) = p.classes[i].name
           /\ Reached(p, q) # {} =>
                 \E i \in Largest(p, q) : HeuristicClass(p, q) = p.classes[i].name
<1>1. /\ Largest(p, q) \subseteq EnabledClasses(p)
      /\ Marked(p, q) \subseteq EnabledClasses(p)
      /\ EnabledClasses(p) \in SUBSET Nat
  BY ClassesTyped DEF Largest, Reached, Marked, EnabledClasses
<1>2. Reached(p, q) # {} => First(Largest(p, q)) \in Largest(p, q)
  BY <1>1, LargestExists, FirstIsIn
<1>3. Marked(p, q) # {} => First(Marked(p, q)) \in Marked(p, q)
  BY <1>1, FirstIsIn
<1>4. Reached(p, q) # {} => PromptLength(q) # 0
  <2>1. PromptLength(q) \in Nat
    BY DecisionAssumption DEF PromptLength
  <2> QED
    BY <2>1, ClassesTyped DEF Reached, EnabledClasses
<1> QED
  BY <1>1, <1>2, <1>3, <1>4, Zenon DEF HeuristicClass

\* Every decision of a policy that loads is sound.
LEMMA PolicyDecidesSoundly ==
    ASSUME NEW p \in Policies, ValidatePolicy(p), p.enabled, NEW q \in Inputs
    PROVE  SoundFor(p, q)
<1> DEFINE forced == ForceClass(p, DetectAgent(q))
           header == HeaderClass(p, q)
           inferred == HeuristicClass(p, q)
           d == Decide(p, q)
           on == {p.classes[i] : i \in EnabledClasses(p)}
           explicit == ExtractModel(q) \notin {NoneSet, AutoModel}
<1>1. forced \in ClassNames(p) \cup {NoneSet}
  BY DEF ForceClass, ValidatePolicy
<1>2. header \in ClassNames(p) \cup {NoneSet}
  BY DEF HeaderClass
<1>3. inferred \in ClassNames(p) \cup {NoneSet}
  BY HeuristicIsOn, OnIsUsable
<1>4. ASSUME NEW name \in ClassNames(p) \cup {NoneSet}, Usable(p, name)
      PROVE  Lookup(p, name) \in on /\ Lookup(p, name).name = name
  BY <1>4, UsableIsOn
<1>5. CASE Usable(p, forced)
  <2>1. d = DecisionFor(Lookup(p, forced), "agent_force")
    BY <1>5 DEF Decide
  <2>2. d.class = forced /\ d.source = "agent_force"
    BY <1>1, <1>4, <1>5, <2>1 DEF DecisionFor
  <2> QED
    BY <1>1, <1>4, <1>5, <2>2 DEF SoundFor
<1>6. CASE ~Usable(p, forced) /\ explicit
  <2>1. d = Unrouted(q, "explicit_model")
    BY <1>6 DEF Decide
  <2>2. d.class = NoneSet /\ d.source = "explicit_model"
    BY <2>1 DEF Unrouted
  <2>3. q.parses => RewrittenModel(q, d) = q.model
    BY <2>2 DEF RewrittenModel, ExtractModel
  <2> QED
    BY <2>2, <2>3 DEF SoundFor
<1>7. ASSUME ~explicit
      PROVE  ~(q.parses /\ q.model \notin {NoneSet, AutoModel})
  BY <1>7 DEF ExtractModel
<1>8. CASE ~Usable(p, forced) /\ ~explicit /\ Usable(p, header)
  <2>1. d = DecisionFor(Lookup(p, header), "header")
    BY <1>8 DEF Decide
  <2>2. d.class = header /\ d.source = "header"
    BY <1>2, <1>4, <1>8, <2>1 DEF DecisionFor
  <2> QED
    BY <1>2, <1>4, <1>7, <1>8, <2>2 DEF SoundFor
<1>9. ASSUME ~Usable(p, header), NEW c \in on
      PROVE  c.name # q.task
  <2>1. PICK i \in EnabledClasses(p) : c = p.classes[i]
    OBVIOUS
  <2>2. Usable(p, c.name) /\ c.name \in ClassNames(p)
    BY <2>1, OnIsUsable
  <2> QED
    BY <1>9, <2>2 DEF HeaderClass
<1>10. ASSUME NEW c \in on, c.least > 0 /\ PromptLength(q) >= c.least
       PROVE  Usable(p, inferred) /\ Lookup(p, inferred).least >= c.least
  <2>1. PICK j \in EnabledClasses(p) : c = p.classes[j]
    OBVIOUS
  <2>2. j \in Reached(p, q)
    BY <1>10, <2>1 DEF Reached
  <2>3. PICK i \in Largest(p, q) : inferred = p.classes[i].name
    BY <2>2, HeuristicIsOn
  <2>4. i \in EnabledClasses(p) /\ p.classes[j].least <= p.classes[i].least
    BY <2>2, <2>3 DEF Largest, Reached
  <2>5. Usable(p, inferred) /\ Lookup(p, inferred) = p.classes[i]
    BY <2>3, <2>4, OnIsUsable
  <2> QED
    BY <2>1, <2>4, <2>5, ClassesTyped DEF EnabledClasses
<1>11. CASE ~Usable(p, forced) /\ ~explicit /\ ~Usable(p, header) /\ Usable(p, inferred)
  <2>1. d = DecisionFor(Lookup(p, inferred), "heuristic")
    BY <1>11 DEF Decide
  <2>2. d.class = inferred /\ d.source = "heuristic"
    BY <1>3, <1>4, <1>11, <2>1 DEF DecisionFor
  <2> QED
    BY <1>3, <1>4, <1>7, <1>9, <1>10, <1>11, <2>2 DEF SoundFor
<1>12. CASE ~Usable(p, forced) /\ ~explicit /\ ~Usable(p, header) /\ ~Usable(p, inferred)
  <2>1. d = DecisionFor(Lookup(p, p.default), "default")
    BY <1>12 DEF Decide
  <2>2. d.source = "default"
    BY <2>1 DEF DecisionFor
  <2> QED
    BY <1>7, <1>9, <1>10, <1>12, <2>2 DEF SoundFor
<1> QED
  BY <1>5, <1>6, <1>8, <1>11, <1>12

\* Smart routing keeps its word under every policy Validate accepts, for every
\* request: see SoundFor (Decide, its classifiers, Policy.lookup, Rewrite).
THEOREM DecisionsAreSound == RequestSpec => []DecisionsSound
<1>1. LoadablePolicies \subseteq SoundPolicies
  BY PolicyDecidesSoundly DEF LoadablePolicies, SoundPolicies
<1>2. DecisionsSound
  BY <1>1 DEF DecisionsSound
<1> QED
  BY <1>2, PTL
=============================================================================
