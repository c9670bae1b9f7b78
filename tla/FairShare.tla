----------------------------- MODULE FairShare ------------------------------
(***************************************************************************)
(* The two token buckets of the router: the per-user share of requests     *)
(* (internal/fairshare) and the limit on forced health sweeps              *)
(* (internal/health/liveprobe.go). A bucket refills in proportion to the   *)
(* time since it was last asked; its tokens are counted in parts of one    *)
(* token, so nothing is rounded. Only time differences are ever used, so a *)
(* bucket keeps its age, up to the largest that matters.                   *)
(*                                                                         *)
(* Acquire looks the user's bucket up under Scheduler.mu and asks it under *)
(* bucket.mu; in between the garbage collection may delete the bucket, and *)
(* the caller goes on with one nobody else will find.                      *)
(***************************************************************************)
EXTENDS Integers, FiniteSets, FiniteSetsExt

CONSTANTS
    Requesters,        \* concurrent calls of Acquire, for one user
    MaxRequests,       \* Config.MaxRequestsPerUser
    Window,            \* Config.Window, in ticks
    Burst,             \* Config.Burst
    ProbeInterval,     \* live_probe.interval, in ticks
    ProbeBurst         \* live_probe.burst

ASSUME ShareAssumption ==
    /\ IsFiniteSet(Requesters)
    /\ {MaxRequests, Window, Burst, ProbeInterval, ProbeBurst} \subseteq Nat \ {0}

IdleLimit == 2 * Window
NoId == 0
\* Addresses of buckets: the scheduler's and one for each waiting caller.
Ids == 1 .. Cardinality(Requesters) + 1

VARIABLES
    heap,       \* address -> bucket
    entry,      \* the address in Scheduler.buckets, or NoId
    asking,     \* requester -> the address it looked up, or NoId
    admitted,   \* an age in ticks -> requests admitted since then
    strays,     \* of these, the ones admitted by a deleted bucket
    gate,       \* the probe limiter's bucket, once the first sweep made it
    sweeps,     \* an age in ticks -> forced sweeps admitted since then
    refusal     \* what the last step refused

svars == <<heap, entry, asking, admitted, strays, gate, sweeps, refusal>>

-----------------------------------------------------------------------------
\* Faulty variant: whole windows only, by integer division.
RefilledInWindows(b, rate, unit, cap) ==
    [tokens |-> Min({cap * unit, b.tokens + rate * unit * (b.age \div unit)}), age |-> 0]

\* The refill of either Allow: rate tokens per unit of time, up to cap.
Refilled(b, rate, unit, cap) ==
    [tokens |-> Min({cap * unit, b.tokens + rate * b.age}), age |-> 0]

Ask(b, rate, unit, cap) == Refilled(b, rate, unit, cap).tokens >= unit
Asked(b, rate, unit, cap) ==
    LET r == Refilled(b, rate, unit, cap) IN
    IF Ask(b, rate, unit, cap) THEN [r EXCEPT !.tokens = @ - unit] ELSE r

NewBucket == [tokens |-> Window * Min({Burst, MaxRequests}), age |-> 0]
NewProbeLimiter == [tokens |-> ProbeInterval * ProbeBurst, age |-> 0]
NoGate == [tokens |-> 0, age |-> -1]

\* A history holds running totals, so that the last one counts its whole span.
Shifted(history) == [a \in DOMAIN history |-> IF a = 0 THEN 0 ELSE history[a - 1]]
Plus(history) == [a \in DOMAIN history |-> history[a] + 1]

ShareInit ==
    /\ heap = [i \in Ids |-> NewBucket] /\ entry = NoId
    /\ asking = [r \in Requesters |-> NoId]
    /\ admitted = [a \in 0 .. Window - 1 |-> 0]
    /\ strays = [a \in 0 .. Window - 1 |-> 0]
    /\ gate = NoGate
    /\ sweeps = [a \in 0 .. ProbeInterval - 1 |-> 0]
    /\ refusal = "none"

Free == {i \in Ids : i # entry /\ \A r \in Requesters : asking[r] # i}

\* Acquire's first half: the bucket of the user, made if it is not there.
LookUp(r) ==
    /\ asking[r] = NoId
    /\ IF entry # NoId
         THEN asking' = [asking EXCEPT ![r] = entry] /\ UNCHANGED <<heap, entry>>
         ELSE LET i == Min(Free) IN
              /\ heap' = [heap EXCEPT ![i] = NewBucket]
              /\ entry' = i
              /\ asking' = [asking EXCEPT ![r] = i]
    /\ refusal' = "none"
    /\ UNCHANGED <<admitted, strays, gate, sweeps>>

\* A bucket nobody can reach any more is as good as new.
Reclaimed(h, i, gone) == IF gone THEN [h EXCEPT ![i] = NewBucket] ELSE h

\* Its second half: the bucket looked up is asked, deleted or not.
Allow(r) ==
    /\ asking[r] # NoId
    /\ LET i == asking[r]
           b == heap[i]
           ok == Ask(b, MaxRequests, Window, MaxRequests)
           stray == i # entry
           last == stray /\ \A q \in Requesters \ {r} : asking[q] # i IN
       /\ heap' = Reclaimed([heap EXCEPT ![i] = Asked(b, MaxRequests, Window, MaxRequests)], i, last)
       /\ asking' = [asking EXCEPT ![r] = NoId]
       /\ admitted' = IF ok THEN Plus(admitted) ELSE admitted
       /\ strays' = IF ok /\ stray THEN Plus(strays) ELSE strays
       /\ refusal' = IF ok THEN "none" ELSE "request"
    /\ UNCHANGED <<entry, gate, sweeps>>

\* Faulty variant: every bucket goes, busy or not.
GCAll ==
    /\ entry # NoId
    /\ entry' = NoId
    /\ heap' = Reclaimed(heap, entry, \A r \in Requesters : asking[r] # entry)
    /\ refusal' = "none"
    /\ UNCHANGED <<asking, admitted, strays, gate, sweeps>>

\* gc: a bucket not asked for more than two windows is deleted from the map.
GC ==
    /\ entry # NoId
    /\ heap[entry].age > IdleLimit
    /\ entry' = NoId
    /\ heap' = Reclaimed(heap, entry, \A r \in Requesters : asking[r] # entry)
    /\ refusal' = "none"
    /\ UNCHANGED <<asking, admitted, strays, gate, sweeps>>

\* handleHealth with live=1: forcedProbeAllowed makes the limiter on first use;
\* a refused sweep is answered from the cache.
ForcedSweep ==
    /\ LET g == IF gate = NoGate THEN NewProbeLimiter ELSE gate
           ok == Ask(g, 1, ProbeInterval, ProbeBurst) IN
       /\ gate' = Asked(g, 1, ProbeInterval, ProbeBurst)
       /\ sweeps' = IF ok THEN Plus(sweeps) ELSE sweeps
       /\ refusal' = IF ok THEN "none" ELSE "sweep"
    /\ UNCHANGED <<heap, entry, asking, admitted, strays>>

Older(b, most) == [b EXCEPT !.age = Min({most, @ + 1})]
Held(i) == i \notin Free

Tick ==
    /\ heap' = [i \in Ids |-> IF Held(i) THEN Older(heap[i], IdleLimit + 1) ELSE heap[i]]
    /\ gate' = IF gate = NoGate THEN gate ELSE Older(gate, ProbeInterval * ProbeBurst)
    /\ admitted' = Shifted(admitted) /\ strays' = Shifted(strays) /\ sweeps' = Shifted(sweeps)
    /\ refusal' = "none"
    /\ UNCHANGED <<entry, asking>>

ShareNext == Tick \/ GC \/ \E r \in Requesters : LookUp(r) \/ Allow(r)

ProbeNext == Tick \/ ForcedSweep

-----------------------------------------------------------------------------
\* In any window a user gets at most what its bucket can store and what one
\* window refills. Deleting idle buckets adds nothing to that, except for the
\* callers that were between the lookup and the question when it happened:
\* each adds one, and within a window they can be caught so at most twice.
\* Forced health sweeps number at most burst in any interval.
BucketsBounded ==
    /\ admitted[Window - 1] - strays[Window - 1] < 2 * MaxRequests
    /\ strays[Window - 1] <= 2 * Cardinality(Requesters)
    /\ sweeps[ProbeInterval - 1] <= ProbeBurst

\* Nobody is refused too early: when Acquire answers false, the user has been
\* admitted at least min(burst, max_requests_per_user) times in the current
\* window, whether or not its bucket was deleted in between; a forced sweep is
\* throttled only if another was admitted within the interval.
RefusalIsEarned ==
    /\ refusal = "request" => admitted[Window - 1] >= Min({Burst, MaxRequests})
    /\ refusal = "sweep" => sweeps[ProbeInterval - 1] > 0
=============================================================================
