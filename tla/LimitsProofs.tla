---------------------------- MODULE LimitsProofs ----------------------------
(***************************************************************************)
(* Proofs about the limits, for every threshold, cooldown, share, window,  *)
(* burst and probe interval and any number of concurrent callers.          *)
(*                                                                         *)
(* The breaker: its count and its state agree, whatever order results      *)
(* arrive in.                                                              *)
(*                                                                         *)
(* The buckets: for every age up to the window, what was admitted since    *)
(* then plus what the bucket holds now is at most a full bucket plus the   *)
(* refill since (nothing too much), and at least its first tokens or the   *)
(* refill since (nobody refused too early). What a deleted bucket admits   *)
(* is charged to the callers the deletion caught; deletions are more than  *)
(* two windows apart, so a window holds what two of them can catch.        *)
(***************************************************************************)
EXTENDS Limits, FiniteSetTheorems, NaturalsInduction, WellFoundedInduction, TLAPS

BInv == BreakerTypeOK /\ ClosedMeansBelowThreshold

\* What RecordFailure does in each state.
LEMMA FailureCases ==
    ASSUME NEW b \in BreakerType
    PROVE  /\ b.state = "half_open" =>
                  RecordFailure(b) = [b EXCEPT !.state = "open", !.age = 0]
           /\ b.state = "open" => RecordFailure(b) = b
           /\ b.state = "closed" /\ b.failures + 1 < Threshold =>
                  RecordFailure(b) = [b EXCEPT !.failures = @ + 1]
           /\ b.state = "closed" /\ ~(b.failures + 1 < Threshold) =>
                  RecordFailure(b) = [state |-> "open", failures |-> b.failures + 1, age |-> 0]
<1>1. b.failures \in Nat /\ Threshold \in Nat
  BY BreakerAssumption DEF BreakerType
<1>2. b.failures + 1 >= Threshold <=> ~(b.failures + 1 < Threshold)
  BY <1>1
<1> QED
  BY <1>2, Zenon DEF RecordFailure

\* Every breaker method keeps the record well typed.
LEMMA MethodTypes ==
    ASSUME NEW b \in BreakerType
    PROVE  /\ AfterAllow(b) \in BreakerType /\ RecordSuccess(b) \in BreakerType
           /\ RecordFailure(b) \in BreakerType /\ Aged(b) \in BreakerType
<1>1. AfterAllow(b) \in BreakerType /\ RecordSuccess(b) \in BreakerType
  BY DEF BreakerType, AfterAllow, RecordSuccess
<1>2. Aged(b) \in BreakerType
  <2>1. CASE b.state = "open" /\ b.age < Cooldown
    <3>1. b.age + 1 \in 0..Cooldown
      BY <2>1, BreakerAssumption DEF BreakerType
    <3> QED
      BY <2>1, <3>1 DEF BreakerType, Aged
  <2>2. CASE ~(b.state = "open" /\ b.age < Cooldown)
    BY <2>2 DEF Aged
  <2> QED
    BY <2>1, <2>2
<1>0. 0 \in 0..Cooldown
  BY BreakerAssumption
<1>3. [b EXCEPT !.state = "open", !.age = 0] \in BreakerType
  BY <1>0 DEF BreakerType
<1>4. [b EXCEPT !.failures = @ + 1] \in BreakerType
  BY DEF BreakerType
<1>5. [state |-> "open", failures |-> b.failures + 1, age |-> 0] \in BreakerType
  BY BreakerAssumption DEF BreakerType
<1>6. b.state \in {"closed", "open", "half_open"}
  BY DEF BreakerType
<1> QED
  BY <1>1, <1>2, <1>3, <1>4, <1>5, <1>6, FailureCases

\* What each method does to the two fields the invariant speaks of.
LEMMA MethodEffects ==
    ASSUME NEW b \in BreakerType
    PROVE  /\ AfterAllow(b).failures = b.failures
           /\ AfterAllow(b).state = "closed" <=> b.state = "closed"
           /\ Aged(b).failures = b.failures /\ Aged(b).state = b.state
           /\ RecordSuccess(b).failures = 0 /\ RecordSuccess(b).state = "closed"
           /\ b.state # "closed" => RecordFailure(b).state # "closed"
           /\ b.state = "closed" =>
                 /\ RecordFailure(b).failures = b.failures + 1
                 /\ RecordFailure(b).state = "closed" <=> b.failures + 1 < Threshold
<1>1. /\ AfterAllow(b).failures = b.failures
      /\ AfterAllow(b).state = "closed" <=> b.state = "closed"
  BY DEF BreakerType, AfterAllow
<1>2. Aged(b).failures = b.failures /\ Aged(b).state = b.state
  BY DEF BreakerType, Aged
<1>3. RecordSuccess(b).failures = 0 /\ RecordSuccess(b).state = "closed"
  BY DEF BreakerType, RecordSuccess
<1>4. b.state \in {"closed", "open", "half_open"}
  BY DEF BreakerType
<1>5. b.state # "closed" => RecordFailure(b).state # "closed"
  <2>1. [b EXCEPT !.state = "open", !.age = 0].state = "open"
    BY DEF BreakerType
  <2> QED
    BY <1>4, <2>1, FailureCases
<1>6. ASSUME b.state = "closed"
      PROVE  /\ RecordFailure(b).failures = b.failures + 1
             /\ RecordFailure(b).state = "closed" <=> b.failures + 1 < Threshold
  <2>1. CASE b.failures + 1 < Threshold
    BY <1>6, <2>1, FailureCases DEF BreakerType
  <2>2. CASE ~(b.failures + 1 < Threshold)
    <3>1. RecordFailure(b) = [state |-> "open", failures |-> b.failures + 1, age |-> 0]
      BY <1>6, <2>2, FailureCases
    <3> QED
      BY <2>2, <3>1
  <2> QED
    BY <2>1, <2>2
<1> QED
  BY <1>1, <1>2, <1>3, <1>5, <1>6

\* A new breaker is closed and has counted nothing.
LEMMA BreakerStart == BreakerInit => BInv
  BY BreakerAssumption
  DEF BreakerInit, BInv, BreakerTypeOK, ClosedMeansBelowThreshold, NewBreaker, BreakerType

\* Every step keeps the count and the state in agreement.
LEMMA BreakerStep == BInv /\ [BreakerNext]_bvars => BInv'
<1> SUFFICES ASSUME BInv, [BreakerNext]_bvars PROVE BInv'
  OBVIOUS
<1> USE BreakerAssumption DEF BInv, BreakerTypeOK, ClosedMeansBelowThreshold
<1>1. CASE Elapse
  BY <1>1, MethodTypes, MethodEffects DEF Elapse
<1>2. ASSUME NEW c \in Callers, Call(c) PROVE BInv'
  BY <1>2, MethodTypes, MethodEffects DEF Call
<1>3. ASSUME NEW c \in Callers, Succeed(c) PROVE BInv'
  <2>1. 0 \in 0..Threshold /\ 0 < Threshold
    OBVIOUS
  <2>2. cb' = RecordSuccess(cb) /\ streak' = 0 /\ calling' \in SUBSET Callers
    BY <1>3 DEF Succeed
  <2> QED
    BY <2>1, <2>2, MethodTypes, MethodEffects
<1>4. ASSUME NEW c \in Callers, FailCall(c) PROVE BInv'
  <2>1. cb' \in BreakerType /\ calling' \in SUBSET Callers /\ streak' \in 0..Threshold
    BY <1>4, MethodTypes DEF FailCall
  <2>2. CASE cb.state = "closed"
    BY <1>4, <2>1, <2>2, MethodEffects DEF FailCall
  <2>3. CASE cb.state # "closed"
    BY <1>4, <2>1, <2>3, MethodEffects DEF FailCall
  <2> QED
    BY <2>2, <2>3
<1>5. CASE UNCHANGED bvars
  BY <1>5 DEF bvars
<1> QED
  BY <1>1, <1>2, <1>3, <1>4, <1>5 DEF BreakerNext

\* The inductive invariant holds of every reachable state.
THEOREM BreakerInvariant == BreakerSpec => []BInv
  BY BreakerStart, BreakerStep, PTL DEF BreakerSpec

\* Every variable of the shared breaker keeps its type.
THEOREM BreakerTypes == BreakerSpec => []BreakerTypeOK
  BY BreakerInvariant, PTL DEF BInv

\* However late results interleave, the breaker is closed exactly while fewer
\* than Threshold failures were recorded since the last success.
THEOREM BreakerCounts == BreakerSpec => []ClosedMeansBelowThreshold
  BY BreakerInvariant, PTL DEF BInv

\* The same of the breaker among the other limits, which never touch it.
THEOREM LimitsCountFailures == LimitsSpec => []ClosedMeansBelowThreshold
<1>1. LimitsInit => BInv
  BY BreakerStart DEF LimitsInit
<1>2. BInv /\ [LimitsNext]_lvars => BInv'
  <2>1. [LimitsNext]_lvars => [BreakerNext]_bvars
    BY DEF LimitsNext, lvars
  <2> QED
    BY <2>1, BreakerStep
<1>3. BInv => ClosedMeansBelowThreshold
  BY DEF BInv
<1> QED
  BY <1>1, <1>2, <1>3, PTL DEF LimitsSpec

-----------------------------------------------------------------------------
\* The buckets of at most top parts of a token, asked at most most ticks ago.
Buckets(top, most) == [tokens : 0 .. top, age : 0 .. most]

\* What a bucket would hold if it were asked now.
Level(b, rate, unit, cap) == Refilled(b, rate, unit, cap).tokens

\* The lesser of two numbers.
LEMMA MinIs ==
    ASSUME NEW x \in Int, NEW y \in Int
    PROVE  Min({x, y}) = IF x <= y THEN x ELSE y
<1>1. \E z \in {x, y} : \A w \in {x, y} : z <= w
  OBVIOUS
<1>2. Min({x, y}) \in {x, y} /\ \A w \in {x, y} : Min({x, y}) <= w
  BY <1>1, Zenon DEF Min
<1> QED
  BY <1>2

\* A product grows with its second factor.
LEMMA TimesGrows ==
    ASSUME NEW k \in Nat, NEW x \in Nat, NEW y \in Nat, x <= y
    PROVE  k * x \in Nat /\ k * x <= k * y
  OBVIOUS

\* The refill in numbers: what it adds, up to the maximum.
LEMMA LevelIs ==
    ASSUME NEW b \in [tokens : Nat, age : Nat],
           NEW rate \in Nat, NEW unit \in Nat, NEW cap \in Nat
    PROVE  /\ cap * unit \in Nat /\ rate * b.age \in Nat
           /\ Level(b, rate, unit, cap) =
                 IF cap * unit <= b.tokens + rate * b.age
                   THEN cap * unit ELSE b.tokens + rate * b.age
           /\ Level(b, rate, unit, cap) \in 0 .. cap * unit
<1>1. cap * unit \in Nat /\ b.tokens \in Nat /\ b.age \in Nat /\ rate * b.age \in Nat
  OBVIOUS
<1>2. Level(b, rate, unit, cap) = Min({cap * unit, b.tokens + rate * b.age})
  BY DEF Level, Refilled
<1>3. Min({cap * unit, b.tokens + rate * b.age}) =
         IF cap * unit <= b.tokens + rate * b.age
           THEN cap * unit ELSE b.tokens + rate * b.age
  BY <1>1, MinIs
<1> QED
  BY <1>1, <1>2, <1>3

\* A bucket that is asked gives a token if it has one, and starts to age anew.
LEMMA AskedIs ==
    ASSUME NEW b \in [tokens : Nat, age : Nat],
           NEW rate \in Nat, NEW unit \in Nat, NEW cap \in Nat
    PROVE  LET l == Level(b, rate, unit, cap)
               after == Asked(b, rate, unit, cap) IN
           /\ Ask(b, rate, unit, cap) <=> l >= unit
           /\ after = [tokens |-> IF l >= unit THEN l - unit ELSE l, age |-> 0]
           /\ Level(after, rate, unit, cap) = IF l >= unit THEN l - unit ELSE l
           /\ after.tokens \in 0 .. cap * unit
<1> DEFINE l == Level(b, rate, unit, cap)
           after == Asked(b, rate, unit, cap)
           rest == IF l >= unit THEN l - unit ELSE l
<1>1. /\ cap * unit \in Nat
      /\ Level(b, rate, unit, cap) \in 0 .. cap * unit
  BY LevelIs, Zenon
<1>0. Refilled(b, rate, unit, cap) = [tokens |-> Level(b, rate, unit, cap), age |-> 0]
  BY DEF Level, Refilled
<1>2. Ask(b, rate, unit, cap) <=> l >= unit
  BY DEF Ask, Level
<1>3. after = [tokens |-> rest, age |-> 0]
  BY <1>0, <1>2 DEF Asked
<1>4. rest \in 0 .. cap * unit /\ rest \in Nat
  BY <1>1
<1>5. Level(after, rate, unit, cap) = rest
  <2>1. after.tokens = rest /\ after.age = 0
    BY <1>3
  <2>2. rate * after.age = 0
    BY <2>1
  <2>3. after \in [tokens : Nat, age : Nat]
    BY <1>3, <1>4
  <2>4. Level(after, rate, unit, cap) =
                 IF cap * unit <= after.tokens + rate * after.age
                   THEN cap * unit ELSE after.tokens + rate * after.age
    BY <2>3, LevelIs
  <2> QED
    BY <2>1, <2>2, <2>4, <1>4, <1>1
<1>6. after.tokens \in 0 .. cap * unit
  BY <1>3, <1>4
<1> QED
  BY <1>2, <1>3, <1>5, <1>6

\* In one tick a bucket gains what it refills, unless it is full.
LEMMA OlderIs ==
    ASSUME NEW rate \in Nat, NEW unit \in Nat, NEW cap \in Nat, NEW most \in Nat,
           cap * unit <= rate * most,
           NEW b \in Buckets(cap * unit, most)
    PROVE  LET old == Level(b, rate, unit, cap)
               new == Level(Older(b, most), rate, unit, cap) IN
           /\ Older(b, most) \in Buckets(cap * unit, most)
           /\ Older(b, most).age <= b.age + 1
           /\ new \in 0 .. cap * unit
           /\ new <= old + rate
           /\ old + rate <= new \/ new = cap * unit
<1> DEFINE aged == IF most <= b.age + 1 THEN most ELSE b.age + 1
           old == Level(b, rate, unit, cap)
           new == Level(Older(b, most), rate, unit, cap)
<1>1. b.tokens \in 0 .. cap * unit /\ b.age \in 0 .. most /\ cap * unit \in Nat
  BY DEF Buckets
<1>2. Min({most, b.age + 1}) = aged
  BY <1>1, MinIs
<1>3. Older(b, most) = [b EXCEPT !.age = aged]
  BY <1>2 DEF Older, Buckets
<1>4. /\ Older(b, most).tokens = b.tokens /\ Older(b, most).age = aged
      /\ Older(b, most) \in Buckets(cap * unit, most)
  BY <1>1, <1>3 DEF Buckets
<1> HIDE DEF aged
<1>5. aged \in Nat /\ aged <= b.age + 1
  BY <1>1 DEF aged
<1>6. /\ new \in 0 .. cap * unit
      /\ new = IF cap * unit <= b.tokens + rate * aged THEN cap * unit ELSE b.tokens + rate * aged
  <2>1. Older(b, most) \in [tokens : Nat, age : Nat]
    BY <1>1, <1>4 DEF Buckets
  <2>2. /\ new \in 0 .. cap * unit
        /\ new = IF cap * unit <= Older(b, most).tokens + rate * Older(b, most).age
                 THEN cap * unit ELSE Older(b, most).tokens + rate * Older(b, most).age
    BY <2>1, LevelIs, Zenon
  <2> QED
    BY <1>4, <2>2, Zenon
<1>7. /\ old \in 0 .. cap * unit
      /\ old = IF cap * unit <= b.tokens + rate * b.age THEN cap * unit ELSE b.tokens + rate * b.age
  <2>1. b \in [tokens : Nat, age : Nat]
    BY <1>1 DEF Buckets
  <2> QED
    BY <2>1, LevelIs, Zenon
<1>8. rate * b.age \in Nat /\ rate * aged \in Nat
  BY <1>1, <1>5
<1> HIDE DEF old, new
<1>9. CASE aged = b.age + 1
  <2>1. rate * aged = rate * b.age + rate
    BY <1>9, <1>1
  <2> QED
    BY <1>1, <1>4, <1>5, <1>6, <1>7, <1>8, <2>1 DEF old, new
<1>10. CASE aged = most /\ b.age = most
  <2>1. cap * unit <= rate * aged
    BY <1>10
  <2>2. new = cap * unit /\ old = cap * unit
    BY <1>1, <1>6, <1>7, <1>8, <1>10, <2>1
  <2> QED
    BY <1>1, <1>4, <1>5, <1>6, <2>2 DEF old, new
<1> QED
  BY <1>1, <1>9, <1>10 DEF aged

-----------------------------------------------------------------------------
\* The limiter forced sweeps ask, made when the first one comes.
Limiter == IF gate = NoGate THEN NewProbeLimiter ELSE gate
GateLevel == Level(Limiter, 1, ProbeInterval, ProbeBurst)

GateFull == ProbeBurst * ProbeInterval

SweepTypeOK ==
    /\ gate \in Buckets(GateFull, ProbeInterval * ProbeBurst) \cup {NoGate}
    /\ sweeps \in [0 .. ProbeInterval - 1 -> Nat]

\* What the sweeps since an age took and the limiter still has came from a full
\* bucket and the refill since; without a sweep since then it refilled.
SweepsPaid ==
    \A a \in 0 .. ProbeInterval - 1 :
        /\ ProbeInterval * sweeps[a] + GateLevel <= GateFull + a
        /\ sweeps[a] = 0 => GateLevel >= a + 1

SweepInv ==
    /\ SweepTypeOK /\ SweepsPaid
    /\ refusal = "sweep" => sweeps[ProbeInterval - 1] > 0

\* The constants of the limiter.
LEMMA GateConstants ==
    /\ ProbeInterval \in Nat \ {0} /\ ProbeBurst \in Nat \ {0}
    /\ GateFull \in Nat /\ ProbeInterval * ProbeBurst = GateFull
    /\ ProbeInterval <= GateFull
<1>1. ProbeInterval \in Nat \ {0} /\ ProbeBurst \in Nat \ {0}
  BY ShareAssumption
<1>2. GateFull \in Nat /\ ProbeInterval * ProbeBurst = GateFull
  BY <1>1 DEF GateFull
<1>3. ProbeInterval * 1 <= ProbeInterval * ProbeBurst
  BY <1>1, TimesGrows
<1> QED
  BY <1>1, <1>2, <1>3

\* A bucket is never mistaken for the missing limiter.
LEMMA BucketIsNotNoGate ==
    ASSUME NEW top \in Nat, NEW most \in Nat, NEW b \in Buckets(top, most)
    PROVE  b # NoGate
  BY DEF Buckets, NoGate

\* The limiter is a bucket, made or not.
LEMMA LimiterTyped ==
    ASSUME SweepTypeOK
    PROVE  /\ Limiter \in Buckets(GateFull, GateFull)
           /\ Limiter \in [tokens : Nat, age : Nat]
           /\ GateLevel \in 0 .. GateFull
           /\ gate = NoGate => GateLevel = GateFull
<1> USE GateConstants
<1>1. NewProbeLimiter \in Buckets(GateFull, GateFull)
  BY DEF NewProbeLimiter, Buckets
<1>2. Limiter \in Buckets(GateFull, GateFull)
  BY <1>1 DEF Limiter, SweepTypeOK
<1>3. Limiter \in [tokens : Nat, age : Nat]
  BY <1>2 DEF Buckets
<1>4. GateLevel \in 0 .. GateFull
  BY <1>3, LevelIs DEF GateLevel, GateFull
<1>5. ASSUME gate = NoGate PROVE GateLevel = GateFull
  <2>1. Limiter.tokens = GateFull /\ Limiter.age = 0
    BY <1>5 DEF Limiter, NewProbeLimiter
  <2>2. GateLevel = IF GateFull <= Limiter.tokens + 1 * Limiter.age
                      THEN GateFull ELSE Limiter.tokens + 1 * Limiter.age
    BY <1>3, LevelIs DEF GateLevel, GateFull
  <2> QED
    BY <2>1, <2>2
<1> QED
  BY <1>2, <1>3, <1>4, <1>5

\* A forced sweep pays one token, or finds none because another paid it within
\* the interval.
LEMMA SweepKeepsSweepInv ==
    ASSUME SweepInv, ForcedSweep
    PROVE  SweepInv'
<1> USE GateConstants
<1> DEFINE ok == GateLevel >= ProbeInterval
           D == 0 .. ProbeInterval - 1
<1>1. SweepTypeOK /\ SweepsPaid
  BY DEF SweepInv
<1>2. /\ Limiter \in [tokens : Nat, age : Nat] /\ GateLevel \in 0 .. GateFull
  BY <1>1, LimiterTyped
<1>3. /\ gate' = Asked(Limiter, 1, ProbeInterval, ProbeBurst)
      /\ sweeps' = IF Ask(Limiter, 1, ProbeInterval, ProbeBurst) THEN Plus(sweeps) ELSE sweeps
      /\ refusal' = IF Ask(Limiter, 1, ProbeInterval, ProbeBurst) THEN "none" ELSE "sweep"
  BY DEF ForcedSweep, Limiter
<1>4. /\ Ask(Limiter, 1, ProbeInterval, ProbeBurst) <=> ok
      /\ gate' = [tokens |-> IF ok THEN GateLevel - ProbeInterval ELSE GateLevel, age |-> 0]
      /\ Level(gate', 1, ProbeInterval, ProbeBurst)
            = IF ok THEN GateLevel - ProbeInterval ELSE GateLevel
  BY <1>2, <1>3, AskedIs DEF GateLevel
<1>5. gate' \in Buckets(GateFull, ProbeInterval * ProbeBurst)
  BY <1>2, <1>4 DEF Buckets
<1>6. gate' # NoGate
  BY <1>5, BucketIsNotNoGate
<1>7. GateLevel' = IF ok THEN GateLevel - ProbeInterval ELSE GateLevel
  BY <1>4, <1>6 DEF GateLevel, Limiter
<1>8. sweeps \in [D -> Nat]
  BY <1>1 DEF SweepTypeOK
<1>9. sweeps' = [a \in D |-> IF ok THEN sweeps[a] + 1 ELSE sweeps[a]]
  BY <1>3, <1>4, <1>8 DEF Plus
<1>10. SweepTypeOK'
  BY <1>5, <1>8, <1>9 DEF SweepTypeOK
<1>11. ASSUME NEW a \in D
       PROVE  /\ sweeps[a] \in Nat
              /\ ProbeInterval * sweeps[a] + GateLevel <= GateFull + a
              /\ sweeps[a] = 0 => GateLevel >= a + 1
              /\ sweeps'[a] = IF ok THEN sweeps[a] + 1 ELSE sweeps[a]
  BY <1>1, <1>8, <1>9 DEF SweepsPaid
<1>12. ASSUME NEW a \in D
       PROVE  /\ ProbeInterval * sweeps'[a] + GateLevel' <= GateFull + a
              /\ sweeps'[a] = 0 => GateLevel' >= a + 1
  <2>1. CASE ok
    <3>1. sweeps'[a] = sweeps[a] + 1 /\ GateLevel' = GateLevel - ProbeInterval
      BY <1>7, <1>11, <2>1
    <3>2. ProbeInterval * (sweeps[a] + 1) = ProbeInterval * sweeps[a] + ProbeInterval
      BY <1>11
    <3>3. ProbeInterval * sweeps[a] \in Nat
      BY <1>11
    <3> QED
      BY <1>2, <1>11, <3>1, <3>2, <3>3
  <2>2. CASE ~ ok
    BY <1>7, <1>11, <2>2
  <2> QED
    BY <2>1, <2>2
<1>13. SweepsPaid'
  BY <1>12 DEF SweepsPaid
<1>14. refusal' = "sweep" => sweeps'[ProbeInterval - 1] > 0
  <2>1. SUFFICES ASSUME ~ ok PROVE sweeps'[ProbeInterval - 1] > 0
    BY <1>3, <1>4
  <2>2. ProbeInterval - 1 \in D
    OBVIOUS
  <2>3. PICK a \in D : a = ProbeInterval - 1
    BY <2>2
  <2> QED
    BY <1>2, <1>11, <2>1, <2>3
<1> QED
  BY <1>10, <1>13, <1>14 DEF SweepInv

\* A tick refills the limiter by one part and makes every sweep one older.
LEMMA TickKeepsSweepInv ==
    ASSUME SweepInv, Tick
    PROVE  SweepInv'
<1> USE GateConstants
<1> DEFINE D == 0 .. ProbeInterval - 1
<1>1. SweepTypeOK /\ SweepsPaid
  BY DEF SweepInv
<1>2. /\ Limiter \in Buckets(GateFull, GateFull) /\ GateLevel \in 0 .. GateFull
      /\ gate = NoGate => GateLevel = GateFull
  BY <1>1, LimiterTyped
<1>3. /\ gate' = IF gate = NoGate THEN gate ELSE Older(gate, ProbeInterval * ProbeBurst)
      /\ sweeps' = Shifted(sweeps) /\ refusal' = "none"
  BY DEF Tick
<1>4. /\ gate' \in Buckets(GateFull, ProbeInterval * ProbeBurst) \cup {NoGate}
      /\ GateLevel' \in 0 .. GateFull
      /\ GateLevel' <= GateLevel + 1
      /\ GateLevel + 1 <= GateLevel' \/ GateLevel' = GateFull
  <2>1. CASE gate = NoGate
    <3>1. gate' = gate
      BY <1>3, <2>1
    <3>2. GateLevel' = GateLevel
      BY <3>1 DEF GateLevel, Limiter
    <3> QED
      BY <1>1, <1>2, <2>1, <3>1, <3>2 DEF SweepTypeOK
  <2>2. CASE gate # NoGate
    <3>1. Limiter = gate /\ gate' = Older(gate, GateFull)
      BY <1>3, <2>2 DEF Limiter
    <3>2. ProbeBurst * ProbeInterval <= 1 * GateFull
      BY DEF GateFull
    <3>3. gate \in Buckets(ProbeBurst * ProbeInterval, GateFull)
      BY <1>2, <3>1 DEF GateFull
    <3>4. /\ Older(gate, GateFull) \in Buckets(ProbeBurst * ProbeInterval, GateFull)
          /\ Level(Older(gate, GateFull), 1, ProbeInterval, ProbeBurst)
                \in 0 .. ProbeBurst * ProbeInterval
          /\ Level(Older(gate, GateFull), 1, ProbeInterval, ProbeBurst)
                <= Level(gate, 1, ProbeInterval, ProbeBurst) + 1
          /\ \/ Level(gate, 1, ProbeInterval, ProbeBurst) + 1
                   <= Level(Older(gate, GateFull), 1, ProbeInterval, ProbeBurst)
             \/ Level(Older(gate, GateFull), 1, ProbeInterval, ProbeBurst)
                   = ProbeBurst * ProbeInterval
      <4>1. GateFull \in Nat /\ 1 \in Nat /\ ProbeInterval \in Nat /\ ProbeBurst \in Nat
        OBVIOUS
      <4> QED
        BY <3>2, <3>3, <4>1, OlderIs
    <3>5. gate' # NoGate
      BY <3>1, <3>4, BucketIsNotNoGate DEF GateFull
    <3>6. GateLevel' = Level(gate', 1, ProbeInterval, ProbeBurst)
      BY <3>5 DEF GateLevel, Limiter
    <3> QED
      BY <3>1, <3>4, <3>6 DEF GateLevel, GateFull
  <2> QED
    BY <2>1, <2>2
<1>5. sweeps \in [D -> Nat]
  BY <1>1 DEF SweepTypeOK
<1>6. sweeps' = [a \in D |-> IF a = 0 THEN 0 ELSE sweeps[a - 1]]
  BY <1>3, <1>5 DEF Shifted
<1>7. SweepTypeOK'
  BY <1>4, <1>5, <1>6 DEF SweepTypeOK
<1>8. ASSUME NEW a \in D
      PROVE  /\ ProbeInterval * sweeps'[a] + GateLevel' <= GateFull + a
             /\ sweeps'[a] = 0 => GateLevel' >= a + 1
  <2>1. CASE a = 0
    <3>1. sweeps'[a] = 0
      BY <1>6, <2>1
    <3>2. ProbeInterval * sweeps'[a] = 0
      BY <3>1
    <3>3. GateLevel' >= 1
      BY <1>2, <1>4
    <3>4. GateLevel' <= GateFull /\ GateLevel' \in Nat
      BY <1>4
    <3> QED
      BY <2>1, <3>2, <3>3, <3>4
  <2>2. CASE a # 0
    <3>1. PICK b \in D : b = a - 1
      BY <2>2
    <3>2. sweeps'[a] = sweeps[b] /\ sweeps[b] \in Nat
      BY <1>5, <1>6, <2>2, <3>1
    <3>3. /\ ProbeInterval * sweeps[b] + GateLevel <= GateFull + b
          /\ sweeps[b] = 0 => GateLevel >= b + 1
      BY <1>1 DEF SweepsPaid
    <3>4. ProbeInterval * sweeps[b] \in Nat
      BY <3>2
    <3> QED
      BY <1>2, <1>4, <3>1, <3>2, <3>3, <3>4
  <2> QED
    BY <2>1, <2>2
<1>9. SweepsPaid'
  BY <1>8 DEF SweepsPaid
<1> QED
  BY <1>3, <1>7, <1>9 DEF SweepInv

-----------------------------------------------------------------------------
ShareFull == MaxRequests * Window
FirstTokens == Min({Burst, MaxRequests})
InWindow == 0 .. Window - 1

\* What the bucket at an address would hold if it were asked now.
LevelAt(i) == Level(heap[i], MaxRequests, Window, MaxRequests)

\* The callers whose bucket was deleted between the lookup and the question.
Caught == {r \in Requesters : asking[r] \notin {NoId, entry}}

ShareTypeOK ==
    /\ heap \in [Ids -> Buckets(ShareFull, IdleLimit + 1)]
    /\ entry \in Ids \cup {NoId}
    /\ asking \in [Requesters -> Ids \cup {NoId}]
    /\ admitted \in [InWindow -> Nat]
    /\ strays \in [InWindow -> Nat]

\* What the bucket in the map gave since an age and what it still holds came
\* from a full bucket and the refill since.
EntryPaid ==
    entry # NoId =>
        \A a \in InWindow :
            Window * (admitted[a] - strays[a]) + LevelAt(entry) <= MaxRequests * (Window + a)

\* As long as the bucket in the map was not asked, it admitted nobody, and the
\* callers caught by the last deletion were not caught twice.
EntryIdle ==
    entry # NoId =>
        \A a \in InWindow :
            a < heap[entry].age =>
                /\ admitted[a] = strays[a]
                /\ strays[a] + Cardinality(Caught) <= Cardinality(Requesters)

\* A bucket is deleted only after it admitted nobody for a window.
NoEntryIdle == entry = NoId => \A a \in InWindow : admitted[a] = strays[a]

CaughtBounded ==
    \A a \in InWindow : strays[a] + Cardinality(Caught) <= 2 * Cardinality(Requesters)

\* A bucket somebody can ask lacks no more of its first tokens, or of its
\* refill since an age, than was admitted since then.
HeldEarned ==
    \A i \in Ids : Held(i) =>
        \A a \in InWindow :
            \/ Window * FirstTokens <= LevelAt(i) + Window * admitted[a]
            \/ MaxRequests * (a + 1) <= LevelAt(i) + Window * admitted[a]

ShareInv ==
    /\ ShareTypeOK /\ EntryPaid /\ EntryIdle /\ NoEntryIdle /\ CaughtBounded /\ HeldEarned
    /\ refusal = "request" => admitted[Window - 1] >= FirstTokens

\* The constants of the share: a bucket starts with no more than it can hold,
\* and two windows are more than enough to fill it.
LEMMA ShareConstants ==
    /\ MaxRequests \in Nat \ {0} /\ Window \in Nat \ {0}
    /\ FirstTokens \in Nat \ {0} /\ FirstTokens <= MaxRequests
    /\ ShareFull \in Nat /\ IdleLimit \in Nat /\ IdleLimit = 2 * Window
    /\ Window * FirstTokens \in Nat /\ Window * FirstTokens <= ShareFull
    /\ MaxRequests <= ShareFull
    /\ ShareFull <= MaxRequests * (IdleLimit + 1)
<1>1. MaxRequests \in Nat \ {0} /\ Window \in Nat \ {0} /\ Burst \in Nat \ {0}
  BY ShareAssumption
<1>2. FirstTokens \in Nat \ {0} /\ FirstTokens <= MaxRequests
  BY <1>1, MinIs DEF FirstTokens
<1>3. ShareFull \in Nat /\ IdleLimit \in Nat /\ IdleLimit = 2 * Window
  BY <1>1 DEF ShareFull, IdleLimit
<1>4. Window * FirstTokens \in Nat /\ Window * FirstTokens <= Window * MaxRequests
  BY <1>1, <1>2, TimesGrows
<1>5. Window * MaxRequests = ShareFull
  BY <1>1 DEF ShareFull
<1>6. MaxRequests * 1 <= MaxRequests * Window
  BY <1>1, TimesGrows
<1>7. MaxRequests * Window <= MaxRequests * (IdleLimit + 1)
  <2>1. Window <= IdleLimit + 1 /\ IdleLimit + 1 \in Nat
    BY <1>1, <1>3
  <2> QED
    BY <1>1, <2>1, TimesGrows
<1> QED
  BY <1>1, <1>2, <1>3, <1>4, <1>5, <1>6, <1>7 DEF ShareFull

\* A bucket of the heap holds between nothing and the maximum.
LEMMA HeapTyped ==
    ASSUME ShareTypeOK, NEW i \in Ids
    PROVE  /\ heap[i] \in Buckets(ShareFull, IdleLimit + 1)
           /\ heap[i] \in [tokens : Nat, age : Nat]
           /\ LevelAt(i) \in 0 .. ShareFull
<1> USE ShareConstants
<1>1. heap[i] \in Buckets(ShareFull, IdleLimit + 1)
  BY DEF ShareTypeOK
<1>2. heap[i] \in [tokens : Nat, age : Nat]
  BY <1>1 DEF Buckets
<1>3. LevelAt(i) \in 0 .. ShareFull
  BY <1>2, LevelIs DEF LevelAt, ShareFull
<1> QED
  BY <1>1, <1>2, <1>3

\* A new bucket holds its first tokens.
LEMMA NewBucketIs ==
    /\ NewBucket \in Buckets(ShareFull, IdleLimit + 1)
    /\ NewBucket.age = 0
    /\ Level(NewBucket, MaxRequests, Window, MaxRequests) = Window * FirstTokens
<1> USE ShareConstants
<1>1. NewBucket = [tokens |-> Window * FirstTokens, age |-> 0]
  BY DEF NewBucket, FirstTokens
<1>2. NewBucket \in Buckets(ShareFull, IdleLimit + 1) /\ NewBucket \in [tokens : Nat, age : Nat]
  BY <1>1 DEF Buckets
<1>3. NewBucket.tokens = Window * FirstTokens /\ NewBucket.age = 0
  BY <1>1
<1>4. Level(NewBucket, MaxRequests, Window, MaxRequests) =
         IF ShareFull <= NewBucket.tokens + MaxRequests * NewBucket.age
           THEN ShareFull ELSE NewBucket.tokens + MaxRequests * NewBucket.age
  BY <1>2, LevelIs DEF ShareFull
<1>5. MaxRequests * NewBucket.age = 0
  BY <1>3
<1> QED
  BY <1>2, <1>3, <1>4, <1>5

\* Sets of requesters are finite.
LEMMA CaughtFinite ==
    /\ IsFiniteSet(Caught) /\ Cardinality(Caught) \in Nat
    /\ Cardinality(Requesters) \in Nat /\ Cardinality(Caught) <= Cardinality(Requesters)
<1>1. IsFiniteSet(Requesters) /\ Caught \in SUBSET Requesters
  BY ShareAssumption DEF Caught
<1> QED
  BY <1>1, FS_Subset, FS_CardinalityType

\* A set of numbers has a least element.
LEMMA NaturalsHaveLeast ==
    ASSUME NEW S \in SUBSET Nat, S # {}
    PROVE  \E x \in S : \A y \in S : x <= y
<1>1. \E x \in S : \A y \in S : <<y, x>> \notin OpToRel(<, Nat)
  BY NatLessThanWellFounded, WFMin
<1>2. PICK x \in S : \A y \in S : <<y, x>> \notin OpToRel(<, Nat)
  BY <1>1
<1>3. ASSUME NEW y \in S PROVE x <= y
  <2>1. SUFFICES ASSUME y < x PROVE FALSE
    OBVIOUS
  <2>2. <<y, x>> \in OpToRel(<, Nat)
    BY <2>1 DEF OpToRel
  <2> QED
    BY <1>2, <2>2
<1> QED
  BY <1>3

\* While the user has no bucket in the map there is an address for a new one.
LEMMA AddressFree ==
    ASSUME ShareTypeOK, entry = NoId
    PROVE  Min(Free) \in Free /\ Min(Free) \in Ids
<1>1. IsFiniteSet(Requesters) /\ Cardinality(Requesters) \in Nat
  BY ShareAssumption, FS_CardinalityType
<1>2. Ids \in SUBSET Nat /\ NoId \notin Ids /\ Free \in SUBSET Ids
  BY <1>1 DEF Ids, NoId, Free
<1>3. Cardinality(Ids) = Cardinality(Requesters) + 1
  <2>1. 1 \in Int /\ Cardinality(Requesters) + 1 \in Int
    BY <1>1
  <2>2. Cardinality(Ids) = IF 1 > Cardinality(Requesters) + 1 THEN 0
                             ELSE (Cardinality(Requesters) + 1) - 1 + 1
    BY <2>1, FS_Interval DEF Ids
  <2> QED
    BY <1>1, <2>2
<1>4. Free # {}
  <2> SUFFICES ASSUME Free = {} PROVE FALSE
    OBVIOUS
  <2> DEFINE who == [i \in Ids |-> CHOOSE r \in Requesters : asking[r] = i]
  <2>1. ASSUME NEW i \in Ids PROVE who[i] \in Requesters /\ asking[who[i]] = i
    <3>1. \E r \in Requesters : asking[r] = i
      BY <1>2, <2>1 DEF Free
    <3>2. who[i] = CHOOSE r \in Requesters : asking[r] = i
      OBVIOUS
    <3> HIDE DEF who
    <3> QED
      BY <3>1, <3>2, Zenon
  <2>2. who \in [Ids -> Requesters]
    BY <2>1
  <2>3. \A i, j \in Ids : who[i] = who[j] => i = j
    <3> HIDE DEF who
    <3> QED
      BY <2>1
  <2> HIDE DEF who
  <2>4. who \in Injection(Ids, Requesters)
    BY <2>2, <2>3 DEF Injection, IsInjective
  <2>5. Cardinality(Ids) <= Cardinality(Requesters)
    BY <1>1, <2>4, FS_Injection
  <2> QED
    BY <1>1, <1>3, <2>5
<1>5. \E x \in Free : \A y \in Free : x <= y
  <2>1. Free \in SUBSET Nat
    BY <1>2
  <2> QED
    BY <1>4, <2>1, NaturalsHaveLeast
<1>6. Min(Free) \in Free
  BY <1>5, Zenon DEF Min
<1> QED
  BY <1>2, <1>6

\* The bucket is there: the caller only remembers it.
LEMMA LookUpKeepsShare ==
    ASSUME ShareInv, NEW r \in Requesters, LookUp(r), entry # NoId
    PROVE  ShareInv'
<1> USE ShareConstants
<1>1. /\ asking[r] = NoId /\ asking' = [asking EXCEPT ![r] = entry]
      /\ UNCHANGED <<heap, entry, admitted, strays>> /\ refusal' = "none"
  BY DEF LookUp
<1>2. ShareTypeOK /\ asking \in [Requesters -> Ids \cup {NoId}] /\ entry \in Ids \cup {NoId}
  BY DEF ShareInv, ShareTypeOK
<1>3. ShareTypeOK'
  BY <1>1, <1>2 DEF ShareTypeOK
<1>4. Caught' = Caught
  BY <1>1, <1>2 DEF Caught
<1>5. ASSUME NEW i \in Ids PROVE LevelAt(i)' = LevelAt(i) /\ (Held(i)' => Held(i))
  BY <1>1, <1>2 DEF LevelAt, Held, Free
<1>6. EntryPaid'
  BY <1>1, <1>2, <1>5 DEF ShareInv, EntryPaid, LevelAt
<1>7. EntryIdle' /\ NoEntryIdle' /\ CaughtBounded'
  BY <1>1, <1>4 DEF ShareInv, EntryIdle, NoEntryIdle, CaughtBounded
<1>8. HeldEarned'
  BY <1>1, <1>5 DEF ShareInv, HeldEarned
<1> QED
  BY <1>1, <1>3, <1>6, <1>7, <1>8 DEF ShareInv

\* The bucket is made: it replaces one that admitted nobody for a window.
LEMMA NewEntryKeepsShare ==
    ASSUME ShareInv, NEW r \in Requesters, LookUp(r), entry = NoId
    PROVE  ShareInv'
<1> USE ShareConstants
<1>0. ShareTypeOK
  BY DEF ShareInv
<1>3. PICK i \in Free : i = Min(Free) /\ i \in Ids
  BY <1>0, AddressFree
<1>1. /\ asking[r] = NoId /\ asking' = [asking EXCEPT ![r] = i]
      /\ heap' = [heap EXCEPT ![i] = NewBucket] /\ entry' = i
      /\ UNCHANGED <<admitted, strays>> /\ refusal' = "none"
  BY <1>3 DEF LookUp
<1>2. /\ ShareTypeOK /\ asking \in [Requesters -> Ids \cup {NoId}]
      /\ heap \in [Ids -> Buckets(ShareFull, IdleLimit + 1)]
      /\ admitted \in [InWindow -> Nat] /\ strays \in [InWindow -> Nat]
  BY DEF ShareInv, ShareTypeOK
<1>4. NoId \notin Ids
  BY DEF NoId, Ids
<1>5. ShareTypeOK'
  BY <1>1, <1>2, <1>3, NewBucketIs DEF ShareTypeOK
<1>6. \A q \in Requesters : asking[q] # i
  BY <1>3 DEF Free
<1>7. Caught' = Caught
  BY <1>1, <1>2, <1>3, <1>4, <1>6 DEF Caught
<1>8. heap'[i] = NewBucket /\ \A j \in Ids : j # i => heap'[j] = heap[j]
  BY <1>1, <1>2, <1>3
<1>9. LevelAt(i)' = Window * FirstTokens
  <2>1. LevelAt(i)' = Level(heap'[i], MaxRequests, Window, MaxRequests)
    BY <1>1 DEF LevelAt
  <2> QED
    BY <1>8, <2>1, NewBucketIs
<1>10. ASSUME NEW j \in Ids, j # i PROVE LevelAt(j)' = LevelAt(j) /\ (Held(j)' => Held(j))
  BY <1>1, <1>2, <1>8, <1>10 DEF LevelAt, Held, Free
<1>11. \A a \in InWindow : admitted[a] = strays[a] /\ admitted[a] \in Nat
  BY <1>2 DEF ShareInv, NoEntryIdle
<1>12. EntryPaid'
  <2>1. LevelAt(entry)' = Window * FirstTokens
    BY <1>1, <1>8, NewBucketIs DEF LevelAt
  <2>2. ASSUME NEW a \in InWindow
        PROVE  Window * (admitted'[a] - strays'[a]) + LevelAt(entry)' <= MaxRequests * (Window + a)
    <3>1. Window * (admitted'[a] - strays'[a]) = 0
      BY <1>1, <1>11
    <3>2. ShareFull <= MaxRequests * (Window + a) /\ MaxRequests * (Window + a) \in Nat
      <4>1. a \in Nat /\ Window + a \in Nat /\ Window <= Window + a
        BY DEF InWindow
      <4> QED
        BY <4>1, TimesGrows DEF ShareFull
    <3> QED
      BY <2>1, <3>1, <3>2
  <2> QED
    BY <2>2 DEF EntryPaid
<1>13. EntryIdle'
  <2>1. heap'[entry'].age = 0
    BY <1>1, <1>8, NewBucketIs
  <2>2. \A a \in InWindow : ~ (a < 0)
    BY DEF InWindow
  <2> QED
    BY <2>1, <2>2 DEF EntryIdle
<1>14. NoEntryIdle' /\ CaughtBounded'
  BY <1>1, <1>7, <1>11 DEF ShareInv, NoEntryIdle, CaughtBounded
<1>15. HeldEarned'
  <2>1. SUFFICES ASSUME NEW j \in Ids, Held(j)', NEW a \in InWindow
                 PROVE  \/ Window * FirstTokens <= LevelAt(j)' + Window * admitted'[a]
                        \/ MaxRequests * (a + 1) <= LevelAt(j)' + Window * admitted'[a]
    BY Zenon DEF HeldEarned
  <2>2. CASE j = i
    <3>1. LevelAt(j)' = Window * FirstTokens
      BY <1>9, <2>2
    <3>2. Window * admitted'[a] \in Nat
      BY <1>1, <1>11
    <3> QED
      BY <3>1, <3>2
  <2>3. CASE j # i
    BY <1>1, <1>10, <2>1, <2>3 DEF ShareInv, HeldEarned
  <2> QED
    BY <2>2, <2>3
<1> QED
  BY <1>1, <1>5, <1>12, <1>13, <1>14, <1>15 DEF ShareInv

\* A bucket goes from the map after two idle windows: in the current one it
\* admitted nobody, and whoever it catches was caught before at most once.
LEMMA GCKeepsShare ==
    ASSUME ShareInv, GC
    PROVE  ShareInv'
<1> USE ShareConstants
<1>1. /\ entry # NoId /\ heap[entry].age > IdleLimit /\ entry' = NoId
      /\ heap' = heap \/ heap' = [heap EXCEPT ![entry] = NewBucket]
      /\ heap' = Reclaimed(heap, entry, \A r \in Requesters : asking[r] # entry)
      /\ UNCHANGED <<asking, admitted, strays>> /\ refusal' = "none"
  BY DEF GC, Reclaimed
<1>2. /\ ShareTypeOK /\ asking \in [Requesters -> Ids \cup {NoId}]
      /\ entry \in Ids \cup {NoId}
      /\ heap \in [Ids -> Buckets(ShareFull, IdleLimit + 1)]
      /\ admitted \in [InWindow -> Nat] /\ strays \in [InWindow -> Nat]
  BY DEF ShareInv, ShareTypeOK
<1>3. entry \in Ids
  BY <1>1, <1>2
<1>4. ShareTypeOK'
  <2>1. heap' \in [Ids -> Buckets(ShareFull, IdleLimit + 1)]
    <3>1. CASE heap' = heap
      BY <1>2, <3>1
    <3>2. CASE heap' = [heap EXCEPT ![entry] = NewBucket]
      BY <1>2, <3>2, NewBucketIs
    <3> QED
      BY <1>1, <3>1, <3>2
  <2> QED
    BY <1>1, <1>2, <2>1 DEF ShareTypeOK
<1>5. heap[entry].age \in Nat
  BY <1>2, <1>3, HeapTyped
<1>6. ASSUME NEW a \in InWindow
      PROVE  /\ admitted[a] = strays[a] /\ strays[a] \in Nat
             /\ strays[a] + Cardinality(Caught) <= Cardinality(Requesters)
  <2>1. a < heap[entry].age
    BY <1>1, <1>5 DEF InWindow
  <2> QED
    BY <1>1, <1>2, <2>1 DEF ShareInv, EntryIdle
<1>7. EntryPaid' /\ EntryIdle'
  BY <1>1 DEF EntryPaid, EntryIdle
<1>8. NoEntryIdle'
  BY <1>1, <1>6 DEF NoEntryIdle
<1>9. CaughtBounded'
  <2>1. Cardinality(Caught') <= Cardinality(Requesters) /\ Cardinality(Caught') \in Nat
    <3>1. Caught' \in SUBSET Requesters
      BY DEF Caught
    <3> QED
      BY <3>1, ShareAssumption, FS_Subset, FS_CardinalityType
  <2>2. ASSUME NEW a \in InWindow
        PROVE  strays'[a] + Cardinality(Caught') <= 2 * Cardinality(Requesters)
    BY <1>1, <1>6, <2>1, CaughtFinite
  <2> QED
    BY <2>2 DEF CaughtBounded
<1>10. HeldEarned'
  <2>1. ASSUME NEW j \in Ids, Held(j)' PROVE Held(j) /\ heap'[j] = heap[j]
    <3>1. PICK r \in Requesters : asking[r] = j
      BY <1>1, <1>2, <2>1 DEF Held, Free, NoId, Ids
    <3>2. Held(j)
      BY <3>1 DEF Held, Free
    <3>3. heap'[j] = heap[j]
      BY <1>1, <1>2, <1>3, <3>1 DEF Reclaimed
    <3> QED
      BY <3>2, <3>3
  <2>2. ASSUME NEW j \in Ids, Held(j)' PROVE LevelAt(j)' = LevelAt(j) /\ Held(j)
    BY <2>1, <2>2 DEF LevelAt
  <2> QED
    BY <1>1, <2>2 DEF ShareInv, HeldEarned
<1> QED
  BY <1>1, <1>4, <1>7, <1>8, <1>9, <1>10 DEF ShareInv

\* What the second half of Acquire does to the bucket i it asks.
LEMMA AllowEffects ==
    ASSUME ShareInv, NEW r \in Requesters, Allow(r), NEW i, i = asking[r]
    PROVE  LET ok == LevelAt(i) >= Window IN
           /\ i \in Ids /\ Held(i)
           /\ \A j \in Ids : j # i => heap'[j] = heap[j]
           /\ heap'[i] \in Buckets(ShareFull, IdleLimit + 1)
           /\ Held(i)' =>
                /\ heap'[i].age = 0
                /\ LevelAt(i)' = IF ok THEN LevelAt(i) - Window ELSE LevelAt(i)
           /\ admitted' = IF ok THEN Plus(admitted) ELSE admitted
           /\ strays' = IF ok /\ i # entry THEN Plus(strays) ELSE strays
           /\ refusal' = IF ok THEN "none" ELSE "request"
<1> USE ShareConstants
<1> DEFINE b == heap[i]
           after == Asked(b, MaxRequests, Window, MaxRequests)
           last == i # entry /\ \A q \in Requesters \ {r} : asking[q] # i
           ok == LevelAt(i) >= Window
<1>1. /\ ShareTypeOK /\ asking \in [Requesters -> Ids \cup {NoId}]
      /\ heap \in [Ids -> Buckets(ShareFull, IdleLimit + 1)]
  BY DEF ShareInv, ShareTypeOK
<1>2. i \in Ids /\ i # NoId
  BY <1>1 DEF Allow
<1>3. Held(i)
  BY DEF Held, Free
<1>4. b \in [tokens : Nat, age : Nat] /\ LevelAt(i) \in 0 .. ShareFull
  BY <1>1, <1>2, HeapTyped
<1>5. /\ Ask(b, MaxRequests, Window, MaxRequests) <=> ok
      /\ after = [tokens |-> IF ok THEN LevelAt(i) - Window ELSE LevelAt(i), age |-> 0]
      /\ Level(after, MaxRequests, Window, MaxRequests)
            = IF ok THEN LevelAt(i) - Window ELSE LevelAt(i)
  BY <1>4, AskedIs DEF LevelAt
<1>6. after \in Buckets(ShareFull, IdleLimit + 1) /\ after.age = 0
  BY <1>4, <1>5 DEF Buckets
<1> HIDE DEF after
<1>7. /\ heap' = Reclaimed([heap EXCEPT ![i] = after], i, last)
      /\ asking' = [asking EXCEPT ![r] = NoId] /\ entry' = entry
      /\ admitted' = IF ok THEN Plus(admitted) ELSE admitted
      /\ strays' = IF ok /\ i # entry THEN Plus(strays) ELSE strays
      /\ refusal' = IF ok THEN "none" ELSE "request"
  BY <1>5 DEF Allow, after
<1>8. heap'[i] = (IF last THEN NewBucket ELSE after) /\ \A j \in Ids : j # i => heap'[j] = heap[j]
  BY <1>1, <1>2, <1>7 DEF Reclaimed
<1>9. heap'[i] \in Buckets(ShareFull, IdleLimit + 1)
  BY <1>6, <1>8, NewBucketIs
<1>10. last => ~ Held(i)'
  BY <1>1, <1>2, <1>7 DEF Held, Free
<1>11. ASSUME Held(i)'
       PROVE  /\ heap'[i].age = 0
              /\ LevelAt(i)' = IF ok THEN LevelAt(i) - Window ELSE LevelAt(i)
  <2>1. heap'[i] = after
    BY <1>8, <1>10, <1>11
  <2>2. LevelAt(i)' = Level(heap'[i], MaxRequests, Window, MaxRequests)
    BY DEF LevelAt
  <2> QED
    BY <1>5, <1>6, <2>1, <2>2
<1> QED
  BY <1>2, <1>3, <1>7, <1>8, <1>9, <1>11

\* A request admitted is paid by the bucket it asked; a caller with a deleted
\* bucket is no longer caught afterwards; a refusal finds the bucket without a
\* whole token, so its first ones were given within the window.
LEMMA AllowKeepsShare ==
    ASSUME ShareInv, NEW r \in Requesters, Allow(r)
    PROVE  ShareInv'
<1> USE ShareConstants
<1>0. PICK i : i = asking[r]
  OBVIOUS
<1> DEFINE ok == LevelAt(i) >= Window
           one == IF ok THEN 1 ELSE 0
           stray == IF ok /\ i # entry THEN 1 ELSE 0
<1>1. /\ ShareTypeOK /\ asking \in [Requesters -> Ids \cup {NoId}]
      /\ entry \in Ids \cup {NoId}
      /\ heap \in [Ids -> Buckets(ShareFull, IdleLimit + 1)]
      /\ admitted \in [InWindow -> Nat] /\ strays \in [InWindow -> Nat]
  BY DEF ShareInv, ShareTypeOK
<1>2. /\ i \in Ids /\ Held(i)
      /\ \A j \in Ids : j # i => heap'[j] = heap[j]
      /\ heap'[i] \in Buckets(ShareFull, IdleLimit + 1)
  BY <1>0, AllowEffects
<1>3. Held(i)' => /\ heap'[i].age = 0
                  /\ LevelAt(i)' = IF ok THEN LevelAt(i) - Window ELSE LevelAt(i)
  BY <1>0, AllowEffects
<1>4. /\ admitted' = IF ok THEN Plus(admitted) ELSE admitted
      /\ strays' = IF ok /\ i # entry THEN Plus(strays) ELSE strays
      /\ refusal' = IF ok THEN "none" ELSE "request"
  BY <1>0, AllowEffects
<1>5. /\ asking' = [asking EXCEPT ![r] = NoId] /\ entry' = entry
      /\ DOMAIN heap' = Ids /\ heap' = [j \in Ids |-> heap'[j]]
  BY <1>1 DEF Allow, Reclaimed
<1>6. /\ admitted' = [a \in InWindow |-> admitted[a] + one]
      /\ strays' = [a \in InWindow |-> strays[a] + stray]
  BY <1>1, <1>4 DEF Plus
<1>7. LevelAt(i) \in 0 .. ShareFull
  BY <1>1, <1>2, HeapTyped
<1>8. one \in {0, 1} /\ stray \in {0, 1} /\ (i # entry => stray = one) /\ (i = entry => stray = 0)
  OBVIOUS
<1>20. /\ ok <=> one = 1
       /\ Held(i)' => LevelAt(i)' = LevelAt(i) - Window * one
  BY <1>3, <1>7
<1> HIDE DEF ok, one, stray
<1>9. ASSUME NEW a \in InWindow
      PROVE  /\ admitted[a] \in Nat /\ strays[a] \in Nat
             /\ admitted'[a] = admitted[a] + one /\ strays'[a] = strays[a] + stray
             /\ admitted'[a] \in Nat /\ strays'[a] \in Nat
  BY <1>1, <1>6, <1>8
<1>10. ShareTypeOK'
  <2>1. heap' \in [Ids -> Buckets(ShareFull, IdleLimit + 1)]
    <3>1. \A j \in Ids : heap'[j] \in Buckets(ShareFull, IdleLimit + 1)
      BY <1>1, <1>2
    <3> QED
      BY <1>5, <3>1, Zenon
  <2>2. admitted' \in [InWindow -> Nat] /\ strays' \in [InWindow -> Nat]
    BY <1>6, <1>9
  <2>3. asking' \in [Requesters -> Ids \cup {NoId}] /\ entry' \in Ids \cup {NoId}
    BY <1>1, <1>5
  <2> QED
    BY <2>1, <2>2, <2>3 DEF ShareTypeOK
<1>11. ASSUME NEW j \in Ids, j # i PROVE LevelAt(j)' = LevelAt(j)
  BY <1>2, <1>11 DEF LevelAt
<1>12. ASSUME NEW j \in Ids, Held(j)' PROVE Held(j)
  BY <1>1, <1>5, <1>12 DEF Held, Free, NoId, Ids
<1>13. Caught' = Caught \ {r}
  BY <1>1, <1>5 DEF Caught
<1>14. /\ Cardinality(Caught') \in Nat
       /\ Cardinality(Caught') + stray <= Cardinality(Caught)
       /\ Cardinality(Caught) \in Nat
  <2>1. IsFiniteSet(Caught) /\ Cardinality(Caught) \in Nat
    BY CaughtFinite
  <2>2. Cardinality(Caught \ {r}) = IF r \in Caught THEN Cardinality(Caught) - 1
                                   ELSE Cardinality(Caught)
    BY <2>1, FS_RemoveElement
  <2>3. IsFiniteSet(Caught \ {r}) /\ Cardinality(Caught \ {r}) \in Nat
    BY <2>1, FS_RemoveElement, FS_CardinalityType
  <2>4. i # entry => r \in Caught
    BY <1>0, <1>2 DEF Caught, NoId, Ids
  <2> QED
    BY <1>8, <1>13, <2>1, <2>2, <2>3, <2>4
<1>15. EntryPaid'
  <2>1. SUFFICES ASSUME entry # NoId, NEW a \in InWindow
                 PROVE  Window * (admitted'[a] - strays'[a]) + LevelAt(entry)'
                           <= MaxRequests * (Window + a)
    BY <1>5 DEF EntryPaid
  <2>2. entry \in Ids
    BY <1>1, <2>1
  <2>3. Window * (admitted[a] - strays[a]) + LevelAt(entry) <= MaxRequests * (Window + a)
    BY <2>1 DEF ShareInv, EntryPaid
  <2>4. CASE i # entry
    <3>1. admitted'[a] - strays'[a] = admitted[a] - strays[a]
      BY <1>8, <1>9, <2>4
    <3>2. LevelAt(entry)' = LevelAt(entry)
      BY <1>2, <1>5, <2>2, <2>4 DEF LevelAt
    <3> QED
      BY <2>3, <3>1, <3>2
  <2>5. CASE i = entry
    <3>1. Held(i)'
      BY <1>5, <2>5 DEF Held, Free
    <3>2. LevelAt(entry)' = LevelAt(i) - Window * one
      BY <1>5, <1>20, <2>5, <3>1 DEF LevelAt
    <3>3. PICK n \in Int : n = admitted[a] - strays[a]
      BY <1>9
    <3>4. admitted'[a] - strays'[a] = n + one
      BY <1>8, <1>9, <2>5, <3>3
    <3>5. /\ Window * (n + one) = Window * n + Window * one
          /\ Window * n \in Int /\ Window * one \in Int
      BY <1>8
    <3>6. PICK bound \in Int : bound = MaxRequests * (Window + a)
      BY DEF InWindow
    <3>7. Window * n + LevelAt(i) <= bound
      BY <2>3, <2>5, <3>3, <3>6
    <3>8. Window * (n + one) + (LevelAt(i) - Window * one) <= bound
      BY <1>7, <3>5, <3>7
    <3> QED
      BY <3>2, <3>4, <3>6, <3>8
  <2> QED
    BY <2>4, <2>5
<1>16. EntryIdle'
  <2>1. SUFFICES ASSUME entry # NoId, NEW a \in InWindow, a < heap'[entry].age
                 PROVE  /\ admitted'[a] = strays'[a]
                        /\ strays'[a] + Cardinality(Caught') <= Cardinality(Requesters)
    BY <1>5 DEF EntryIdle
  <2>2. entry \in Ids
    BY <1>1, <2>1
  <2>3. i # entry
    <3>1. SUFFICES ASSUME i = entry PROVE FALSE
      OBVIOUS
    <3>2. Held(i)'
      BY <1>5, <3>1 DEF Held, Free
    <3> QED
      BY <1>3, <2>1, <3>1, <3>2 DEF InWindow
  <2>4. heap'[entry] = heap[entry]
    BY <1>2, <2>2, <2>3
  <2>5. /\ admitted[a] = strays[a]
        /\ strays[a] + Cardinality(Caught) <= Cardinality(Requesters)
    BY <2>1, <2>4 DEF ShareInv, EntryIdle
  <2> QED
    BY <1>8, <1>9, <1>14, <2>3, <2>5, CaughtFinite
<1>17. NoEntryIdle'
  <2>1. SUFFICES ASSUME entry = NoId, NEW a \in InWindow PROVE admitted'[a] = strays'[a]
    BY <1>5 DEF NoEntryIdle
  <2>2. i # entry
    BY <1>2, <2>1 DEF NoId, Ids
  <2> QED
    BY <1>8, <1>9, <2>1, <2>2 DEF ShareInv, NoEntryIdle
<1>18. CaughtBounded'
  <2>1. ASSUME NEW a \in InWindow
        PROVE  strays'[a] + Cardinality(Caught') <= 2 * Cardinality(Requesters)
    <3>1. strays[a] + Cardinality(Caught) <= 2 * Cardinality(Requesters)
      BY DEF ShareInv, CaughtBounded
    <3> QED
      BY <1>8, <1>9, <1>14, <3>1, CaughtFinite
  <2> QED
    BY <2>1 DEF CaughtBounded
<1>19. ASSUME NEW j \in Ids, Held(j), NEW a \in InWindow
       PROVE  \/ Window * FirstTokens <= LevelAt(j) + Window * admitted[a]
              \/ MaxRequests * (a + 1) <= LevelAt(j) + Window * admitted[a]
  BY <1>19 DEF ShareInv, HeldEarned
<1>21. HeldEarned'
  <2>1. SUFFICES ASSUME NEW j \in Ids, Held(j)', NEW a \in InWindow
                 PROVE  \/ Window * FirstTokens <= LevelAt(j)' + Window * admitted'[a]
                        \/ MaxRequests * (a + 1) <= LevelAt(j)' + Window * admitted'[a]
    BY Zenon DEF HeldEarned
  <2>2. Held(j)
    BY <1>12, <2>1
  <2>3. LevelAt(j) \in Nat
    BY <1>1, HeapTyped
  <2>4. /\ Window * (admitted[a] + one) = Window * admitted[a] + Window * one
        /\ Window * admitted[a] \in Nat /\ Window * one \in Nat
    BY <1>8, <1>9
  <2>5. admitted'[a] = admitted[a] + one
    BY <1>9
  <2>6. LevelAt(j)' = LevelAt(j) \/ LevelAt(j)' = LevelAt(j) - Window * one
    BY <1>11, <1>20, <2>1
  <2>7. LevelAt(j)' + Window * admitted'[a] >= LevelAt(j) + Window * admitted[a]
    BY <2>3, <2>4, <2>5, <2>6
  <2>8. MaxRequests * (a + 1) \in Nat
    BY DEF InWindow
  <2>9. LevelAt(j)' + Window * admitted'[a] \in Int
    BY <2>3, <2>4, <2>5, <2>6
  <2> HIDE DEF LevelAt
  <2> QED
    BY <1>19, <2>2, <2>3, <2>4, <2>7, <2>8, <2>9
<1>22. refusal' = "request" => admitted'[Window - 1] >= FirstTokens
  <2>1. SUFFICES ASSUME ~ ok PROVE admitted'[Window - 1] >= FirstTokens
    BY <1>4
  <2>2. PICK a \in InWindow : a = Window - 1
    BY DEF InWindow
  <2>3. admitted'[a] = admitted[a] /\ admitted[a] \in Nat
    BY <1>8, <1>9, <1>20, <2>1
  <2>4. MaxRequests * (a + 1) = ShareFull
    BY <2>2 DEF ShareFull
  <2>5. Window * FirstTokens <= LevelAt(i) + Window * admitted[a]
    <3>1. Window * admitted[a] \in Nat
      BY <2>3
    <3> QED
      BY <1>2, <1>7, <1>19, <2>4, <3>1
  <2>6. LevelAt(i) < Window
    BY <1>7, <2>1 DEF ok
  <2>7. SUFFICES ASSUME admitted[a] + 1 <= FirstTokens PROVE FALSE
    BY <2>2, <2>3
  <2>8. Window * (admitted[a] + 1) <= Window * FirstTokens
    BY <2>3, <2>7, TimesGrows
  <2>9. Window * (admitted[a] + 1) = Window * admitted[a] + Window /\ Window * admitted[a] \in Nat
    BY <2>3
  <2> QED
    BY <1>7, <2>5, <2>6, <2>8, <2>9
<1> QED
  BY <1>10, <1>15, <1>16, <1>17, <1>18, <1>21, <1>22 DEF ShareInv

\* What one tick does to a bucket somebody can ask.
LEMMA TickEffects ==
    ASSUME ShareInv, Tick, NEW i \in Ids, Held(i)
    PROVE  /\ heap'[i].age \in Nat /\ heap'[i].age <= heap[i].age + 1
           /\ LevelAt(i) \in 0 .. ShareFull /\ LevelAt(i)' \in 0 .. ShareFull
           /\ LevelAt(i)' <= LevelAt(i) + MaxRequests
           /\ LevelAt(i) + MaxRequests <= LevelAt(i)' \/ LevelAt(i)' = ShareFull
<1> USE ShareConstants
<1>1. heap[i] \in Buckets(ShareFull, IdleLimit + 1) /\ LevelAt(i) \in 0 .. ShareFull
  BY HeapTyped DEF ShareInv
<1>2. heap'[i] = Older(heap[i], IdleLimit + 1)
  BY DEF Tick
<1> DEFINE b == heap[i]
           most == IdleLimit + 1
           later == Level(Older(b, most), MaxRequests, Window, MaxRequests)
           now == Level(b, MaxRequests, Window, MaxRequests)
<1>3. /\ most \in Nat /\ MaxRequests * Window <= MaxRequests * most
      /\ b \in Buckets(MaxRequests * Window, most)
  BY <1>1 DEF ShareFull
<1> HIDE DEF b, most
<1>4. /\ Older(b, most) \in Buckets(MaxRequests * Window, most)
      /\ Older(b, most).age <= b.age + 1
      /\ later \in 0 .. MaxRequests * Window
      /\ later <= now + MaxRequests
      /\ now + MaxRequests <= later \/ later = MaxRequests * Window
  BY <1>3, OlderIs
<1>5. Older(b, most).age \in Nat
  BY <1>3, <1>4 DEF Buckets
<1>6. LevelAt(i)' = later /\ LevelAt(i) = now
  BY <1>2 DEF LevelAt, b, most
<1>7. heap'[i].age = Older(b, most).age /\ heap[i].age = b.age
  BY <1>2 DEF b, most
<1> QED
  BY <1>1, <1>4, <1>5, <1>6, <1>7 DEF ShareFull

\* A tick refills every bucket in use and makes every admission one older.
LEMMA TickKeepsShare ==
    ASSUME ShareInv, Tick
    PROVE  ShareInv'
<1> USE ShareConstants
<1>1. /\ ShareTypeOK /\ asking \in [Requesters -> Ids \cup {NoId}]
      /\ entry \in Ids \cup {NoId}
      /\ heap \in [Ids -> Buckets(ShareFull, IdleLimit + 1)]
      /\ admitted \in [InWindow -> Nat] /\ strays \in [InWindow -> Nat]
  BY DEF ShareInv, ShareTypeOK
<1>2. /\ admitted' = [a \in InWindow |-> IF a = 0 THEN 0 ELSE admitted[a - 1]]
      /\ strays' = [a \in InWindow |-> IF a = 0 THEN 0 ELSE strays[a - 1]]
      /\ refusal' = "none" /\ UNCHANGED <<entry, asking>>
  BY <1>1 DEF Tick, Shifted
<1>3. ASSUME NEW a \in InWindow
      PROVE  \/ a = 0 /\ admitted'[a] = 0 /\ strays'[a] = 0
             \/ \E b \in InWindow : /\ a = b + 1
                                    /\ admitted'[a] = admitted[b] /\ strays'[a] = strays[b]
                                    /\ admitted[b] \in Nat /\ strays[b] \in Nat
  <2>1. CASE a = 0
    BY <1>2, <2>1
  <2>2. CASE a # 0
    <3>1. PICK b \in InWindow : b = a - 1
      BY <2>2 DEF InWindow
    <3>2. a = b + 1
      BY <3>1 DEF InWindow
    <3>3. admitted'[a] = admitted[b] /\ strays'[a] = strays[b]
      BY <1>2, <2>2, <3>1
    <3>4. admitted[b] \in Nat /\ strays[b] \in Nat
      BY <1>1
    <3> QED
      BY <3>2, <3>3, <3>4
  <2> QED
    BY <2>1, <2>2
<1>4. ASSUME NEW a \in InWindow PROVE admitted'[a] \in Nat /\ strays'[a] \in Nat
  BY <1>3
<1>5. ShareTypeOK'
  <2>1. heap' \in [Ids -> Buckets(ShareFull, IdleLimit + 1)]
    <3>1. heap' = [i \in Ids |-> IF Held(i) THEN Older(heap[i], IdleLimit + 1) ELSE heap[i]]
      BY DEF Tick
    <3>2. ASSUME NEW i \in Ids
          PROVE  Older(heap[i], IdleLimit + 1) \in Buckets(ShareFull, IdleLimit + 1)
      <4>1. heap[i] \in Buckets(MaxRequests * Window, IdleLimit + 1) /\ IdleLimit + 1 \in Nat
            /\ MaxRequests * Window <= MaxRequests * (IdleLimit + 1)
        BY <1>1 DEF ShareFull
      <4>2. Older(heap[i], IdleLimit + 1) \in Buckets(MaxRequests * Window, IdleLimit + 1)
        BY <4>1, OlderIs
      <4> QED
        BY <4>2 DEF ShareFull
    <3> QED
      BY <1>1, <3>1, <3>2
  <2>2. admitted' \in [InWindow -> Nat] /\ strays' \in [InWindow -> Nat]
    BY <1>2, <1>4
  <2> QED
    BY <1>1, <1>2, <2>1, <2>2 DEF ShareTypeOK
<1>6. Caught' = Caught
  BY <1>2 DEF Caught
<1>7. \A i \in Ids : Held(i)' <=> Held(i)
  BY <1>2 DEF Held, Free
<1>8. entry # NoId => entry \in Ids /\ Held(entry)
  BY <1>1 DEF Held, Free
<1>9. EntryPaid'
  <2>1. SUFFICES ASSUME entry # NoId, NEW a \in InWindow
                 PROVE  Window * (admitted'[a] - strays'[a]) + LevelAt(entry)'
                           <= MaxRequests * (Window + a)
    BY <1>2 DEF EntryPaid
  <2>2. PICK e \in Ids : e = entry
    BY <1>8, <2>1
  <2>3. /\ LevelAt(e) \in 0 .. ShareFull /\ LevelAt(e)' \in 0 .. ShareFull
        /\ LevelAt(e)' <= LevelAt(e) + MaxRequests
    BY <1>8, <2>1, <2>2, TickEffects
  <2>4. LevelAt(entry)' = LevelAt(e)'
    BY <1>2, <2>2 DEF LevelAt
  <2>5. CASE a = 0 /\ admitted'[a] = 0 /\ strays'[a] = 0
    <3>1. Window * (admitted'[a] - strays'[a]) = 0
      BY <2>5
    <3>2. MaxRequests * (Window + a) = ShareFull
      BY <2>5 DEF ShareFull
    <3> QED
      BY <2>3, <2>4, <3>1, <3>2
  <2>6. ASSUME NEW b \in InWindow, a = b + 1,
               admitted'[a] = admitted[b], strays'[a] = strays[b],
               admitted[b] \in Nat, strays[b] \in Nat
        PROVE  Window * (admitted'[a] - strays'[a]) + LevelAt(entry)' <= MaxRequests * (Window + a)
    <3>1. PICK n \in Int : n = admitted[b] - strays[b]
      BY <2>6
    <3>2. Window * n + LevelAt(e) <= MaxRequests * (Window + b)
      BY <2>1, <2>2, <3>1 DEF ShareInv, EntryPaid
    <3>3. b \in Nat /\ MaxRequests * (Window + b) \in Nat /\ Window * n \in Int
      BY DEF InWindow
    <3>4. MaxRequests * (Window + a) = MaxRequests * (Window + b) + MaxRequests
      BY <2>6, <3>3
    <3>5. admitted'[a] - strays'[a] = n
      BY <2>6, <3>1
    <3>6. Window * n + LevelAt(e)' <= MaxRequests * (Window + b) + MaxRequests
      BY <2>3, <3>2, <3>3
    <3> QED
      BY <2>4, <3>4, <3>5, <3>6
  <2> QED
    BY <1>3, <2>5, <2>6
<1>10. EntryIdle'
  <2>1. SUFFICES ASSUME entry # NoId, NEW a \in InWindow, a < heap'[entry].age
                 PROVE  /\ admitted'[a] = strays'[a]
                        /\ strays'[a] + Cardinality(Caught) <= Cardinality(Requesters)
    BY <1>2, <1>6 DEF EntryIdle
  <2>2. heap'[entry].age \in Nat /\ heap'[entry].age <= heap[entry].age + 1
        /\ heap[entry].age \in Nat
    BY <1>1, <1>8, <2>1, TickEffects, HeapTyped
  <2>3. CASE a = 0 /\ admitted'[a] = 0 /\ strays'[a] = 0
    BY <2>3, CaughtFinite
  <2>4. ASSUME NEW b \in InWindow, a = b + 1,
               admitted'[a] = admitted[b], strays'[a] = strays[b],
               admitted[b] \in Nat, strays[b] \in Nat
        PROVE  /\ admitted'[a] = strays'[a]
               /\ strays'[a] + Cardinality(Caught) <= Cardinality(Requesters)
    <3>1. b < heap[entry].age
      BY <2>1, <2>2, <2>4 DEF InWindow
    <3> QED
      BY <2>1, <2>4, <3>1 DEF ShareInv, EntryIdle
  <2> QED
    BY <1>3, <2>3, <2>4
<1>11. NoEntryIdle'
  <2>1. SUFFICES ASSUME entry = NoId, NEW a \in InWindow PROVE admitted'[a] = strays'[a]
    BY <1>2 DEF NoEntryIdle
  <2>2. \A b \in InWindow : admitted[b] = strays[b]
    BY <2>1 DEF ShareInv, NoEntryIdle
  <2> QED
    BY <1>3, <2>2
<1>12. CaughtBounded'
  <2>1. ASSUME NEW a \in InWindow
        PROVE  strays'[a] + Cardinality(Caught) <= 2 * Cardinality(Requesters)
    <3>1. \A b \in InWindow : strays[b] + Cardinality(Caught) <= 2 * Cardinality(Requesters)
      BY DEF ShareInv, CaughtBounded
    <3>2. 0 + Cardinality(Caught) <= 2 * Cardinality(Requesters)
      BY CaughtFinite
    <3> QED
      BY <1>3, <3>1, <3>2
  <2> QED
    BY <1>6, <2>1 DEF CaughtBounded
<1>13. HeldEarned'
  <2>1. SUFFICES ASSUME NEW j \in Ids, Held(j)', NEW a \in InWindow
                 PROVE  \/ Window * FirstTokens <= LevelAt(j)' + Window * admitted'[a]
                        \/ MaxRequests * (a + 1) <= LevelAt(j)' + Window * admitted'[a]
    BY Zenon DEF HeldEarned
  <2>2. Held(j)
    BY <1>7, <2>1
  <2>3. /\ LevelAt(j) \in 0 .. ShareFull /\ LevelAt(j)' \in 0 .. ShareFull
        /\ LevelAt(j) + MaxRequests <= LevelAt(j)' \/ LevelAt(j)' = ShareFull
    BY <2>2, TickEffects
  <2>4. Window * admitted'[a] \in Nat
    BY <1>4
  <2>5. CASE LevelAt(j)' = ShareFull
    BY <2>4, <2>5
  <2>6. CASE LevelAt(j) + MaxRequests <= LevelAt(j)'
    <3>1. CASE a = 0
      <4>1. MaxRequests * (a + 1) = MaxRequests
        BY <3>1
      <4> QED
        BY <2>3, <2>4, <2>6, <4>1
    <3>2. ASSUME NEW b \in InWindow, a = b + 1, admitted'[a] = admitted[b], admitted[b] \in Nat
          PROVE  \/ Window * FirstTokens <= LevelAt(j)' + Window * admitted'[a]
                 \/ MaxRequests * (a + 1) <= LevelAt(j)' + Window * admitted'[a]
      <4>1. \/ Window * FirstTokens <= LevelAt(j) + Window * admitted[b]
            \/ MaxRequests * (b + 1) <= LevelAt(j) + Window * admitted[b]
        BY <2>2 DEF ShareInv, HeldEarned
      <4>2. MaxRequests * (a + 1) = MaxRequests * (b + 1) + MaxRequests
            /\ MaxRequests * (b + 1) \in Nat
        BY <3>2 DEF InWindow
      <4>3. PICK w \in Nat : w = Window * admitted[b]
        BY <3>2
      <4>4. \/ Window * FirstTokens <= LevelAt(j) + w
            \/ MaxRequests * (b + 1) <= LevelAt(j) + w
        BY <4>1, <4>3
      <4>5. \/ Window * FirstTokens <= LevelAt(j)' + w
            \/ MaxRequests * (b + 1) + MaxRequests <= LevelAt(j)' + w
        BY <2>3, <2>6, <4>2, <4>4
      <4> QED
        BY <3>2, <4>2, <4>3, <4>5
    <3> QED
      BY <1>3, <3>1, <3>2
  <2> QED
    BY <2>3, <2>5, <2>6
<1> QED
  BY <1>2, <1>5, <1>9, <1>10, <1>11, <1>12, <1>13 DEF ShareInv

-----------------------------------------------------------------------------
\* The inductive invariant of the two token buckets.
LimitsInv == ShareInv /\ SweepInv

\* Nothing was asked yet.
LEMMA LimitsStart == LimitsInit => LimitsInv
<1> SUFFICES ASSUME ShareInit PROVE LimitsInv
  BY DEF LimitsInit
<1>1. ShareTypeOK
  BY NewBucketIs DEF ShareInit, ShareTypeOK, InWindow
<1>2. EntryPaid /\ EntryIdle /\ NoEntryIdle
  BY DEF ShareInit, EntryPaid, EntryIdle, NoEntryIdle, InWindow
<1>3. CaughtBounded
  <2>1. \A a \in InWindow : strays[a] = 0
    BY DEF ShareInit, InWindow
  <2> QED
    BY <2>1, CaughtFinite DEF CaughtBounded
<1>4. HeldEarned
  <2>1. \A i \in Ids : ~ Held(i)
    BY DEF ShareInit, Held, Free, NoId, Ids
  <2> QED
    BY <2>1 DEF HeldEarned
<1>5. refusal = "none" /\ gate = NoGate /\ sweeps = [a \in 0 .. ProbeInterval - 1 |-> 0]
  BY DEF ShareInit
<1>6. SweepTypeOK
  BY <1>5 DEF SweepTypeOK
<1>7. SweepsPaid
  <2>1. GateLevel = GateFull
    BY <1>5, <1>6, LimiterTyped
  <2>2. ASSUME NEW a \in 0 .. ProbeInterval - 1
        PROVE  /\ ProbeInterval * sweeps[a] + GateLevel <= GateFull + a
               /\ sweeps[a] = 0 => GateLevel >= a + 1
    <3>1. ProbeInterval * sweeps[a] = 0
      BY <1>5, GateConstants
    <3> QED
      BY <2>1, <3>1, GateConstants
  <2> QED
    BY <2>2 DEF SweepsPaid
<1> QED
  BY <1>1, <1>2, <1>3, <1>4, <1>5, <1>6, <1>7 DEF LimitsInv, ShareInv, SweepInv

\* The share does not depend on the limiter of the sweeps.
LEMMA ShareUntouched ==
    ASSUME ShareInv, UNCHANGED <<heap, entry, asking, admitted, strays>>, refusal' # "request"
    PROVE  ShareInv'
<1>1. ShareTypeOK' /\ EntryPaid' /\ EntryIdle' /\ NoEntryIdle' /\ CaughtBounded' /\ HeldEarned'
  BY DEF ShareInv, ShareTypeOK, EntryPaid, EntryIdle, NoEntryIdle, CaughtBounded, HeldEarned,
         Caught, LevelAt, Held, Free
<1> QED
  BY <1>1 DEF ShareInv

\* Nor the limiter of the sweeps on the share.
LEMMA SweepsUntouched ==
    ASSUME SweepInv, UNCHANGED <<gate, sweeps>>, refusal' # "sweep"
    PROVE  SweepInv'
<1>1. SweepTypeOK' /\ SweepsPaid'
  BY DEF SweepInv, SweepTypeOK, SweepsPaid, GateLevel, Limiter
<1> QED
  BY <1>1 DEF SweepInv

\* Every step of the three limits keeps the inductive invariant.
LEMMA LimitsStep == LimitsInv /\ [LimitsNext]_lvars => LimitsInv'
<1> SUFFICES ASSUME LimitsInv, [LimitsNext]_lvars PROVE LimitsInv'
  OBVIOUS
<1>0. ShareInv /\ SweepInv
  BY DEF LimitsInv
<1>1. CASE Tick
  BY <1>0, <1>1, TickKeepsShare, TickKeepsSweepInv DEF LimitsInv
<1>2. CASE GC
  <2>1. UNCHANGED <<gate, sweeps>> /\ refusal' # "sweep"
    BY <1>2 DEF GC
  <2> QED
    BY <1>0, <1>2, <2>1, GCKeepsShare, SweepsUntouched DEF LimitsInv
<1>3. ASSUME NEW r \in Requesters, LookUp(r) PROVE LimitsInv'
  <2>1. UNCHANGED <<gate, sweeps>> /\ refusal' # "sweep"
    BY <1>3 DEF LookUp
  <2> QED
    BY <1>0, <1>3, <2>1, LookUpKeepsShare, NewEntryKeepsShare, SweepsUntouched DEF LimitsInv
<1>4. ASSUME NEW r \in Requesters, Allow(r) PROVE LimitsInv'
  <2>1. UNCHANGED <<gate, sweeps>> /\ refusal' # "sweep"
    BY <1>4 DEF Allow
  <2> QED
    BY <1>0, <1>4, <2>1, AllowKeepsShare, SweepsUntouched DEF LimitsInv
<1>5. CASE ForcedSweep
  <2>1. UNCHANGED <<heap, entry, asking, admitted, strays>> /\ refusal' # "request"
    BY <1>5 DEF ForcedSweep
  <2> QED
    BY <1>0, <1>5, <2>1, ShareUntouched, SweepKeepsSweepInv DEF LimitsInv
<1>6. CASE UNCHANGED svars
  BY <1>0, <1>6
  DEF svars, LimitsInv, ShareInv, ShareTypeOK, EntryPaid, EntryIdle, NoEntryIdle, CaughtBounded,
      HeldEarned, Caught, LevelAt, Held, Free, SweepInv, SweepTypeOK, SweepsPaid, GateLevel, Limiter
<1> QED
  BY <1>1, <1>2, <1>3, <1>4, <1>5, <1>6 DEF LimitsNext, ShareNext, ProbeNext, lvars

\* What Acquire, the garbage collection and forced sweeps keep, in any order:
\* every bucket's tokens account for what it admitted, at every age.
THEOREM LimitsInvariant == LimitsSpec => []LimitsInv
  BY LimitsStart, LimitsStep, PTL DEF LimitsSpec

\* In any window Acquire admits one user fewer than 2 * max_requests_per_user
\* times through the bucket in the map, and at most twice per concurrent caller
\* through buckets deleted by gc in between; in any interval at most burst
\* forced sweeps pass forcedProbeAllowed.
THEOREM BucketsStayBounded == LimitsSpec => []BucketsBounded
<1>1. LimitsInv => BucketsBounded
  <2> SUFFICES ASSUME LimitsInv PROVE BucketsBounded
    OBVIOUS
  <2> USE ShareConstants, GateConstants
  <2>1. ShareInv /\ SweepInv
    BY DEF LimitsInv
  <2>2. PICK a \in InWindow : a = Window - 1
    BY DEF InWindow
  <2>3. admitted[a] \in Nat /\ strays[a] \in Nat
    BY <2>1 DEF ShareInv, ShareTypeOK
  <2>4. admitted[a] - strays[a] < 2 * MaxRequests
    <3>1. CASE entry = NoId
      BY <2>1, <2>3, <3>1 DEF ShareInv, NoEntryIdle
    <3>2. CASE entry # NoId
      <4>1. PICK n \in Int : n = admitted[a] - strays[a]
        BY <2>3
      <4>2. Window * n + LevelAt(entry) <= MaxRequests * (Window + a)
        BY <2>1, <3>2, <4>1 DEF ShareInv, EntryPaid
      <4>3. LevelAt(entry) \in Nat
        <5>1. entry \in Ids /\ ShareTypeOK
          BY <2>1, <3>2 DEF ShareInv, ShareTypeOK
        <5> QED
          BY <5>1, HeapTyped
      <4>4. MaxRequests * (Window + a) = ShareFull + ShareFull - MaxRequests
        BY <2>2 DEF ShareFull
      <4>5. SUFFICES ASSUME 2 * MaxRequests <= n PROVE FALSE
        BY <4>1
      <4>6. Window * (2 * MaxRequests) <= Window * n /\ Window * n \in Nat
        BY <4>5, TimesGrows
      <4>7. Window * (2 * MaxRequests) = ShareFull + ShareFull
        BY DEF ShareFull
      <4> QED
        BY <4>2, <4>3, <4>4, <4>6, <4>7
    <3> QED
      BY <3>1, <3>2
  <2>5. strays[a] <= 2 * Cardinality(Requesters)
    BY <2>1, <2>3, CaughtFinite DEF ShareInv, CaughtBounded
  <2>6. sweeps[ProbeInterval - 1] <= ProbeBurst
    <3>1. PICK p \in 0 .. ProbeInterval - 1 : p = ProbeInterval - 1
      OBVIOUS
    <3>2. /\ sweeps[p] \in Nat /\ GateLevel \in 0 .. GateFull
          /\ ProbeInterval * sweeps[p] + GateLevel <= GateFull + p
      BY <2>1, LimiterTyped DEF SweepInv, SweepTypeOK, SweepsPaid
    <3>3. SUFFICES ASSUME ProbeBurst + 1 <= sweeps[p] PROVE FALSE
      BY <3>1, <3>2
    <3>4. ProbeInterval * (ProbeBurst + 1) <= ProbeInterval * sweeps[p]
          /\ ProbeInterval * sweeps[p] \in Nat
      BY <3>2, <3>3, TimesGrows
    <3>5. ProbeInterval * (ProbeBurst + 1) = GateFull + ProbeInterval
      BY DEF GateFull
    <3> QED
      BY <3>1, <3>2, <3>4, <3>5
  <2> QED
    BY <2>2, <2>4, <2>5, <2>6 DEF BucketsBounded
<1> QED
  BY <1>1, LimitsInvariant, PTL

\* Acquire refuses a user only after min(burst, max_requests_per_user) requests
\* admitted in the current window, gc or not; a forced sweep is throttled only
\* after another one within the interval.
THEOREM RefusalsAreEarned == LimitsSpec => []RefusalIsEarned
<1>1. LimitsInv => RefusalIsEarned
  BY DEF LimitsInv, ShareInv, SweepInv, RefusalIsEarned, FirstTokens
<1> QED
  BY <1>1, LimitsInvariant, PTL
=============================================================================
