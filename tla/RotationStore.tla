--------------------------- MODULE RotationStore ---------------------------
(***************************************************************************)
(* The key-rotation store of one pooled gateway route                      *)
(* (internal/channel/rotation_store.go): per-key accounting over a         *)
(* tumbling window, soft and hard caps, admission control that counts the  *)
(* leases in flight, explicit retirement, and reclamation of leases that   *)
(* stay unsettled for longer than the lease timeout.                       *)
(*                                                                         *)
(* Every exported method takes Store.mu, reads the clock, calls            *)
(* advanceLocked and then does its own work, so each is one action here.   *)
(* The policy behind Reserve is an interface (RotationPolicy.Select, whose *)
(* bad answers the store contains), so Reserve may take any admissible     *)
(* key; module RotationPolicy refines it with the three shipped policies.  *)
(* The reason labels and the errors counter are only ever reported, never  *)
(* read by a decision, and are left out.                                   *)
(***************************************************************************)
EXTENDS Integers, Sequences, FiniteSets

CONSTANTS
    Keys,           \* the route's keys (indices of routeState.keys)
    Leases,         \* KeyLease objects callers may hold
    NoKey,          \* "holds no reservation"
    Window,         \* Budget.Window, 0 disables caps
    Requests,       \* Budget.Requests, 0 = uncapped
    Tokens,         \* Budget.Tokens, 0 = uncapped
    EstimateTokens, \* Budget.EstimateTokens
    SoftPercent,    \* Budget.SoftRatio, in percent
    LeaseTimeout,   \* Store.leaseTimeout, never 0 after NewStore
    QuotaCooldown,  \* DefaultQuotaCooldown
    MaxRetryAfter,  \* Store.maxRetryAfter
    MinRetryAfter,  \* MinRetryAfter
    Reports,        \* token totals a response may report
    Cooldowns,      \* lengths of the explicit retirements callers ask for
    MaxTime,        \* bound: the clock stops here
    MaxRequests     \* bound: completed settlements of one key in one window

ASSUME KeysAssumption == IsFiniteSet(Keys) /\ Keys # {} /\ NoKey \notin Keys
ASSUME LeasesAssumption == IsFiniteSet(Leases)
ASSUME BudgetAssumption ==
    /\ Window \in Nat /\ Requests \in Nat /\ Tokens \in Nat
    /\ EstimateTokens \in Nat
    /\ SoftPercent \in 1..100
ASSUME TimeAssumption ==
    /\ LeaseTimeout \in Nat \ {0}
    /\ QuotaCooldown \in Nat
    /\ MinRetryAfter \in Nat /\ MaxRetryAfter \in Nat
    /\ MaxTime \in Nat /\ MaxRequests \in Nat
ASSUME InputAssumption ==
    /\ Reports \subseteq Nat /\ Cooldowns \subseteq Int
    \* token totals are machine integers, so there is a largest one
    /\ \E m \in Reports \cup {EstimateTokens} :
          \A n \in Reports \cup {EstimateTokens} : n <= m

TokensUnknown == -1

VARIABLES
    now,            \* the store's clock
    windowStart,    \* routeState.windowStart
    keys,           \* routeState.keys
    holder,         \* lease -> the key it reserved, NoKey once settled
    takenAt,        \* lease -> when it was taken (not known to the store)
    lost,           \* leases whose caller will never settle them
    emitted         \* keys the last operation reported as retired

vars == <<now, windowStart, keys, holder, takenAt, lost, emitted>>

KeyState == [requests: Nat, tokens: Nat, leases: Seq(Nat), orphaned: Nat,
             reclaimed: Nat, estimated: BOOLEAN, drained: BOOLEAN,
             softRetired: BOOLEAN, retiredUntil: Nat]

FreshKey == [requests |-> 0, tokens |-> 0, leases |-> << >>, orphaned |-> 0,
             reclaimed |-> 0, estimated |-> FALSE, drained |-> FALSE,
             softRetired |-> FALSE, retiredUntil |-> 0]

InFlight(ks) == Len(ks.leases)

-----------------------------------------------------------------------------
(***************************************************************************)
(* advanceLocked: reclaim the leading run of expired reservations of every *)
(* key, then roll the tumbling window if it has expired.                   *)
(***************************************************************************)
LeadingStale(ls, t) ==
    {i \in DOMAIN ls : \A j \in 1..i : ls[j] + LeaseTimeout <= t}

\* Faulty variant: the reclaimed reservations are not remembered as orphans.
ReclaimStaleForgets(ks, t) ==
    LET n == Cardinality(LeadingStale(ks.leases, t))
    IN  [ks EXCEPT !.leases = SubSeq(@, n + 1, Len(@)), !.reclaimed = @ + n]

ReclaimStale(ks, t) ==
    LET n == Cardinality(LeadingStale(ks.leases, t))
    IN  [ks EXCEPT !.leases = SubSeq(@, n + 1, Len(@)),
                   !.orphaned = @ + n,
                   !.reclaimed = @ + n]

WindowOver(t) == Window > 0 /\ t - windowStart >= Window

WindowStartAt(t) ==
    IF WindowOver(t) THEN windowStart + ((t - windowStart) \div Window) * Window
                     ELSE windowStart

RollKey(ks, t) ==
    [ks EXCEPT !.requests = 0, !.tokens = 0, !.estimated = FALSE,
               !.drained = FALSE, !.softRetired = FALSE,
               !.retiredUntil = IF @ > t THEN @ ELSE 0]

Advanced(k, t) ==
    LET ks == ReclaimStale(keys[k], t)
    IN  IF WindowOver(t) THEN RollKey(ks, t) ELSE ks

\* One critical section: advance the route, then apply Op to key k.
AdvanceAnd(k, Op(_)) ==
    /\ windowStart' = WindowStartAt(now)
    /\ keys' = [x \in Keys |-> IF x = k THEN Op(Advanced(x, now))
                                        ELSE Advanced(x, now)]

-----------------------------------------------------------------------------
SelectableAt(ks, t) == ~ks.drained /\ ~ks.softRetired /\ ks.retiredUntil <= t

\* Faulty variant: off by one at the request cap.
UnderCapsOffByOne(ks) ==
    \/ Window = 0
    \/ /\ Requests > 0 => ks.requests + InFlight(ks) <= Requests
       /\ Tokens > 0 => ks.tokens + InFlight(ks) * EstimateTokens < Tokens

\* Faulty variant: the token cap is compared with settled usage only.
UnderCapsSettledTokens(ks) ==
    \/ Window = 0
    \/ /\ Requests > 0 => ks.requests + InFlight(ks) < Requests
       /\ Tokens > 0 => ks.tokens < Tokens

UnderCaps(ks) ==
    \/ Window = 0
    \/ /\ Requests > 0 => ks.requests + InFlight(ks) < Requests
       /\ Tokens > 0 => ks.tokens + InFlight(ks) * EstimateTokens < Tokens

Admissible(ks, t) == SelectableAt(ks, t) /\ UnderCaps(ks)

SelectableKeys == {k \in Keys : SelectableAt(Advanced(k, now), now)}
AdmissibleKeys == {k \in Keys : Admissible(Advanced(k, now), now)}

\* What reserve would answer now: a lease, or which of its filters emptied.
Refusal ==
    CASE AdmissibleKeys # {} -> "none"
      [] AdmissibleKeys = {} /\ SelectableKeys # {} -> "admission"
      [] OTHER -> "drained"

AtRatio(used, limit, percent) == limit > 0 /\ used * 100 >= percent * limit

ApplyCaps(ks) ==
    LET hard == AtRatio(ks.requests, Requests, 100) \/ AtRatio(ks.tokens, Tokens, 100)
        soft == \/ AtRatio(ks.requests, Requests, SoftPercent)
                \/ AtRatio(ks.tokens, Tokens, SoftPercent)
    IN  IF Window = 0 THEN ks
        ELSE [ks EXCEPT !.drained = @ \/ hard, !.softRetired = @ \/ hard \/ soft]

CappedOut(ks) == ks.drained \/ ks.softRetired

\* Faulty variant: a settlement pops a live entry even when an orphan is unpaid.
ReleaseLiveFirst(ks) ==
    IF ks.leases # << >> THEN [ks EXCEPT !.leases = Tail(@)]
    ELSE [ks EXCEPT !.orphaned = @ - 1]

\* A settlement names a key, not a lease: it pays off a reclaimed reservation
\* when there is one and the oldest outstanding entry otherwise.
Release(ks) ==
    IF ks.orphaned > 0 THEN [ks EXCEPT !.orphaned = @ - 1]
    ELSE IF ks.leases # << >> THEN [ks EXCEPT !.leases = Tail(@)]
    ELSE ks

Charge(ks, tokens) ==
    [ks EXCEPT !.requests = @ + 1,
               !.tokens = @ + IF tokens = TokensUnknown THEN EstimateTokens ELSE tokens,
               !.estimated = @ \/ tokens = TokensUnknown]

SettleCompleted(ks, tokens) == ApplyCaps(Charge(Release(ks), tokens))

\* Faulty variant: the latest call wins.
RetireKeyLatest(ks, until) ==
    [ks EXCEPT !.retiredUntil = IF until > now THEN until ELSE @]

\* retireLocked: a retirement only ever extends.
RetireKey(ks, until) ==
    [ks EXCEPT !.retiredUntil = IF until > now /\ until > @ THEN until ELSE @]

\* Faulty variant: the sooner of the two conditions.
WaitForSooner(ks) ==
    LET cooling == IF ks.retiredUntil > now THEN ks.retiredUntil - now ELSE 0
    IN  IF cooling > 0 THEN cooling ELSE WindowStartAt(now) + Window - now

\* waitForLocked: a key both capped and retired must clear both.
WaitFor(ks) ==
    LET cooling == IF ks.retiredUntil > now THEN ks.retiredUntil - now ELSE 0
        toRoll  == WindowStartAt(now) + Window - now
    IN  CASE CappedOut(ks) /\ Window > 0 ->
                IF toRoll > cooling THEN toRoll ELSE cooling
          [] CappedOut(ks) /\ Window = 0 /\ cooling = 0 -> MaxRetryAfter
          [] OTHER -> cooling

\* The smallest of a nonempty finite set of numbers.
Least(S) == CHOOSE x \in S : \A y \in S : x <= y

TrueWait == Least({WaitFor(Advanced(k, now)) : k \in Keys})

Clamp(d, lo, hi) == LET c == IF d > hi THEN hi ELSE d IN IF c < lo THEN lo ELSE c

\* RetryAfter; 0 stands for ok = false (some key is selectable).
RetryAfter ==
    IF SelectableKeys # {} THEN 0 ELSE Clamp(TrueWait, MinRetryAfter, MaxRetryAfter)

-----------------------------------------------------------------------------
Init ==
    /\ now = 0
    /\ windowStart = 0
    /\ keys = [k \in Keys |-> FreshKey]
    /\ holder = [l \in Leases |-> NoKey]
    /\ takenAt = [l \in Leases |-> 0]
    /\ lost = {}
    /\ emitted = {}

Tick ==
    /\ now < MaxTime
    /\ now' = now + 1
    /\ emitted' = {}
    /\ UNCHANGED <<windowStart, keys, holder, takenAt, lost>>

\* reserve, granted: k is the policy's choice among the admissible keys.
Reserve(l, k) ==
    /\ holder[l] = NoKey
    /\ k \in AdmissibleKeys
    /\ AdvanceAnd(k, LAMBDA ks : [ks EXCEPT !.leases = Append(@, now)])
    /\ holder' = [holder EXCEPT ![l] = k]
    /\ takenAt' = [takenAt EXCEPT ![l] = now]
    /\ emitted' = {}
    /\ UNCHANGED <<now, lost>>

\* A refused reserve, Snapshot and RetryAfter advance the route and no more.
Observe ==
    /\ windowStart' = WindowStartAt(now)
    /\ keys' = [k \in Keys |-> Advanced(k, now)]
    /\ emitted' = {}
    /\ UNCHANGED <<now, holder, takenAt, lost>>

\* Faulty variant: whether the key was already out is read after the charge.
CompleteLateRead(l, tokens) ==
    LET k  == holder[l]
        ks == Advanced(k, now)
    IN  /\ k # NoKey /\ l \notin lost
        /\ ks.requests < MaxRequests
        /\ AdvanceAnd(k, LAMBDA s : SettleCompleted(s, tokens))
        /\ emitted' = {}
        /\ holder' = [holder EXCEPT ![l] = NoKey]
        /\ takenAt' = [takenAt EXCEPT ![l] = 0]
        /\ UNCHANGED <<now, lost>>

\* KeyLease.Settle with OutcomeCompleted: settleLocked and applyCapsLocked.
Complete(l, tokens) ==
    LET k  == holder[l]
        ks == Advanced(k, now)
    IN  /\ k # NoKey /\ l \notin lost
        /\ ks.requests < MaxRequests
        /\ AdvanceAnd(k, LAMBDA s : SettleCompleted(s, tokens))
        /\ emitted' = IF CappedOut(SettleCompleted(ks, tokens)) /\ ~CappedOut(ks)
                      THEN {k} ELSE {}
        /\ holder' = [holder EXCEPT ![l] = NoKey]
        /\ takenAt' = [takenAt EXCEPT ![l] = 0]
        /\ UNCHANGED <<now, lost>>

\* KeyLease.Settle with OutcomeFailed releases the slot and charges nothing.
Fail(l) ==
    /\ holder[l] # NoKey /\ l \notin lost
    /\ AdvanceAnd(holder[l], Release)
    /\ holder' = [holder EXCEPT ![l] = NoKey]
    /\ takenAt' = [takenAt EXCEPT ![l] = 0]
    /\ emitted' = {}
    /\ UNCHANGED <<now, lost>>

\* A caller of Next that never settles its reservation.
Lose(l) ==
    /\ holder[l] # NoKey /\ l \notin lost
    /\ lost' = lost \cup {l}
    /\ emitted' = {}
    /\ UNCHANGED <<now, windowStart, keys, holder, takenAt>>

\* RetireWithReason and retireForWindow share retireLocked and its event rule.
RetireAt(k, until) ==
    /\ AdvanceAnd(k, LAMBDA ks : RetireKey(ks, until))
    /\ emitted' = IF until > now /\ Advanced(k, now).retiredUntil <= now
                  THEN {k} ELSE {}
    /\ UNCHANGED <<now, holder, takenAt, lost>>

RetireWithReason(k, d) == RetireAt(k, now + d)

RetireForWindow(k) ==
    RetireAt(k, IF Window > 0 THEN WindowStartAt(now) + Window
                              ELSE now + QuotaCooldown)

Next ==
    \/ Tick
    \/ Observe
    \/ \E l \in Leases, k \in Keys : Reserve(l, k)
    \/ \E l \in Leases, n \in Reports \cup {TokensUnknown} : Complete(l, n)
    \/ \E l \in Leases : Fail(l)
    \/ \E l \in Leases : Lose(l)
    \/ \E k \in Keys, d \in Cooldowns : RetireWithReason(k, d)
    \/ \E k \in Keys : RetireForWindow(k)

Spec == Init /\ [][Next]_vars

-----------------------------------------------------------------------------
\* Every variable keeps its shape.
TypeOK ==
    /\ now \in Nat /\ windowStart \in Nat
    /\ keys \in [Keys -> KeyState]
    /\ holder \in [Leases -> Keys \cup {NoKey}]
    /\ takenAt \in [Leases -> Nat]
    /\ lost \in SUBSET Leases
    /\ emitted \in SUBSET Keys

HeldOn(k) == {l \in Leases : holder[l] = k}

\* Slots are conserved: whatever the interleaving of settlements, reclamations
\* and window rolls, a key's outstanding entries plus its reclaimed-but-unpaid
\* ones are exactly the reservations callers have not settled, although a
\* settlement never says which reservation it belongs to (releaseLocked).
SlotConservation ==
    \A k \in Keys : InFlight(keys[k]) + keys[k].orphaned = Cardinality(HeldOn(k))

\* The documented exactness of the request cap (admissibleLocked): settled plus
\* in-flight requests of a window exceed Budget.Requests by at most the number
\* of reclaimed reservations that have since been settled late.
RequestCapBound ==
    Window > 0 /\ Requests > 0 =>
        \A k \in Keys : keys[k].requests + InFlight(keys[k]) + keys[k].orphaned
                            <= Requests + keys[k].reclaimed

\* Tokens are bounded by the cap plus what the admitted leases can overshoot
\* their estimate by (docs/helixchannel.md, "Request budgets are exact; token
\* budgets are advisory"), MostReported being the largest charge.
MostReported == CHOOSE m \in Reports \cup {EstimateTokens} :
                    \A n \in Reports \cup {EstimateTokens} : n <= m

TokenOvershootBound ==
    Window > 0 /\ Tokens > 0 =>
        \A k \in Keys :
            LET ks == keys[k]
                late == ks.reclaimed - ks.orphaned
            IN  EstimateTokens * (ks.tokens + MostReported * InFlight(ks))
                  <= MostReported * (Tokens + EstimateTokens - 1 + EstimateTokens * late)

\* A settlement that guesses the wrong reservation never makes the store forget
\* a request that is still running within its lease timeout (the safe direction
\* releaseLocked argues for).
NeverUndercounts ==
    \A k \in Keys :
        Cardinality({l \in HeldOn(k) : takenAt[l] + LeaseTimeout > now})
            <= InFlight(Advanced(k, now))

\* The advertised wait is the true one: with every key out, none comes back
\* before TrueWait has passed and one is back once it has.
RetryAfterTruthful ==
    SelectableKeys = {} =>
        /\ \A d \in 0..(TrueWait - 1), k \in Keys :
               ~SelectableAt(Advanced(k, now + d), now + d)
        /\ \E k \in Keys :
               SelectableAt(Advanced(k, now + TrueWait), now + TrueWait)

\* No operation brings a cooling key back early: a retirement in force is only
\* ever pushed further out, by stale calls and window rolls alike.
RetirementNeverShortened ==
    [][\A k \in Keys : keys[k].retiredUntil > now
            => keys'[k].retiredUntil >= keys[k].retiredUntil]_vars

\* A key that leaves rotation is reported by the operation that took it out, so
\* the retirement counter never misses a departure.
LeavingIsReported ==
    [][\A k \in Keys : k \in SelectableKeys /\ k \notin SelectableKeys'
            => k \in emitted']_vars

\* The comment of retireLocked and applyCapsLocked: the counter counts keys
\* LEAVING rotation, so a key already out emits no second event.
EventMeansLeaving ==
    [][\A k \in emitted' : k \in SelectableKeys]_vars
=============================================================================
