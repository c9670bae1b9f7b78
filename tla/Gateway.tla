------------------------------ MODULE Gateway ------------------------------
(***************************************************************************)
(* The pooled leg of the reverse-proxy gateway                             *)
(* (internal/channel/server.go handleProxy and settleLease, with the       *)
(* rotatingInjector of auth.go): every request is a goroutine that leases  *)
(* a key from the route's RotationStore, forwards, relays the response,    *)
(* parks the key when the answer says its plan is spent, settles the       *)
(* lease, writes its audit line and runs its deferred settlement.          *)
(*                                                                         *)
(* The store's lease objects are named after the requests that hold them.  *)
(* Each store call is one critical section, so the steps of two requests   *)
(* interleave between them. Authentication, route matching and header      *)
(* rewriting happen before the lease and change no shared state.           *)
(***************************************************************************)
EXTENDS RotationStore

CONSTANTS
    Responses,             \* the upstream answers considered, see ResponseType
    RouteTimeout,          \* Route.Timeout, the deadline of the upstream exchange
    VendorRateCooldown,    \* the three cooldowns of vendor_error.go
    VendorBalanceCooldown,
    VendorQuotaFallback,
    ResetIn                \* how far ahead a vendor's reset time lies

VendorClasses == {"none", "rate", "balance", "window", "window_reset", "healthy"}

\* "refused" stands for 3xx and 4xx, "quota" for the two statuses of
\* isQuotaStatus, "failed" for 5xx.
ResponseType == [status: {"ok", "refused", "quota", "failed"},
                 tokens: Reports \cup {TokensUnknown}, vendor: VendorClasses]

\* How far ahead an answer may park its key.
VendorCooldowns ==
    {VendorRateCooldown, VendorBalanceCooldown, VendorQuotaFallback, ResetIn}

ASSUME GatewayAssumption ==
    /\ Responses \subseteq ResponseType /\ 0 \in Reports
    /\ RouteTimeout \in Nat \ {0}
    /\ VendorCooldowns \subseteq Nat
    \* the store is asked for what is left of one of them
    /\ \A c \in VendorCooldowns, e \in 0..MaxTime : c - e \in Cooldowns

VARIABLES
    pc,        \* request -> where its handler is
    leaseKey,  \* request -> KeyLease.index
    resp,      \* request -> the response being relayed
    until,     \* request -> the instant its answer parks the key to, 0 = none
    settled,   \* request -> KeyLease.once has fired
    charged,   \* request -> tokens the store charged for it
    stalled    \* history: some client outlasted the route's timeout

handlerVars == <<pc, leaseKey, resp, until, settled, charged, stalled>>
gvars == <<vars, handlerVars>>

NoResponse == [status |-> "failed", tokens |-> 0, vendor |-> "none"]

Goto(r, label) == pc' = [pc EXCEPT ![r] = label]

\* The handler returns and its locals are gone.
Return(r) ==
    /\ Goto(r, "idle")
    /\ leaseKey' = [leaseKey EXCEPT ![r] = NoKey]
    /\ resp' = [resp EXCEPT ![r] = NoResponse]
    /\ until' = [until EXCEPT ![r] = 0]
    /\ settled' = [settled EXCEPT ![r] = FALSE]
    /\ charged' = [charged EXCEPT ![r] = 0]
    /\ UNCHANGED stalled

-----------------------------------------------------------------------------
Failed == [failed |-> TRUE, tokens |-> 0]
Completed(n) == [failed |-> FALSE, tokens |-> n]

ChargeableSample(a) ==
    CASE a.status = "failed" -> Failed
      [] a.status \in {"refused", "quota"} /\ a.tokens = TokensUnknown -> Completed(0)
      [] OTHER -> Completed(a.tokens)

\* Faulty variant: an estimated charge is reported as nothing.
ChargedTokensForReported(sample) ==
    IF sample.failed \/ sample.tokens = TokensUnknown THEN 0 ELSE sample.tokens

\* What the audit line says was charged, recomputed from the sample. A route
\* without rotation is one whose estimate is 0.
ChargedTokensFor(sample) ==
    CASE sample.failed -> 0
      [] ~sample.failed /\ sample.tokens # TokensUnknown -> sample.tokens
      [] OTHER -> EstimateTokens

Retires(vendor) == vendor \in {"rate", "balance", "window", "window_reset"}

VendorRetireUntil(vendor, t) ==
    CASE vendor = "rate" -> t + VendorRateCooldown
      [] vendor = "balance" -> t + VendorBalanceCooldown
      [] vendor = "window_reset" -> t + ResetIn
      [] OTHER -> t + VendorQuotaFallback

QuotaByStatus(a) == a.vendor = "none" /\ a.status = "quota"

-----------------------------------------------------------------------------
GatewayInit ==
    /\ Init
    /\ pc = [r \in Leases |-> "idle"]
    /\ leaseKey = [r \in Leases |-> NoKey]
    /\ resp = [r \in Leases |-> NoResponse]
    /\ until = [r \in Leases |-> 0]
    /\ settled = [r \in Leases |-> FALSE]
    /\ charged = [r \in Leases |-> 0]
    /\ stalled = FALSE

\* Faulty variant: the exchange is not bounded by the route's timeout.
WithinDeadlineNever(r) == TRUE

\* context.WithTimeout ends the upstream exchange; only a client that stops
\* reading can hold a handler longer, since the servers set no write timeout.
WithinDeadline(r) ==
    \/ pc[r] \in {"idle", "refused"}
    \/ pc[r] = "relaying"
    \/ now < takenAt[r] + RouteTimeout
    \/ settled[r]

TimePasses ==
    /\ \A r \in Leases : WithinDeadline(r)
    /\ Tick
    /\ stalled' = \/ stalled
                  \/ \E r \in Leases : pc[r] = "relaying" /\ now >= takenAt[r] + RouteTimeout
    /\ UNCHANGED <<pc, leaseKey, resp, until, settled, charged>>

\* leaseFor, granted.
Lease(r, k) ==
    /\ pc[r] = "idle"
    /\ Reserve(r, k)
    /\ Goto(r, "forwarding")
    /\ leaseKey' = [leaseKey EXCEPT ![r] = k]
    /\ UNCHANGED <<resp, until, settled, charged, stalled>>

\* leaseFor, refused: an admission refusal is answered at once with the
\* floor, a drained route asks the store for the wait in a second call.
Refuse(r) ==
    /\ pc[r] = "idle" /\ Refusal # "none"
    /\ Observe
    /\ Goto(r, IF Refusal = "drained" THEN "refused" ELSE "idle")
    /\ UNCHANGED <<leaseKey, resp, until, settled, charged, stalled>>

AnswerDrained(r) ==
    /\ pc[r] = "refused"
    /\ Observe
    /\ Goto(r, "idle")
    /\ UNCHANGED <<leaseKey, resp, until, settled, charged, stalled>>

\* The forward fails (502) or the handler panics while it relays: only the
\* deferred settlement is left to run.
Abandon(r) ==
    /\ pc[r] \in {"forwarding", "relaying"}
    /\ Goto(r, "returning")
    /\ resp' = [resp EXCEPT ![r] = NoResponse]
    /\ UNCHANGED <<vars, leaseKey, until, settled, charged, stalled>>

Respond(r, a) ==
    /\ pc[r] = "forwarding"
    /\ resp' = [resp EXCEPT ![r] = a]
    /\ Goto(r, "relaying")
    /\ UNCHANGED <<vars, leaseKey, until, settled, charged, stalled>>

\* The body is copied; a vendor signal's deadline is computed from the clock
\* here, outside the store's lock.
EndRelay(r) ==
    /\ pc[r] = "relaying"
    /\ until' = [until EXCEPT ![r] =
                    IF Retires(resp[r].vendor)
                    THEN VendorRetireUntil(resp[r].vendor, now) ELSE 0]
    /\ Goto(r, "parking")
    /\ UNCHANGED <<vars, leaseKey, resp, settled, charged, stalled>>

\* Faulty variant: every quota answer parks for the accounting window.
ParkForWindow(r) ==
    /\ pc[r] = "parking"
    /\ IF Retires(resp[r].vendor) \/ QuotaByStatus(resp[r])
       THEN RetireForWindow(leaseKey[r]) ELSE UNCHANGED vars
    /\ Goto(r, "settling")
    /\ UNCHANGED <<leaseKey, resp, until, settled, charged, stalled>>

\* settleLease, first half: the vendor's own code wins over the status, and a
\* code that says the key is healthy suppresses the status.
Park(r) ==
    /\ pc[r] = "parking"
    /\ CASE Retires(resp[r].vendor) ->
               RetireAt(leaseKey[r], until[r]) /\ UNCHANGED until
         [] QuotaByStatus(resp[r]) ->
               /\ RetireForWindow(leaseKey[r])
               /\ until' = [until EXCEPT ![r] =
                               IF Window > 0 THEN WindowStartAt(now) + Window
                                             ELSE now + QuotaCooldown]
         [] OTHER -> UNCHANGED <<vars, until>>
    /\ Goto(r, "settling")
    /\ UNCHANGED <<leaseKey, resp, settled, charged, stalled>>

\* settleLease, second half.
Settle(r) ==
    LET sample == ChargeableSample(resp[r])
        k      == leaseKey[r]
    IN  /\ pc[r] = "settling"
        /\ IF sample.failed THEN Fail(r) ELSE Complete(r, sample.tokens)
        /\ settled' = [settled EXCEPT ![r] = TRUE]
        /\ charged' = [charged EXCEPT ![r] = keys'[k].tokens - Advanced(k, now).tokens]
        /\ Goto(r, "returning")
        /\ UNCHANGED <<leaseKey, resp, until, stalled>>

\* Faulty variant: without sync.Once the deferred settlement settles again.
DeferredSettleTwice(r) ==
    /\ pc[r] = "returning"
    /\ IF settled[r]
       THEN /\ AdvanceAnd(leaseKey[r], Release)
            /\ UNCHANGED <<now, holder, takenAt, lost, emitted>>
       ELSE Fail(r)
    /\ Return(r)

\* Faulty variant: the error path returns without its deferred settlement.
DeferredSettleForgotten(r) ==
    /\ pc[r] = "returning"
    /\ Return(r)
    /\ UNCHANGED vars

\* The deferred Settle(OutcomeFailed), a no-op once the lease has settled.
DeferredSettle(r) ==
    /\ pc[r] = "returning"
    /\ IF settled[r] THEN UNCHANGED vars ELSE Fail(r)
    /\ Return(r)

HandlerStep(r) ==
    \/ Abandon(r)
    \/ \E a \in Responses : Respond(r, a)
    \/ EndRelay(r)
    \/ Park(r)
    \/ Settle(r)
    \/ DeferredSettle(r)
    \/ AnswerDrained(r)

GatewayNext ==
    \/ TimePasses
    \/ \E r \in Leases, k \in Keys : Lease(r, k)
    \/ \E r \in Leases : Refuse(r)
    \/ \E r \in Leases : HandlerStep(r)

\* A handler that has started keeps running: its exchange ends by the route's
\* timeout at the latest, its client reads on or disconnects.
GatewayFairness == \A r \in Leases : WF_gvars(HandlerStep(r))

GatewaySpec == GatewayInit /\ [][GatewayNext]_gvars /\ GatewayFairness

-----------------------------------------------------------------------------
\* The handlers use the store as its contract asks: every step is a legal store
\* operation or leaves the store alone, so no lease is settled twice although
\* handleProxy both settles explicitly and defers a settlement.
UsesStoreLegally == Spec

\* Pooled routes are exact: with the exchange bounded below the lease timeout
\* and until a client stalls, no window is charged more than its request cap.
ExactCap ==
    Window > 0 /\ Requests > 0 /\ RouteTimeout < LeaseTimeout /\ ~stalled =>
        \A k \in Keys : keys[k].requests + InFlight(keys[k]) <= Requests

\* The audit line reconciles with the accounting: what chargedTokensFor
\* recomputes is what the store charged, whatever else settled in between.
AuditReconciles ==
    \A r \in Leases : pc[r] = "returning" /\ settled[r]
        => ChargedTokensFor(ChargeableSample(resp[r])) = charged[r]

\* A key that reported a spent plan is out of rotation before its lease is
\* settled and stays out until the instant the answer asked for, whatever other
\* responses on the same key say meanwhile (settleLease).
ParkedUntilAsked ==
    \A r \in Leases : pc[r] \in {"settling", "returning"} /\ now < until[r]
        => leaseKey[r] \notin SelectableKeys

\* No exit path leaks a lease, errors and panics included (handleProxy's
\* deferred settlement).
LeaseSettles == \A r \in Leases : (holder[r] # NoKey) ~> (holder[r] = NoKey)
=============================================================================
