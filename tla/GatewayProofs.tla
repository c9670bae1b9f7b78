--------------------------- MODULE GatewayProofs ---------------------------
(***************************************************************************)
(* What holds of the gateway's pooled leg for every number of concurrent   *)
(* requests, every budget and every sequence of upstream answers.          *)
(***************************************************************************)
EXTENDS Gateway, RotationStoreProofs

Labels == {"idle", "refused", "forwarding", "relaying", "parking", "settling", "returning"}

HandlerTypeOK ==
    /\ pc \in [Leases -> Labels]
    /\ leaseKey \in [Leases -> Keys \cup {NoKey}]
    /\ resp \in [Leases -> ResponseType]
    /\ until \in [Leases -> Nat]
    /\ settled \in [Leases -> BOOLEAN]
    /\ stalled \in BOOLEAN

\* until[r] is a vendor's cooldown, counted from some instant that has passed.
VendorInstant(u) == \E c \in VendorCooldowns, t \in 0..now : u = t + c

\* A handler holds its lease from the grant to the one settlement that counts,
\* and knows when to park its key only once the body has been relayed.
HoldsLease(r) ==
    /\ pc[r] \in {"idle", "refused"} => holder[r] = NoKey /\ ~settled[r]
    /\ pc[r] \notin {"idle", "refused"} =>
          leaseKey[r] \in Keys /\ holder[r] = IF settled[r] THEN NoKey ELSE leaseKey[r]
    /\ settled[r] => pc[r] = "returning"
    /\ pc[r] \in {"idle", "refused", "forwarding", "relaying"} => until[r] = 0
    /\ pc[r] = "parking" =>
          IF Retires(resp[r].vendor) THEN VendorInstant(until[r]) ELSE until[r] = 0

HandlerInv ==
    /\ HandlerTypeOK
    /\ lost = {} /\ now <= MaxTime
    /\ \A r \in Leases : HoldsLease(r)

\* A response is charged as one the store knows how to charge.
LEMMA SampleType ==
    ASSUME NEW a \in ResponseType
    PROVE  /\ ChargeableSample(a).failed \in BOOLEAN
           /\ ChargeableSample(a).tokens \in Reports \cup {TokensUnknown}
<1>1. a.tokens \in Reports \cup {TokensUnknown} /\ 0 \in Reports
  BY GatewayAssumption DEF ResponseType
<1>2. CASE a.status = "failed"
  BY <1>1, <1>2 DEF ChargeableSample, Failed
<1>3. CASE a.status # "failed" /\ a.status \in {"refused", "quota"} /\ a.tokens = TokensUnknown
  BY <1>1, <1>3 DEF ChargeableSample, Completed
<1>4. CASE a.status # "failed" /\ ~(a.status \in {"refused", "quota"} /\ a.tokens = TokensUnknown)
  BY <1>1, <1>4 DEF ChargeableSample, Completed
<1> QED
  BY <1>2, <1>3, <1>4

\* Every step of a handler is one operation of the store, or none.
LEMMA HandlersUseStore ==
    ASSUME TypeOK, HandlerInv, [GatewayNext]_gvars
    PROVE  [Next]_vars
<1>0. now \in Nat /\ now <= MaxTime /\ MaxTime \in Nat
  BY TimeAssumption DEF TypeOK, HandlerInv
<1>1. CASE UNCHANGED gvars
  BY <1>1 DEF gvars
<1>2. CASE TimePasses
  BY <1>2 DEF TimePasses, Next
<1>3. ASSUME NEW r \in Leases, NEW k \in Keys, Lease(r, k)
      PROVE  Next
  BY <1>3 DEF Lease, Next
<1>4. ASSUME NEW r \in Leases, Refuse(r) \/ AnswerDrained(r)
      PROVE  Next
  BY <1>4 DEF Refuse, AnswerDrained, Next
<1>5. ASSUME NEW r \in Leases, Abandon(r) \/ EndRelay(r) \/ \E a \in Responses : Respond(r, a)
      PROVE  UNCHANGED vars
  BY <1>5 DEF Abandon, EndRelay, Respond
<1>6. ASSUME NEW r \in Leases, Park(r)
      PROVE  [Next]_vars
  <2>1. leaseKey[r] \in Keys /\ HoldsLease(r) /\ pc[r] = "parking"
    BY <1>6 DEF Park, HandlerInv, HoldsLease
  <2>2. CASE Retires(resp[r].vendor)
    <3>1. RetireAt(leaseKey[r], until[r])
      BY <1>6, <2>2 DEF Park, Retires, QuotaByStatus
    <3>2. PICK c \in VendorCooldowns, t \in 0..now : until[r] = t + c
      BY <2>1, <2>2 DEF HoldsLease, VendorInstant
    <3>3. now - t \in 0..MaxTime /\ c \in Nat
      <4>1. c \in Nat
        BY GatewayAssumption
      <4>2. now - t \in 0..MaxTime
        BY <1>0
      <4> QED
        BY <4>1, <4>2
    <3>4. c - (now - t) \in Cooldowns
      BY <3>3, GatewayAssumption
    <3>5. now + (c - (now - t)) = until[r]
      BY <1>0, <3>2, <3>3
    <3>6. RetireWithReason(leaseKey[r], c - (now - t))
      BY <3>1, <3>5 DEF RetireWithReason
    <3> QED
      BY <2>1, <3>4, <3>6 DEF Next
  <2>3. CASE ~Retires(resp[r].vendor) /\ QuotaByStatus(resp[r])
    <3>1. RetireForWindow(leaseKey[r])
      BY <1>6, <2>3 DEF Park
    <3> QED
      BY <2>1, <3>1 DEF Next
  <2>4. CASE ~Retires(resp[r].vendor) /\ ~QuotaByStatus(resp[r])
    BY <1>6, <2>4 DEF Park
  <2> QED
    BY <2>2, <2>3, <2>4
<1>7. ASSUME NEW r \in Leases, Settle(r)
      PROVE  Next
  <2> DEFINE s == ChargeableSample(resp[r])
  <2>1. s.tokens \in Reports \cup {TokensUnknown}
    BY SampleType DEF HandlerInv, HandlerTypeOK
  <2>2. Fail(r) \/ Complete(r, s.tokens)
    BY <1>7 DEF Settle
  <2> HIDE DEF s
  <2> QED
    BY <2>1, <2>2 DEF Next
<1>8. ASSUME NEW r \in Leases, DeferredSettle(r)
      PROVE  [Next]_vars
  BY <1>8 DEF DeferredSettle, Next
<1> QED
  BY <1>1, <1>2, <1>3, <1>4, <1>5, <1>6, <1>7, <1>8 DEF GatewayNext, HandlerStep

\* A step of handler r that leaves the other handlers and their leases alone.
LEMMA OneHandler ==
    ASSUME TypeOK, HandlerInv, NEW r \in Leases, HandlerTypeOK', lost' = lost, now' = now,
           \A q \in Leases \ {r} : /\ pc'[q] = pc[q] /\ leaseKey'[q] = leaseKey[q]
                                   /\ resp'[q] = resp[q] /\ until'[q] = until[q]
                                   /\ settled'[q] = settled[q] /\ holder'[q] = holder[q],
           HoldsLease(r)'
    PROVE  HandlerInv'
<1>1. ASSUME NEW q \in Leases, q # r PROVE HoldsLease(q)'
  <2>1. HoldsLease(q)
    BY DEF HandlerInv
  <2> QED
    BY <1>1, <2>1 DEF HoldsLease, VendorInstant
<1> QED
  BY <1>1 DEF HandlerInv

\* Every step keeps the handlers and the leases they hold in agreement.
LEMMA NextHandlerInv == TypeOK /\ HandlerInv /\ [GatewayNext]_gvars => HandlerInv'
<1> SUFFICES ASSUME TypeOK, HandlerInv, [GatewayNext]_gvars PROVE HandlerInv'
  OBVIOUS
<1>0. /\ now \in Nat /\ now <= MaxTime /\ MaxTime \in Nat /\ HandlerTypeOK /\ lost = {}
      /\ holder \in [Leases -> Keys \cup {NoKey}]
      /\ \A r \in Leases : HoldsLease(r)
  BY TimeAssumption DEF TypeOK, HandlerInv
<1>1. CASE UNCHANGED gvars
  BY <1>1 DEF gvars, vars, handlerVars, HandlerInv, HandlerTypeOK, HoldsLease, VendorInstant
<1>2. CASE TimePasses
  <2>1. UNCHANGED <<pc, leaseKey, resp, until, settled, holder, lost>> /\ now' = now + 1
        /\ now' <= MaxTime /\ stalled' \in BOOLEAN
    BY <1>0, <1>2 DEF TimePasses, Tick
  <2>2. \A u : VendorInstant(u) => VendorInstant(u)'
    <3> SUFFICES ASSUME NEW u, VendorInstant(u) PROVE VendorInstant(u)'
      OBVIOUS
    <3>1. PICK c \in VendorCooldowns, t \in 0..now : u = t + c
      BY DEF VendorInstant
    <3>2. t \in 0..now'
      BY <1>0, <2>1
    <3> QED
      BY <3>1, <3>2 DEF VendorInstant
  <2>3. \A r \in Leases : HoldsLease(r)'
    BY <1>0, <2>1, <2>2 DEF HoldsLease
  <2> QED
    BY <1>0, <2>1, <2>3 DEF HandlerInv, HandlerTypeOK
<1>3. ASSUME NEW r \in Leases, NEW k \in Keys, Lease(r, k)
      PROVE  HandlerInv'
  <2>1. /\ HandlerTypeOK' /\ UNCHANGED <<lost, now>>
        /\ pc' = [pc EXCEPT ![r] = "forwarding"] /\ leaseKey' = [leaseKey EXCEPT ![r] = k]
        /\ UNCHANGED <<resp, until, settled>> /\ holder' = [holder EXCEPT ![r] = k]
        /\ pc[r] = "idle"
    BY <1>0, <1>3 DEF Lease, Reserve, Goto, HandlerTypeOK, Labels
  <2>2. HoldsLease(r)'
    BY <1>0, <2>1 DEF HoldsLease, HandlerTypeOK
  <2> QED
    BY <1>0, <2>1, <2>2, OneHandler DEF HandlerTypeOK
<1>4. ASSUME NEW r \in Leases, Refuse(r) \/ AnswerDrained(r)
      PROVE  HandlerInv'
  <2>1. /\ HandlerTypeOK' /\ UNCHANGED <<lost, now, leaseKey, resp, until, settled, holder>>
        /\ pc[r] \in {"idle", "refused"}
        /\ pc' = [pc EXCEPT ![r] = "idle"] \/ pc' = [pc EXCEPT ![r] = "refused"]
    BY <1>0, <1>4 DEF Refuse, AnswerDrained, Observe, Goto, HandlerTypeOK, Labels
  <2>2. HoldsLease(r)'
    BY <1>0, <2>1 DEF HoldsLease, HandlerTypeOK
  <2> QED
    BY <1>0, <2>1, <2>2, OneHandler DEF HandlerTypeOK
<1>5. ASSUME NEW r \in Leases, Abandon(r)
      PROVE  HandlerInv'
  <2>0. NoResponse \in ResponseType
    BY GatewayAssumption DEF NoResponse, ResponseType, VendorClasses
  <2>1. /\ UNCHANGED <<lost, now, leaseKey, until, settled, holder, stalled>>
        /\ pc[r] \in {"forwarding", "relaying"}
        /\ pc' = [pc EXCEPT ![r] = "returning"] /\ resp' = [resp EXCEPT ![r] = NoResponse]
    BY <1>5 DEF Abandon, Goto, vars
  <2>2. HandlerTypeOK'
    BY <1>0, <2>0, <2>1 DEF HandlerTypeOK, Labels
  <2>3. HoldsLease(r)'
    BY <1>0, <2>1 DEF HoldsLease, HandlerTypeOK
  <2> QED
    BY <1>0, <2>1, <2>2, <2>3, OneHandler DEF HandlerTypeOK
<1>6. ASSUME NEW r \in Leases, NEW a \in Responses, Respond(r, a)
      PROVE  HandlerInv'
  <2>1. /\ UNCHANGED <<lost, now, leaseKey, until, settled, holder, stalled>>
        /\ pc[r] = "forwarding" /\ a \in ResponseType
        /\ pc' = [pc EXCEPT ![r] = "relaying"] /\ resp' = [resp EXCEPT ![r] = a]
    BY <1>6, GatewayAssumption DEF Respond, Goto, vars
  <2>2. HandlerTypeOK'
    BY <1>0, <2>1 DEF HandlerTypeOK, Labels
  <2>3. HoldsLease(r)'
    BY <1>0, <2>1 DEF HoldsLease, HandlerTypeOK
  <2> QED
    BY <1>0, <2>1, <2>2, <2>3, OneHandler DEF HandlerTypeOK
<1>7. ASSUME NEW r \in Leases, EndRelay(r)
      PROVE  HandlerInv'
  <2> DEFINE v == resp[r].vendor
             u == IF Retires(v) THEN VendorRetireUntil(v, now) ELSE 0
  <2>1. /\ UNCHANGED <<lost, now, leaseKey, resp, settled, holder, stalled>>
        /\ pc[r] = "relaying"
        /\ pc' = [pc EXCEPT ![r] = "parking"] /\ until' = [until EXCEPT ![r] = u]
    BY <1>7 DEF EndRelay, Goto, vars
  <2>2. PICK c \in VendorCooldowns : VendorRetireUntil(v, now) = now + c
    BY DEF VendorRetireUntil, VendorCooldowns
  <2>3. c \in Nat /\ now \in 0..now
    BY <1>0, GatewayAssumption
  <2>4. u \in Nat /\ (Retires(v) => u = now + c) /\ (~Retires(v) => u = 0)
    BY <1>0, <2>2, <2>3
  <2>5. Retires(v) => VendorInstant(u)
    BY <2>3, <2>4 DEF VendorInstant
  <2> HIDE DEF u, v
  <2>6. HandlerTypeOK'
    BY <1>0, <2>1, <2>4 DEF HandlerTypeOK, Labels
  <2>7. HoldsLease(r)'
    <3>1. /\ pc'[r] = "parking" /\ until'[r] = u /\ resp'[r].vendor = v /\ now' = now
          /\ holder'[r] = holder[r] /\ settled'[r] = settled[r] /\ leaseKey'[r] = leaseKey[r]
      BY <1>0, <2>1 DEF HandlerTypeOK, v
    <3>2. VendorInstant(u)' <=> VendorInstant(u)
      BY <2>1 DEF VendorInstant, u, v
    <3> QED
      BY <1>0, <2>1, <2>4, <2>5, <3>1 DEF HoldsLease, VendorInstant
  <2> QED
    BY <1>0, <2>1, <2>6, <2>7, OneHandler DEF HandlerTypeOK
<1>8. ASSUME NEW r \in Leases, Park(r)
      PROVE  HandlerInv'
  <2> DEFINE u == IF Window > 0 THEN WindowStartAt(now) + Window ELSE now + QuotaCooldown
  <2>1. /\ UNCHANGED <<lost, now, leaseKey, resp, settled, holder, stalled>>
        /\ pc[r] = "parking" /\ pc' = [pc EXCEPT ![r] = "settling"]
        /\ until' = until \/ until' = [until EXCEPT ![r] = u]
    BY <1>8 DEF Park, Goto, vars, RetireAt, RetireForWindow
  <2>2. u \in Nat
    BY <1>0, WindowStartNat, BudgetAssumption, TimeAssumption
  <2> HIDE DEF u
  <2>3. HandlerTypeOK'
    BY <1>0, <2>1, <2>2 DEF HandlerTypeOK, Labels
  <2>4. HoldsLease(r)'
    BY <1>0, <2>1 DEF HoldsLease, HandlerTypeOK
  <2> QED
    BY <1>0, <2>1, <2>3, <2>4, OneHandler DEF HandlerTypeOK
<1>9. ASSUME NEW r \in Leases, Settle(r)
      PROVE  HandlerInv'
  <2>1. /\ UNCHANGED <<lost, now, leaseKey, resp, until, stalled>>
        /\ pc[r] = "settling" /\ pc' = [pc EXCEPT ![r] = "returning"]
        /\ settled' = [settled EXCEPT ![r] = TRUE] /\ holder' = [holder EXCEPT ![r] = NoKey]
    BY <1>9 DEF Settle, Goto, Fail, Complete
  <2>2. HandlerTypeOK'
    BY <1>0, <2>1 DEF HandlerTypeOK, Labels
  <2>3. HoldsLease(r)'
    BY <1>0, <2>1 DEF HoldsLease, HandlerTypeOK
  <2> QED
    BY <1>0, <2>1, <2>2, <2>3, OneHandler DEF HandlerTypeOK
<1>10. ASSUME NEW r \in Leases, DeferredSettle(r)
       PROVE  HandlerInv'
  <2>0. NoResponse \in ResponseType
    BY GatewayAssumption DEF NoResponse, ResponseType, VendorClasses
  <2>1. /\ UNCHANGED <<lost, now, stalled>>
        /\ pc[r] = "returning" /\ pc' = [pc EXCEPT ![r] = "idle"]
        /\ leaseKey' = [leaseKey EXCEPT ![r] = NoKey] /\ resp' = [resp EXCEPT ![r] = NoResponse]
        /\ until' = [until EXCEPT ![r] = 0] /\ settled' = [settled EXCEPT ![r] = FALSE]
        /\ IF settled[r] THEN holder' = holder ELSE holder' = [holder EXCEPT ![r] = NoKey]
    BY <1>10 DEF DeferredSettle, Return, Goto, Fail, vars
  <2>2. HandlerTypeOK'
    BY <1>0, <2>0, <2>1 DEF HandlerTypeOK, Labels
  <2>3. holder'[r] = NoKey /\ \A q \in Leases \ {r} : holder'[q] = holder[q]
    BY <1>0, <2>1 DEF HoldsLease
  <2>4. HoldsLease(r)'
    BY <1>0, <2>1, <2>3 DEF HoldsLease, HandlerTypeOK
  <2> QED
    BY <1>0, <2>1, <2>2, <2>3, <2>4, OneHandler DEF HandlerTypeOK
<1> QED
  BY <1>1, <1>2, <1>3, <1>4, <1>5, <1>6, <1>7, <1>8, <1>9, <1>10 DEF GatewayNext, HandlerStep

\* The handlers start idle.
LEMMA InitHandlerInv == GatewayInit => HandlerInv
<1> SUFFICES ASSUME GatewayInit PROVE HandlerInv
  OBVIOUS
<1>1. NoResponse \in ResponseType
  BY GatewayAssumption DEF NoResponse, ResponseType, VendorClasses
<1>2. HandlerTypeOK
  BY <1>1 DEF GatewayInit, HandlerTypeOK, Labels
<1>3. lost = {} /\ now <= MaxTime
  BY TimeAssumption DEF GatewayInit, Init
<1>4. \A r \in Leases : HoldsLease(r)
  BY DEF GatewayInit, Init, HoldsLease
<1> QED
  BY <1>2, <1>3, <1>4 DEF HandlerInv

\* handleProxy keeps handlers and leases in agreement, and uses the store
\* through its operations only: no lease is settled twice.
THEOREM GatewayInvariant == GatewaySpec => [](IInv /\ Counted /\ HandlerInv)
<1>1. GatewayInit => IInv /\ Counted /\ HandlerInv
  BY InitIInv, InitHandlerInv, InitCounted DEF GatewayInit
<1>2. IInv => TypeOK
  BY DEF IInv
<1>3. IInv /\ Counted /\ HandlerInv /\ [GatewayNext]_gvars => (IInv /\ Counted /\ HandlerInv)'
  BY <1>2, HandlersUseStore, NextSafe, NextCounted, NextHandlerInv
<1> QED
  BY <1>1, <1>3, PTL DEF GatewaySpec

\* The handlers are a legal user of the store (UsesStoreLegally): the gateway
\* implements the store's specification.
THEOREM GatewayUsesStore == GatewaySpec => UsesStoreLegally
<1>1. GatewayInit => Init
  BY DEF GatewayInit
<1>2. IInv /\ HandlerInv /\ [GatewayNext]_gvars => [Next]_vars
  BY HandlersUseStore DEF IInv
<1> QED
  BY <1>1, <1>2, GatewayInvariant, PTL DEF GatewaySpec, UsesStoreLegally, Spec

-----------------------------------------------------------------------------
(* The audit line.                                                         *)

\* What settling a completed sample adds to a key's tokens.
LEMMA ChargedTokens ==
    ASSUME NEW ks \in KeyState, NEW n \in Reports \cup {TokensUnknown}
    PROVE  SettleCompleted(ks, n).tokens
             = ks.tokens + IF n = TokensUnknown THEN EstimateTokens ELSE n
<1> DEFINE c == IF n = TokensUnknown THEN EstimateTokens ELSE n
           r == Release(ks)
           u == r.tokens + c
           q == r.requests + 1
           e == r.estimated \/ n = TokensUnknown
<1>1. r \in KeyState /\ r.tokens = ks.tokens
  BY ReleaseFacts, SlotOpsKeepFlags
<1>2. SettleCompleted(ks, n) = ApplyCaps(Charge(r, n))
  BY DEF SettleCompleted
<1> HIDE DEF r
<1>3. Charge(r, n) = [r EXCEPT !.requests = q, !.tokens = u, !.estimated = e]
  BY DEF Charge
<1>4. q \in Nat /\ u \in Nat /\ e \in BOOLEAN
  BY <1>1, SlotsNat, InputAssumption, BudgetAssumption
<1> HIDE DEF q, u, e
<1>5. Charge(r, n) \in KeyState /\ Charge(r, n).tokens = u
  BY <1>1, <1>3, <1>4 DEF KeyState
<1>6. \A s \in KeyState : ApplyCaps(s).tokens = s.tokens
  BY DEF ApplyCaps, KeyState
<1> QED
  BY <1>1, <1>2, <1>5, <1>6 DEF u

\* The charge of the settlement is the one the audit line recomputes.
LEMMA SettleReconciles ==
    ASSUME IInv, HandlerInv, charged \in [Leases -> Int], NEW r \in Leases, Settle(r)
    PROVE  charged'[r] = ChargedTokensFor(ChargeableSample(resp[r]))
<1> DEFINE s == ChargeableSample(resp[r])
           k == leaseKey[r]
           a == Advanced(k, now)
<1>1. s.failed \in BOOLEAN /\ s.tokens \in Reports \cup {TokensUnknown}
  BY SampleType DEF HandlerInv, HandlerTypeOK
<1>2. k \in Keys /\ holder[r] = k
  BY DEF Settle, HandlerInv, HoldsLease, HandlerTypeOK
<1>3. a \in KeyState /\ a.tokens \in Nat
  BY <1>2, AdvancedSafe, SlotsNat
<1>4. charged' = [charged EXCEPT ![r] = keys'[k].tokens - a.tokens]
  BY DEF Settle
<1>5. CASE s.failed
  <2>1. keys'[k] = Release(a)
    BY <1>2, <1>5 DEF Settle, Fail, AdvanceAnd
  <2>2. Release(a).tokens = a.tokens
    BY <1>3, SlotOpsKeepFlags
  <2>3. ChargedTokensFor(s) = 0
    BY <1>5 DEF ChargedTokensFor
  <2>4. keys'[k].tokens - a.tokens = 0
    BY <1>3, <2>1, <2>2
  <2> QED
    BY <1>4, <2>3, <2>4
<1>6. CASE ~s.failed
  <2> DEFINE c == IF s.tokens = TokensUnknown THEN EstimateTokens ELSE s.tokens
  <2>1. keys'[k] = SettleCompleted(a, s.tokens)
    BY <1>2, <1>6 DEF Settle, Complete, AdvanceAnd
  <2>2. SettleCompleted(a, s.tokens).tokens = a.tokens + c
    BY <1>1, <1>3, ChargedTokens
  <2>3. ChargedTokensFor(s) = c
    BY <1>1, <1>6 DEF ChargedTokensFor
  <2>4. c \in Nat
    BY <1>1, InputAssumption, BudgetAssumption
  <2> HIDE DEF c, s
  <2>5. keys'[k].tokens - a.tokens = c
    BY <1>3, <2>1, <2>2, <2>4
  <2> QED
    BY <1>4, <2>3, <2>5 DEF s
<1> QED
  BY <1>1, <1>5, <1>6

\* The audit line reconciles with the store's accounting (chargedTokensFor
\* against settleLocked), for every answer and every interleaving.
THEOREM AuditAlwaysReconciles == GatewaySpec => []AuditReconciles
<1> DEFINE P == charged \in [Leases -> Int] /\ AuditReconciles
<1>1. GatewayInit => P
  BY DEF GatewayInit, AuditReconciles
<1>2. IInv /\ HandlerInv /\ P /\ [GatewayNext]_gvars => P'
  <2> SUFFICES ASSUME IInv, HandlerInv, P, [GatewayNext]_gvars PROVE P'
    OBVIOUS
  <2>0. HandlerTypeOK /\ charged \in [Leases -> Int]
    BY DEF HandlerInv
  <2>1. CASE UNCHANGED <<pc, resp, settled, charged>>
    BY <2>1 DEF AuditReconciles
  <2>2. ASSUME NEW r \in Leases, pc'[r] # "returning" \/ ~settled'[r],
               charged' \in [Leases -> Int],
               \A q \in Leases \ {r} : /\ pc'[q] = pc[q] /\ resp'[q] = resp[q]
                                       /\ settled'[q] = settled[q] /\ charged'[q] = charged[q]
        PROVE  P'
    BY <2>2 DEF AuditReconciles
  <2>3. CASE TimePasses
    BY <2>1, <2>3 DEF TimePasses
  <2>4. ASSUME NEW r \in Leases, NEW k \in Keys, Lease(r, k) PROVE P'
    BY <2>0, <2>2, <2>4 DEF Lease, Goto, HandlerTypeOK
  <2>5. ASSUME NEW r \in Leases, Refuse(r) \/ AnswerDrained(r) PROVE P'
    BY <2>0, <2>2, <2>5 DEF Refuse, AnswerDrained, Goto, HandlerTypeOK
  <2>6. ASSUME NEW r \in Leases, Abandon(r) PROVE P'
    <3>1. ~settled[r]
      BY <2>6 DEF Abandon, HandlerInv, HoldsLease
    <3> QED
      BY <2>0, <2>2, <2>6, <3>1 DEF Abandon, Goto, HandlerTypeOK
  <2>7. ASSUME NEW r \in Leases, NEW a \in Responses, Respond(r, a) PROVE P'
    BY <2>0, <2>2, <2>7 DEF Respond, Goto, HandlerTypeOK
  <2>8. ASSUME NEW r \in Leases, EndRelay(r) \/ Park(r) PROVE P'
    BY <2>0, <2>2, <2>8 DEF EndRelay, Park, Goto, HandlerTypeOK
  <2>9. ASSUME NEW r \in Leases, Settle(r) PROVE P'
    <3> DEFINE d == keys'[leaseKey[r]].tokens - Advanced(leaseKey[r], now).tokens
    <3>1. /\ charged' = [charged EXCEPT ![r] = d] /\ resp' = resp
          /\ pc' = [pc EXCEPT ![r] = "returning"] /\ settled' = [settled EXCEPT ![r] = TRUE]
      BY <2>9 DEF Settle, Goto
    <3>2. charged'[r] = ChargedTokensFor(ChargeableSample(resp[r]))
      BY <2>0, <2>9, SettleReconciles
    <3>3. ChargedTokensFor(ChargeableSample(resp[r])) \in Int
      <4> DEFINE s == ChargeableSample(resp[r])
      <4>1. s.failed \in BOOLEAN /\ s.tokens \in Reports \cup {TokensUnknown}
        BY <2>0, SampleType DEF HandlerTypeOK
      <4> HIDE DEF s
      <4>2. s.tokens \in Int /\ EstimateTokens \in Int
        <5>1. \A n \in Reports : n \in Int
          BY InputAssumption
        <5>2. TokensUnknown \in Int
          BY DEF TokensUnknown
        <5> QED
          BY <4>1, <5>1, <5>2, BudgetAssumption
      <4>3. CASE s.failed
        <5>1. ChargedTokensFor(s) = 0
          BY <4>3 DEF ChargedTokensFor
        <5> QED
          BY <5>1 DEF s
      <4>4. CASE ~s.failed
        <5>1. ChargedTokensFor(s) = IF s.tokens # TokensUnknown THEN s.tokens ELSE EstimateTokens
          BY <4>4 DEF ChargedTokensFor
        <5> QED
          BY <4>2, <5>1 DEF s
      <4> QED
        BY <4>1, <4>3, <4>4
    <3>4. charged'[r] = d
      BY <2>0, <3>1
    <3> HIDE DEF d
    <3>5. charged' \in [Leases -> Int]
      BY <2>0, <3>1, <3>2, <3>3, <3>4
    <3>6. \A q \in Leases \ {r} : /\ pc'[q] = pc[q] /\ resp'[q] = resp[q]
                                  /\ settled'[q] = settled[q] /\ charged'[q] = charged[q]
      BY <2>0, <3>1 DEF HandlerTypeOK
    <3> QED
      BY <3>1, <3>2, <3>5, <3>6 DEF AuditReconciles
  <2>10. ASSUME NEW r \in Leases, DeferredSettle(r) PROVE P'
    <3>1. /\ pc' = [pc EXCEPT ![r] = "idle"] /\ resp' = [resp EXCEPT ![r] = NoResponse]
          /\ settled' = [settled EXCEPT ![r] = FALSE] /\ charged' = [charged EXCEPT ![r] = 0]
      BY <2>10 DEF DeferredSettle, Return, Goto
    <3>2. charged' \in [Leases -> Int] /\ pc'[r] = "idle"
      BY <2>0, <3>1 DEF HandlerTypeOK
    <3>3. \A q \in Leases \ {r} : /\ pc'[q] = pc[q] /\ resp'[q] = resp[q]
                                  /\ settled'[q] = settled[q] /\ charged'[q] = charged[q]
      BY <2>0, <3>1 DEF HandlerTypeOK
    <3> QED
      BY <2>2, <3>2, <3>3
  <2>11. CASE UNCHANGED gvars
    BY <2>1, <2>11 DEF gvars, handlerVars
  <2> QED
    BY <2>3, <2>4, <2>5, <2>6, <2>7, <2>8, <2>9, <2>10, <2>11 DEF GatewayNext, HandlerStep
<1>3. P => AuditReconciles
  OBVIOUS
<1> HIDE DEF P
<1> QED
  BY <1>1, <1>2, <1>3, GatewayInvariant, PTL DEF GatewaySpec

-----------------------------------------------------------------------------
(* Parking a spent key.                                                    *)

\* The key of an answer that asked for it is retired at least that long.
KeyParked(r) ==
    pc[r] \in {"settling", "returning"} /\ now < until[r]
        => keys[leaseKey[r]].retiredUntil >= until[r]

\* A retirement covers the instant it was asked for.
LEMMA RetiresUntil ==
    ASSUME IInv, NEW k \in Keys, NEW u \in Nat, RetireAt(k, u), now < u
    PROVE  keys'[k].retiredUntil >= u
<1> DEFINE a == Advanced(k, now)
<1>1. a \in KeyState /\ a.retiredUntil \in Nat /\ now \in Nat
  BY AdvancedSafe, SlotsNat DEF IInv, TypeOK
<1>2. keys'[k] = RetireKey(a, u)
  BY DEF RetireAt, AdvanceAnd
<1> HIDE DEF a
<1>3. RetireKey(a, u).retiredUntil = IF u > now /\ u > a.retiredUntil THEN u ELSE a.retiredUntil
  BY <1>1 DEF RetireKey, KeyState
<1> QED
  BY <1>1, <1>2, <1>3

\* Whatever the store does, a retirement in force is not shortened.
LEMMA StaysRetired ==
    ASSUME IInv, [Next]_vars, NEW k \in Keys, keys[k].retiredUntil > now
    PROVE  keys'[k].retiredUntil >= keys[k].retiredUntil
<1>1. keys \in [Keys -> KeyState] /\ keys[k].retiredUntil \in Nat
  BY SlotsNat DEF IInv, TypeOK
<1>2. Advanced(k, now).retiredUntil = keys[k].retiredUntil
  BY <1>1, AdvancedFlags
<1>3. CASE UNCHANGED keys
  BY <1>1, <1>3
<1>4. CASE KeyMoves(k)
  BY <1>2, <1>4 DEF KeyMoves
<1> QED
  BY <1>3, <1>4, AllKeysMove DEF vars

\* A handler whose key is parked and that stays where it was keeps it parked.
LEMMA KeepsParked ==
    ASSUME IInv, IInv', [Next]_vars, HandlerInv, now' \in Nat, now' >= now, NEW q \in Leases,
           KeyParked(q), leaseKey'[q] = leaseKey[q], until'[q] = until[q],
           pc[q] \in {"settling", "returning"}
    PROVE  KeyParked(q)'
<1> SUFFICES ASSUME now' < until[q]
             PROVE  keys'[leaseKey[q]].retiredUntil >= until[q]
  BY DEF KeyParked
<1> DEFINE k == leaseKey[q]
<1>1. k \in Keys /\ until[q] \in Nat /\ now \in Nat
  BY DEF HandlerInv, HoldsLease, HandlerTypeOK, IInv, TypeOK
<1>2. now < until[q]
  BY <1>1
<1>3. keys[k].retiredUntil >= until[q] /\ keys[k].retiredUntil \in Nat
  BY <1>1, <1>2, SlotsNat DEF KeyParked, IInv, TypeOK
<1>4. keys'[k].retiredUntil >= keys[k].retiredUntil
  BY <1>1, <1>2, <1>3, StaysRetired
<1> HIDE DEF k
<1>5. keys'[k].retiredUntil >= until[q]
  <2>1. keys'[k].retiredUntil \in Nat
    BY <1>1, SlotsNat DEF IInv, TypeOK
  <2> QED
    BY <1>1, <1>3, <1>4, <2>1
<1> QED
  BY <1>5 DEF k

\* Every step keeps the parked keys parked, and parks the ones it should.
LEMMA NextParked ==
    ASSUME IInv, IInv', HandlerInv, \A r \in Leases : KeyParked(r), [GatewayNext]_gvars,
           NEW r \in Leases
    PROVE  KeyParked(r)'
<1>0. /\ HandlerTypeOK /\ now \in Nat /\ [Next]_vars /\ HoldsLease(r) /\ KeyParked(r)
  BY HandlersUseStore DEF IInv, TypeOK, HandlerInv
<1>1. CASE UNCHANGED <<pc, leaseKey, until>> /\ now' \in {now, now + 1}
  <2>1. CASE pc[r] \in {"settling", "returning"}
    BY <1>0, <1>1, <2>1, KeepsParked
  <2>2. CASE pc[r] \notin {"settling", "returning"}
    BY <1>1, <2>2 DEF KeyParked
  <2> QED
    BY <2>1, <2>2
<1>2. ASSUME NEW q \in Leases, r # q,
             /\ now' = now
             /\ \E label : Goto(q, label)
             /\ leaseKey'[r] = leaseKey[r] /\ until'[r] = until[r]
      PROVE  KeyParked(r)'
  <2>1. pc'[r] = pc[r]
    BY <1>0, <1>2 DEF Goto, HandlerTypeOK
  <2>2. CASE pc[r] \in {"settling", "returning"}
    BY <1>0, <1>2, <2>2, KeepsParked
  <2>3. CASE pc[r] \notin {"settling", "returning"}
    BY <2>1, <2>3 DEF KeyParked
  <2> QED
    BY <2>2, <2>3
<1>3. ASSUME pc'[r] \notin {"settling", "returning"}
      PROVE  KeyParked(r)'
  BY <1>3 DEF KeyParked
<1>4. CASE UNCHANGED gvars \/ TimePasses
  BY <1>1, <1>4 DEF gvars, vars, handlerVars, TimePasses, Tick
<1>5. ASSUME NEW q \in Leases, NEW k \in Keys, Lease(q, k) PROVE KeyParked(r)'
  BY <1>0, <1>2, <1>3, <1>5 DEF Lease, Reserve, Goto, HandlerTypeOK
<1>6. ASSUME NEW q \in Leases, Refuse(q) \/ AnswerDrained(q) PROVE KeyParked(r)'
  BY <1>0, <1>2, <1>3, <1>6 DEF Refuse, AnswerDrained, Observe, Goto, HandlerTypeOK
<1>7. ASSUME NEW q \in Leases, Abandon(q) PROVE KeyParked(r)'
  <2>1. CASE r = q
    <3>1. until'[r] = 0 /\ now' = now
      BY <1>0, <1>7, <2>1 DEF Abandon, vars, HoldsLease
    <3> QED
      BY <1>0, <3>1 DEF KeyParked
  <2> QED
    BY <1>2, <1>7, <2>1 DEF Abandon, vars
<1>8. ASSUME NEW q \in Leases, NEW a \in Responses, Respond(q, a) PROVE KeyParked(r)'
  BY <1>0, <1>2, <1>3, <1>8 DEF Respond, Goto, HandlerTypeOK, vars
<1>9. ASSUME NEW q \in Leases, EndRelay(q) PROVE KeyParked(r)'
  <2>1. CASE r = q
    BY <1>0, <1>3, <1>9, <2>1 DEF EndRelay, Goto, HandlerTypeOK
  <2>2. CASE r # q
    BY <1>0, <1>2, <1>9, <2>2 DEF EndRelay, vars, HandlerTypeOK
  <2> QED
    BY <2>1, <2>2
<1>10. ASSUME NEW q \in Leases, Park(q) PROVE KeyParked(r)'
  <2> DEFINE w == IF Window > 0 THEN WindowStartAt(now) + Window ELSE now + QuotaCooldown
             k == leaseKey[q]
  <2>0. /\ pc[q] = "parking" /\ Goto(q, "settling") /\ leaseKey' = leaseKey
        /\ k \in Keys /\ until[q] \in Nat /\ w \in Nat
    BY <1>0, <1>10, WindowStartNat, BudgetAssumption, TimeAssumption
       DEF Park, HandlerInv, HoldsLease, HandlerTypeOK, IInv
  <2>1. CASE Retires(resp[q].vendor)
    <3>1. RetireAt(k, until[q]) /\ UNCHANGED until
      BY <1>10, <2>1 DEF Park, Retires, QuotaByStatus
    <3>2. now' = now
      BY <3>1 DEF RetireAt
    <3>3. CASE r = q
      BY <2>0, <3>1, <3>2, <3>3, RetiresUntil DEF KeyParked
    <3> QED
      BY <1>2, <2>0, <3>1, <3>2, <3>3
  <2>2. CASE ~Retires(resp[q].vendor) /\ QuotaByStatus(resp[q])
    <3>1. RetireForWindow(k) /\ until' = [until EXCEPT ![q] = w]
      BY <1>10, <2>2 DEF Park
    <3>2. RetireAt(k, w) /\ now' = now
      BY <3>1 DEF RetireForWindow, RetireAt
    <3> HIDE DEF w
    <3>3. CASE r = q
      <4>1. until'[r] = w /\ leaseKey'[r] = k
        BY <1>0, <2>0, <3>1, <3>3 DEF HandlerTypeOK
      <4> QED
        BY <2>0, <3>2, <4>1, RetiresUntil DEF KeyParked
    <3>4. CASE r # q
      BY <1>0, <1>2, <2>0, <3>1, <3>2, <3>4 DEF HandlerTypeOK
    <3> QED
      BY <3>3, <3>4
  <2>3. CASE ~Retires(resp[q].vendor) /\ ~QuotaByStatus(resp[q])
    <3>1. UNCHANGED <<vars, until>>
      BY <1>10, <2>3 DEF Park
    <3>2. now' = now /\ until' = until
      BY <3>1 DEF vars
    <3>3. CASE r = q
      <4>1. until'[r] = 0
        BY <1>0, <2>0, <2>3, <3>2, <3>3 DEF HoldsLease
      <4> QED
        BY <1>0, <3>2, <4>1 DEF KeyParked
    <3> QED
      BY <1>2, <2>0, <3>2, <3>3
  <2> QED
    BY <2>1, <2>2, <2>3
<1>11. ASSUME NEW q \in Leases, Settle(q) PROVE KeyParked(r)'
  <2>1. UNCHANGED <<leaseKey, until, now>> /\ Goto(q, "returning") /\ pc[q] = "settling"
    BY <1>11 DEF Settle, Fail, Complete
  <2>2. CASE r = q
    BY <1>0, <2>1, <2>2, KeepsParked
  <2> QED
    BY <1>2, <2>1, <2>2
<1>12. ASSUME NEW q \in Leases, DeferredSettle(q) PROVE KeyParked(r)'
  <2>1. /\ now' = now /\ Goto(q, "idle") /\ until' = [until EXCEPT ![q] = 0]
        /\ leaseKey' = [leaseKey EXCEPT ![q] = NoKey]
    BY <1>12 DEF DeferredSettle, Return, Fail, vars
  <2>2. CASE r = q
    BY <1>0, <1>3, <2>1, <2>2 DEF Goto, HandlerTypeOK
  <2>3. CASE r # q
    BY <1>0, <1>2, <2>1, <2>3 DEF HandlerTypeOK
  <2> QED
    BY <2>2, <2>3
<1> QED
  BY <1>4, <1>5, <1>6, <1>7, <1>8, <1>9, <1>10, <1>11, <1>12 DEF GatewayNext, HandlerStep

\* A key whose plan is spent is out of rotation from the answer that said so to
\* the instant it asked for (settleLease, retireLocked).
THEOREM SpentKeysStayParked == GatewaySpec => []ParkedUntilAsked
<1> DEFINE P == \A r \in Leases : KeyParked(r)
<1>1. GatewayInit => P
  BY DEF GatewayInit, KeyParked
<1>2. IInv /\ IInv' /\ HandlerInv /\ P /\ [GatewayNext]_gvars => P'
  BY NextParked
<1>3. IInv /\ HandlerInv /\ P => ParkedUntilAsked
  <2> SUFFICES ASSUME IInv, HandlerInv, P, NEW r \in Leases,
                      pc[r] \in {"settling", "returning"}, now < until[r]
               PROVE  leaseKey[r] \notin SelectableKeys
    BY DEF ParkedUntilAsked
  <2> DEFINE k == leaseKey[r]
  <2>1. k \in Keys /\ until[r] \in Nat /\ now \in Nat
    BY DEF HandlerInv, HoldsLease, HandlerTypeOK, IInv, TypeOK
  <2>2. keys \in [Keys -> KeyState] /\ keys[k].retiredUntil \in Nat
    BY <2>1, SlotsNat DEF IInv, TypeOK
  <2>3. keys[k].retiredUntil >= until[r]
    BY DEF KeyParked
  <2>4. keys[k].retiredUntil > now
    BY <2>1, <2>2, <2>3
  <2>5. Advanced(k, now).retiredUntil = keys[k].retiredUntil
    BY <2>1, <2>2, <2>4, AdvancedFlags
  <2>6. ~SelectableAt(Advanced(k, now), now)
    BY <2>1, <2>2, <2>4, <2>5 DEF SelectableAt
  <2> QED
    BY <2>6 DEF SelectableKeys
<1> HIDE DEF P
<1> QED
  BY <1>1, <1>2, <1>3, GatewayInvariant, PTL DEF GatewaySpec

-----------------------------------------------------------------------------
(* The exact cap of pooled routes.                                         *)

\* Nothing is reclaimed from a key whose oldest entry has not expired.
LEMMA NothingStale ==
    ASSUME NEW ks \in KeyState, NEW t \in Nat,
           ks.leases # << >> => ks.leases[1] + LeaseTimeout > t
    PROVE  ReclaimStale(ks, t).reclaimed = ks.reclaimed
<1> DEFINE n == Cardinality(LeadingStale(ks.leases, t))
<1>0. ks.leases \in Seq(Nat) /\ ks.reclaimed \in Nat /\ LeaseTimeout \in Nat
  BY TimeAssumption DEF KeyState
<1>1. LeadingStale(ks.leases, t) = {}
  <2> SUFFICES ASSUME NEW i \in DOMAIN ks.leases,
                      \A j \in 1..i : ks.leases[j] + LeaseTimeout <= t
               PROVE  FALSE
    BY DEF LeadingStale
  <2>1. i \in 1..Len(ks.leases) /\ Len(ks.leases) \in Nat
    BY <1>0
  <2>2. 1 \in 1..i /\ ks.leases # << >> /\ 1 \in 1..Len(ks.leases)
    BY <1>0, <2>1
  <2>3. ks.leases[1] \in Nat
    BY <1>0, <2>2, ElementOfSeq
  <2> QED
    BY <1>0, <2>2, <2>3
<1>2. n = 0
  BY <1>1, FS_EmptySet
<1>3. ReclaimStale(ks, t) = [ks EXCEPT !.leases = SubSeq(@, n + 1, Len(@)),
                                       !.orphaned = @ + n, !.reclaimed = @ + n]
  BY DEF ReclaimStale
<1> HIDE DEF n
<1> QED
  BY <1>0, <1>2, <1>3 DEF KeyState

\* Beyond advancing the keys, no operation counts a reservation as reclaimed.
LEMMA OnlyAdvanceReclaims ==
    ASSUME IInv, [Next]_vars, NEW k \in Keys
    PROVE  keys'[k].reclaimed \in {keys[k].reclaimed, Advanced(k, now).reclaimed}
<1> DEFINE a == Advanced(k, now)
<1>0. a \in KeyState /\ now \in Nat
  BY AdvancedSafe DEF IInv, TypeOK
<1>1. CASE UNCHANGED vars \/ Tick \/ \E l \in Leases : Lose(l)
  <2>1. keys' = keys
    BY <1>1 DEF vars, Tick, Lose
  <2> QED
    BY <2>1
<1>2. CASE Observe
  BY <1>2 DEF Observe
<1>3. ASSUME NEW l \in Leases, NEW x \in Keys, Reserve(l, x)
      PROVE  keys'[k].reclaimed = a.reclaimed
  <2>1. keys'[k] = IF k = x THEN [a EXCEPT !.leases = Append(@, now)] ELSE a
    BY <1>3 DEF Reserve, AdvanceAnd
  <2> HIDE DEF a
  <2> QED
    BY <1>0, <2>1, AppendFacts
<1>4. ASSUME NEW l \in Leases, NEW n \in Reports \cup {TokensUnknown}, Complete(l, n)
      PROVE  keys'[k].reclaimed = a.reclaimed
  <2>1. keys'[k] = IF k = holder[l] THEN SettleCompleted(a, n) ELSE a
    BY <1>4 DEF Complete, AdvanceAnd
  <2>2. n \in Nat \cup {TokensUnknown}
    BY InputAssumption
  <2> HIDE DEF a
  <2>3. Release(a) \in KeyState /\ Release(a).reclaimed = a.reclaimed
    BY <1>0, ReleaseFacts
  <2>4. SettleCompleted(a, n).reclaimed = a.reclaimed
    BY <2>2, <2>3, ChargeFacts DEF SettleCompleted, SameSlots
  <2> QED
    BY <2>1, <2>4
<1>5. ASSUME NEW l \in Leases, Fail(l)
      PROVE  keys'[k].reclaimed = a.reclaimed
  <2>1. keys'[k] = IF k = holder[l] THEN Release(a) ELSE a
    BY <1>5 DEF Fail, AdvanceAnd
  <2> HIDE DEF a
  <2> QED
    BY <1>0, <2>1, ReleaseFacts
<1>6. ASSUME NEW x \in Keys, NEW u, RetireAt(x, u)
      PROVE  keys'[k].reclaimed = a.reclaimed
  <2>1. keys'[k] = IF k = x THEN RetireKey(a, u) ELSE a
    BY <1>6 DEF RetireAt, AdvanceAnd
  <2> HIDE DEF a
  <2>2. RetireKey(a, u).reclaimed = a.reclaimed
    BY <1>0 DEF RetireKey, KeyState
  <2> QED
    BY <2>1, <2>2
<1>7. CASE \E x \in Keys, d \in Cooldowns : RetireWithReason(x, d)
  BY <1>6, <1>7 DEF RetireWithReason
<1>8. CASE \E x \in Keys : RetireForWindow(x)
  BY <1>6, <1>8 DEF RetireForWindow
<1> QED
  BY <1>1, <1>2, <1>3, <1>4, <1>5, <1>7, <1>8 DEF Next

\* Until a client stalls, every lease is within the route's timeout, and with a
\* lease timeout beyond it nothing has been reclaimed.
OnTime ==
    ~stalled => /\ \A r \in Leases : holder[r] # NoKey => now <= takenAt[r] + RouteTimeout
                /\ RouteTimeout < LeaseTimeout => \A k \in Keys : keys[k].reclaimed = 0

\* While nothing was reclaimed the oldest entry belongs to a request that is
\* still running, so it has not expired either.
LEMMA AdvanceReclaimsNothing ==
    ASSUME IInv, Counted, HandlerInv, OnTime, ~stalled, RouteTimeout < LeaseTimeout,
           NEW k \in Keys
    PROVE  Advanced(k, now).reclaimed = 0
<1> DEFINE ks == keys[k]
           H == HeldOn(k)
<1>1. /\ ks \in KeyState /\ now \in Nat /\ ks.reclaimed = 0 /\ RouteTimeout \in Nat
      /\ LeaseTimeout \in Nat /\ takenAt \in [Leases -> Nat]
  BY GatewayAssumption, TimeAssumption DEF IInv, TypeOK, OnTime
<1>2. ks.orphaned = 0 /\ Len(ks.leases) = Cardinality(H) /\ ks.leases \in Seq(Nat)
  <2>1. KeySafe(ks) /\ InFlight(ks) + ks.orphaned = Cardinality(H)
    BY DEF IInv, KeysSafe, SlotConservation
  <2>2. ks.orphaned \in Nat /\ Len(ks.leases) \in Nat
    BY <1>1, SlotsNat
  <2>3. ks.orphaned <= ks.reclaimed
    BY <2>1 DEF KeySafe
  <2> QED
    BY <1>1, <2>1, <2>2, <2>3 DEF InFlight, KeyState
<1>3. ASSUME ks.leases # << >> PROVE ks.leases[1] + LeaseTimeout > now
  <2> DEFINE A == {l \in H : takenAt[l] > ks.leases[1]}
  <2>1. 1 \in 1..Len(ks.leases) /\ Len(ks.leases) \in Nat /\ ks.leases[1] \in Nat
    BY <1>2, <1>3, ElementOfSeq
  <2>2. Cardinality(A) <= Len(ks.leases) - 1
    BY <2>1 DEF Counted, Counts
  <2>3. A # H
    <3> HIDE DEF A, H, ks
    <3>1. Cardinality(H) = Len(ks.leases) /\ ~(Len(ks.leases) <= Len(ks.leases) - 1)
      BY <1>2, <2>1
    <3> QED
      BY <2>2, <3>1
  <2>4. PICK l \in H : ~(takenAt[l] > ks.leases[1])
    BY <2>3
  <2>5. l \in Leases /\ holder[l] # NoKey /\ takenAt[l] \in Nat
    BY <1>1, KeysAssumption DEF HeldOn
  <2>6. now <= takenAt[l] + RouteTimeout
    BY <2>5 DEF OnTime
  <2> QED
    BY <1>1, <2>1, <2>4, <2>5, <2>6
<1>4. ReclaimStale(ks, now).reclaimed = 0 /\ ReclaimStale(ks, now) \in KeyState
  BY <1>1, <1>3, NothingStale, ReclaimFacts
<1> QED
  BY <1>4, RollFacts DEF Advanced, SameSlots

\* Every step keeps the leases on time, or a client stalls.
LEMMA NextOnTime ==
    ASSUME IInv, Counted, HandlerInv, OnTime, [GatewayNext]_gvars
    PROVE  OnTime'
<1>0. /\ now \in Nat /\ HandlerTypeOK /\ takenAt \in [Leases -> Nat] /\ RouteTimeout \in Nat
      /\ holder \in [Leases -> Keys \cup {NoKey}] /\ [Next]_vars
      /\ \A r \in Leases : HoldsLease(r)
  BY HandlersUseStore, GatewayAssumption DEF IInv, TypeOK, HandlerInv
<1> SUFFICES ASSUME ~stalled'
             PROVE  /\ \A r \in Leases : holder'[r] # NoKey => now' <= takenAt'[r] + RouteTimeout
                    /\ RouteTimeout < LeaseTimeout => \A k \in Keys : keys'[k].reclaimed = 0
  BY DEF OnTime
<1>1. CASE TimePasses
  <2>1. /\ ~stalled /\ now' = now + 1 /\ UNCHANGED <<holder, takenAt, keys>>
        /\ \A r \in Leases : /\ WithinDeadline(r)
                             /\ ~(pc[r] = "relaying" /\ now >= takenAt[r] + RouteTimeout)
    BY <1>1 DEF TimePasses, Tick
  <2>2. ASSUME NEW r \in Leases, holder[r] # NoKey
        PROVE  now + 1 <= takenAt[r] + RouteTimeout
    <3>1. pc[r] \notin {"idle", "refused"} /\ ~settled[r]
      BY <1>0, <2>2 DEF HoldsLease
    <3>2. now < takenAt[r] + RouteTimeout
      BY <1>0, <2>1, <3>1 DEF WithinDeadline
    <3> QED
      BY <1>0, <3>2
  <2> QED
    BY <2>1, <2>2 DEF OnTime
<1>2. CASE ~TimePasses
  <2>1. ~stalled /\ now' = now
    <3>1. CASE UNCHANGED gvars
      BY <3>1 DEF gvars, vars, handlerVars
    <3>2. CASE \E r \in Leases, k \in Keys : Lease(r, k)
      BY <3>2 DEF Lease, Reserve
    <3>3. CASE \E r \in Leases : Refuse(r) \/ AnswerDrained(r)
      BY <3>3 DEF Refuse, AnswerDrained, Observe
    <3>4. CASE \E r \in Leases : Abandon(r) \/ EndRelay(r) \/ \E a \in Responses : Respond(r, a)
      BY <3>4 DEF Abandon, EndRelay, Respond, vars
    <3>5. CASE \E r \in Leases : Park(r)
      BY <3>5 DEF Park, RetireAt, RetireForWindow, vars
    <3>6. CASE \E r \in Leases : Settle(r) \/ DeferredSettle(r)
      BY <3>6 DEF Settle, DeferredSettle, Return, Fail, Complete, vars
    <3> QED
      BY <1>2, <3>1, <3>2, <3>3, <3>4, <3>5, <3>6 DEF GatewayNext, HandlerStep
  <2>2. ASSUME RouteTimeout < LeaseTimeout, NEW k \in Keys PROVE keys'[k].reclaimed = 0
    <3>1. Advanced(k, now).reclaimed = 0 /\ keys[k].reclaimed = 0
      BY <2>1, <2>2, AdvanceReclaimsNothing DEF OnTime
    <3> QED
      BY <1>0, <3>1, OnlyAdvanceReclaims
  <2>3. ASSUME NEW r \in Leases
        PROVE  \/ holder'[r] = NoKey
               \/ holder'[r] = holder[r] /\ takenAt'[r] = takenAt[r]
               \/ takenAt'[r] = now
    <3>1. CASE UNCHANGED vars \/ Tick \/ Observe \/ \E l \in Leases : Lose(l)
      BY <3>1 DEF vars, Tick, Observe, Lose
    <3>2. CASE \E l \in Leases, k \in Keys : Reserve(l, k)
      BY <1>0, <3>2 DEF Reserve
    <3>3. CASE \E l \in Leases : Fail(l) \/ \E n \in Reports \cup {TokensUnknown} : Complete(l, n)
      BY <1>0, <3>3 DEF Fail, Complete
    <3>4. CASE \/ \E k \in Keys, d \in Cooldowns : RetireWithReason(k, d)
               \/ \E k \in Keys : RetireForWindow(k)
      BY <3>4 DEF RetireWithReason, RetireForWindow, RetireAt
    <3> QED
      BY <1>0, <3>1, <3>2, <3>3, <3>4 DEF Next
  <2>4. ASSUME NEW r \in Leases, holder'[r] # NoKey
        PROVE  now' <= takenAt'[r] + RouteTimeout
    BY <1>0, <2>1, <2>3, <2>4 DEF OnTime
  <2> QED
    BY <2>2, <2>4
<1> QED
  BY <1>1, <1>2

\* Pooled routes keep their request cap exactly while no client stalls: every
\* reservation is settled before the store would give it up (handleProxy's
\* timeout against reclaimStaleLocked, admissibleLocked).
THEOREM PooledCapIsExact == GatewaySpec => []ExactCap
<1>1. GatewayInit => OnTime
  <2>1. FreshKey.reclaimed = 0
    BY DEF FreshKey
  <2> QED
    BY <2>1 DEF GatewayInit, Init, OnTime
<1>2. IInv /\ Counted /\ HandlerInv /\ OnTime /\ [GatewayNext]_gvars => OnTime'
  BY NextOnTime
<1>3. IInv /\ OnTime => ExactCap
  <2> SUFFICES ASSUME IInv, OnTime, Window > 0, Requests > 0, RouteTimeout < LeaseTimeout,
                      ~stalled, NEW k \in Keys
               PROVE  keys[k].requests + InFlight(keys[k]) <= Requests
    BY DEF ExactCap
  <2>1. keys[k] \in KeyState /\ KeySafe(keys[k]) /\ keys[k].reclaimed = 0
    BY DEF IInv, TypeOK, KeysSafe, OnTime
  <2> QED
    BY <2>1, SlotsNat, BudgetAssumption DEF KeySafe, Slots, InFlight
<1> QED
  BY <1>1, <1>2, <1>3, GatewayInvariant, PTL DEF GatewaySpec
=============================================================================
