------------------------ MODULE RotationStoreProofs ------------------------
(***************************************************************************)
(* What holds of RotationStore for every budget, timeout, number of keys   *)
(* and number of callers.                                                  *)
(***************************************************************************)
EXTENDS RotationStore, FiniteSetTheorems, SequenceTheorems,
        WellFoundedInduction, TLAPS

USE DEF TokensUnknown

\* The leading run of expired entries is at most the whole sequence
\* (the loop bound of reclaimStaleLocked).
LEMMA StaleCount ==
    ASSUME NEW ls \in Seq(Nat), NEW t
    PROVE  Cardinality(LeadingStale(ls, t)) \in 0..Len(ls)
<1>1. LeadingStale(ls, t) \subseteq 1..Len(ls)
  BY DEF LeadingStale
<1>2. IsFiniteSet(1..Len(ls)) /\ Cardinality(1..Len(ls)) = Len(ls)
  <2>1. Len(ls) \in Nat
    OBVIOUS
  <2> HIDE DEF LeadingStale
  <2>2. \A b \in Int : /\ IsFiniteSet(1..b)
                        /\ Cardinality(1..b) = IF 1 > b THEN 0 ELSE b - 1 + 1
    BY FS_Interval, 1 \in Int, Zenon
  <2> QED
    BY <2>1, <2>2
<1>3. /\ IsFiniteSet(LeadingStale(ls, t))
      /\ Cardinality(LeadingStale(ls, t)) <= Cardinality(1..Len(ls))
  BY <1>1, <1>2, FS_Subset
<1> QED
  BY <1>2, <1>3, FS_CardinalityType

\* Dropping the first n entries leaves the rest (k.leases = k.leases[n:]).
LEMMA DropFirst ==
    ASSUME NEW ls \in Seq(Nat), NEW n \in 0..Len(ls)
    PROVE  /\ SubSeq(ls, n + 1, Len(ls)) \in Seq(Nat)
           /\ Len(SubSeq(ls, n + 1, Len(ls))) = Len(ls) - n
<1>1. Len(ls) \in Nat
  OBVIOUS
<1>2. \A i \in (n + 1)..Len(ls) : ls[i] \in Nat
  BY ElementOfSeq
<1> QED
  BY <1>1, <1>2, SubSeqProperties

\* Replacing the slot fields of a key record gives a key record.
LEMMA SlotFields ==
    ASSUME NEW ks \in KeyState, NEW ls \in Seq(Nat), NEW o \in Nat, NEW c \in Nat
    PROVE  [ks EXCEPT !.leases = ls, !.orphaned = o, !.reclaimed = c] \in KeyState
  BY DEF KeyState

\* reclaimStaleLocked moves reservations from leases to orphaned and counts them
\* in reclaimed; nothing else changes.
LEMMA ReclaimFacts ==
    ASSUME NEW ks \in KeyState, NEW t
    PROVE  LET r == ReclaimStale(ks, t) IN
           /\ r \in KeyState
           /\ Len(r.leases) + r.orphaned = Len(ks.leases) + ks.orphaned
           /\ r.reclaimed - r.orphaned = ks.reclaimed - ks.orphaned
           /\ r.orphaned >= ks.orphaned
           /\ r.requests = ks.requests
           /\ r.retiredUntil = ks.retiredUntil
<1> DEFINE n == Cardinality(LeadingStale(ks.leases, t))
<1>1. ks.leases \in Seq(Nat)
  BY DEF KeyState
<1>2. n \in 0..Len(ks.leases)
  BY <1>1, StaleCount
<1>3. /\ SubSeq(ks.leases, n + 1, Len(ks.leases)) \in Seq(Nat)
      /\ Len(SubSeq(ks.leases, n + 1, Len(ks.leases))) = Len(ks.leases) - n
  BY <1>1, <1>2, DropFirst
<1>4. n \in Nat /\ Len(ks.leases) \in Nat
  BY <1>1, <1>2
<1> HIDE DEF n
<1> DEFINE r == ReclaimStale(ks, t)
<1>5. r = [ks EXCEPT !.leases = SubSeq(@, n + 1, Len(@)),
                     !.orphaned = @ + n,
                     !.reclaimed = @ + n]
  BY DEF ReclaimStale, n
<1>6. /\ r.leases = SubSeq(ks.leases, n + 1, Len(ks.leases))
      /\ r.orphaned = ks.orphaned + n
      /\ r.reclaimed = ks.reclaimed + n
      /\ r.requests = ks.requests
      /\ r.retiredUntil = ks.retiredUntil
  BY <1>5 DEF KeyState
<1>7. r \in KeyState
  <2>1. ks.orphaned + n \in Nat /\ ks.reclaimed + n \in Nat
    BY <1>4 DEF KeyState
  <2> DEFINE ls == SubSeq(ks.leases, n + 1, Len(ks.leases))
             o == ks.orphaned + n
             c == ks.reclaimed + n
  <2>2. r = [ks EXCEPT !.leases = ls, !.orphaned = o, !.reclaimed = c]
    BY <1>5
  <2>3. ls \in Seq(Nat) /\ o \in Nat /\ c \in Nat
    BY <1>3, <2>1
  <2> HIDE DEF ls, o, c, r
  <2> QED
    BY <2>2, <2>3, SlotFields
<1> HIDE DEF r
<1>8. /\ Len(r.leases) + r.orphaned = Len(ks.leases) + ks.orphaned
      /\ r.reclaimed - r.orphaned = ks.reclaimed - ks.orphaned
      /\ r.orphaned >= ks.orphaned
  BY <1>3, <1>4, <1>6 DEF KeyState
<1> QED
  BY <1>6, <1>7, <1>8 DEF r

\* The reservations a key still owes callers: outstanding or reclaimed-but-unpaid.
Slots(ks) == Len(ks.leases) + ks.orphaned

\* b differs from a only in what a window roll, a charge or a retirement touches.
SameSlots(a, b) ==
    b.leases = a.leases /\ b.orphaned = a.orphaned /\ b.reclaimed = a.reclaimed

\* The slots a key owes are a natural number.
LEMMA SlotsNat ==
    ASSUME NEW ks \in KeyState
    PROVE  /\ Len(ks.leases) \in Nat /\ ks.orphaned \in Nat /\ ks.reclaimed \in Nat
           /\ ks.requests \in Nat /\ ks.tokens \in Nat /\ ks.retiredUntil \in Nat
           /\ Slots(ks) \in Nat
  BY DEF KeyState, Slots

\* rollLocked keeps the slots of a key and zeroes its request count.
LEMMA RollFacts ==
    ASSUME NEW ks \in KeyState, NEW t
    PROVE  /\ RollKey(ks, t) \in KeyState
           /\ SameSlots(ks, RollKey(ks, t))
           /\ RollKey(ks, t).requests = 0
  BY DEF RollKey, KeyState, SameSlots

\* advanceLocked keeps every owed slot and never raises a request count.
LEMMA AdvancedFacts ==
    ASSUME keys \in [Keys -> KeyState], NEW k \in Keys, NEW t
    PROVE  /\ Advanced(k, t) \in KeyState
           /\ Slots(Advanced(k, t)) = Slots(keys[k])
           /\ Advanced(k, t).reclaimed - Advanced(k, t).orphaned
                 = keys[k].reclaimed - keys[k].orphaned
           /\ Advanced(k, t).requests <= keys[k].requests
<1> DEFINE r == ReclaimStale(keys[k], t)
<1>1. keys[k] \in KeyState
  OBVIOUS
<1>2. /\ r \in KeyState
      /\ Slots(r) = Slots(keys[k])
      /\ r.reclaimed - r.orphaned = keys[k].reclaimed - keys[k].orphaned
      /\ r.requests = keys[k].requests
  BY <1>1, ReclaimFacts DEF Slots
<1>3. Advanced(k, t) = IF WindowOver(t) THEN RollKey(r, t) ELSE r
  BY DEF Advanced
<1> HIDE DEF r
<1>4. CASE WindowOver(t)
  <2>1. /\ RollKey(r, t) \in KeyState
        /\ SameSlots(r, RollKey(r, t))
        /\ RollKey(r, t).requests = 0
    BY <1>2, RollFacts
  <2> QED
    BY <1>1, <1>2, <1>3, <1>4, <2>1, SlotsNat DEF Slots, SameSlots
<1>5. CASE ~WindowOver(t)
  BY <1>1, <1>2, <1>3, <1>5, SlotsNat
<1> QED
  BY <1>4, <1>5

\* Taking a reservation adds one slot.
LEMMA AppendFacts ==
    ASSUME NEW ks \in KeyState, NEW t \in Nat
    PROVE  LET b == [ks EXCEPT !.leases = Append(@, t)] IN
           /\ b \in KeyState
           /\ Slots(b) = Slots(ks) + 1
           /\ b.orphaned = ks.orphaned /\ b.reclaimed = ks.reclaimed
           /\ b.requests = ks.requests
<1>1. ks.leases \in Seq(Nat) /\ Append(ks.leases, t) \in Seq(Nat)
      /\ Len(Append(ks.leases, t)) = Len(ks.leases) + 1
  BY AppendProperties DEF KeyState
<1> DEFINE b == [ks EXCEPT !.leases = Append(@, t)]
<1>2. b.leases = Append(ks.leases, t) /\ b.orphaned = ks.orphaned
      /\ b.reclaimed = ks.reclaimed /\ b.requests = ks.requests
  BY DEF KeyState
<1>3. b \in KeyState
  BY <1>1 DEF KeyState
<1> HIDE DEF b
<1>4. Slots(b) = Slots(ks) + 1
  BY <1>1, <1>2, SlotsNat DEF Slots
<1> QED
  BY <1>2, <1>3, <1>4 DEF b

\* releaseLocked gives back exactly one owed slot when there is one.
LEMMA ReleaseFacts ==
    ASSUME NEW ks \in KeyState
    PROVE  /\ Release(ks) \in KeyState
           /\ Slots(ks) > 0 => Slots(Release(ks)) = Slots(ks) - 1
           /\ Release(ks).orphaned <= ks.orphaned
           /\ Release(ks).reclaimed = ks.reclaimed
           /\ Release(ks).requests = ks.requests
<1>1. CASE ks.orphaned > 0
  <2>1. Release(ks) = [ks EXCEPT !.orphaned = @ - 1]
    BY <1>1 DEF Release
  <2>2. ks.orphaned - 1 \in Nat
    BY <1>1, SlotsNat
  <2>3. Release(ks) \in KeyState
    BY <2>1, <2>2 DEF KeyState
  <2>4. Release(ks).leases = ks.leases /\ Release(ks).orphaned = ks.orphaned - 1
        /\ Release(ks).reclaimed = ks.reclaimed /\ Release(ks).requests = ks.requests
    BY <2>1 DEF KeyState
  <2> QED
    BY <2>3, <2>4, SlotsNat DEF Slots
<1>2. CASE ~(ks.orphaned > 0) /\ ks.leases # << >>
  <2>1. Release(ks) = [ks EXCEPT !.leases = Tail(@)]
    BY <1>2 DEF Release
  <2>2. ks.leases \in Seq(Nat) /\ Tail(ks.leases) \in Seq(Nat)
        /\ Len(Tail(ks.leases)) = Len(ks.leases) - 1
    BY <1>2, HeadTailProperties DEF KeyState
  <2>3. Release(ks) \in KeyState
    BY <2>1, <2>2 DEF KeyState
  <2>4. Release(ks).leases = Tail(ks.leases) /\ Release(ks).orphaned = ks.orphaned
        /\ Release(ks).reclaimed = ks.reclaimed /\ Release(ks).requests = ks.requests
    BY <2>1 DEF KeyState
  <2> QED
    BY <2>2, <2>3, <2>4, SlotsNat DEF Slots
<1>3. CASE ~(ks.orphaned > 0) /\ ks.leases = << >>
  <2>1. Release(ks) = ks
    BY <1>3 DEF Release
  <2>2. Slots(ks) = 0
    BY <1>3, SlotsNat DEF Slots
  <2> QED
    BY <2>1, <2>2, SlotsNat
<1> QED
  BY <1>1, <1>2, <1>3

\* Charging and capping a key leaves its slots alone.
LEMMA ChargeFacts ==
    ASSUME NEW ks \in KeyState, NEW n \in Nat \cup {TokensUnknown}
    PROVE  LET b == ApplyCaps(Charge(ks, n)) IN
           b \in KeyState /\ SameSlots(ks, b) /\ b.requests = ks.requests + 1
<1> DEFINE c == Charge(ks, n)
<1>1. /\ c \in KeyState
      /\ SameSlots(ks, c)
      /\ c.requests = ks.requests + 1
  <2> DEFINE q == ks.requests + 1
             u == ks.tokens + IF n = TokensUnknown THEN EstimateTokens ELSE n
             e == ks.estimated \/ n = TokensUnknown
  <2>1. c = [ks EXCEPT !.requests = q, !.tokens = u, !.estimated = e]
    BY DEF Charge
  <2>2. q \in Nat /\ u \in Nat
    BY SlotsNat, BudgetAssumption
  <2>3. e \in BOOLEAN
    OBVIOUS
  <2> HIDE DEF q, u, e
  <2>4. c \in KeyState
    BY <2>1, <2>2, <2>3 DEF KeyState
  <2>5. SameSlots(ks, c) /\ c.requests = q
    BY <2>1 DEF KeyState, SameSlots
  <2> QED
    BY <2>4, <2>5 DEF q
<1> HIDE DEF c
<1>2. /\ ApplyCaps(c) \in KeyState
      /\ SameSlots(c, ApplyCaps(c))
      /\ ApplyCaps(c).requests = c.requests
  BY <1>1 DEF ApplyCaps, KeyState, SameSlots
<1> QED
  BY <1>1, <1>2 DEF SameSlots, c

\* Retiring a key leaves its slots and counters alone.
LEMMA RetireFacts ==
    ASSUME NEW ks \in KeyState, NEW u \in Int, now \in Nat
    PROVE  /\ RetireKey(ks, u) \in KeyState
           /\ SameSlots(ks, RetireKey(ks, u))
           /\ RetireKey(ks, u).requests = ks.requests
  BY DEF RetireKey, KeyState, SameSlots

-----------------------------------------------------------------------------
\* The request cap of one key, with the slots that were reclaimed while their
\* request was still running as the only slack.
KeySafe(ks) ==
    /\ ks.orphaned <= ks.reclaimed
    /\ Window > 0 /\ Requests > 0 =>
          ks.requests + Slots(ks) <= Requests + ks.reclaimed

KeysSafe == \A k \in Keys : KeySafe(keys[k])

\* The inductive invariant: a settlement keeps requests + slots level only if
\* there is a slot to give back, which is what SlotConservation provides.
IInv == TypeOK /\ SlotConservation /\ KeysSafe

\* The leases held on a key are finitely many, so they can be counted.
LEMMA HeldFinite ==
    ASSUME NEW k
    PROVE  IsFiniteSet(HeldOn(k)) /\ Cardinality(HeldOn(k)) \in Nat
<1>1. HeldOn(k) \subseteq Leases
  BY DEF HeldOn
<1>2. IsFiniteSet(HeldOn(k))
  BY <1>1, LeasesAssumption, FS_Subset
<1> QED
  BY <1>2, FS_CardinalityType

\* The start of the window a time falls in is a time (rollLocked).
LEMMA WindowStartNat ==
    ASSUME TypeOK
    PROVE  WindowStartAt(now) \in Nat
<1>1. CASE WindowOver(now)
  <2>1. Window \in Nat /\ Window > 0 /\ now - windowStart \in Nat
    BY <1>1, BudgetAssumption DEF WindowOver, TypeOK
  <2>2. (now - windowStart) \div Window \in Nat
    BY <2>1
  <2>3. ((now - windowStart) \div Window) * Window \in Nat
    BY <2>1, <2>2
  <2> QED
    BY <1>1, <2>3 DEF WindowStartAt, TypeOK
<1>2. CASE ~WindowOver(now)
  BY <1>2 DEF WindowStartAt, TypeOK
<1> QED
  BY <1>1, <1>2

\* Advancing a safe key leaves it safe, with the slots it had.
LEMMA AdvancedSafe ==
    ASSUME IInv, NEW k \in Keys
    PROVE  /\ Advanced(k, now) \in KeyState
           /\ KeySafe(Advanced(k, now))
           /\ Slots(Advanced(k, now)) = Cardinality(HeldOn(k))
<1>1. keys \in [Keys -> KeyState] /\ keys[k] \in KeyState
  BY DEF IInv, TypeOK
<1>2. KeySafe(keys[k]) /\ Slots(keys[k]) = Cardinality(HeldOn(k))
  BY DEF IInv, KeysSafe, SlotConservation, Slots, InFlight
<1>3. /\ Advanced(k, now) \in KeyState
      /\ Slots(Advanced(k, now)) = Slots(keys[k])
      /\ Advanced(k, now).reclaimed - Advanced(k, now).orphaned
            = keys[k].reclaimed - keys[k].orphaned
      /\ Advanced(k, now).requests <= keys[k].requests
  BY <1>1, AdvancedFacts
<1> DEFINE a == Advanced(k, now)
<1>4. /\ a.orphaned >= keys[k].orphaned
  BY <1>1, ReclaimFacts, RollFacts DEF Advanced, SameSlots
<1> HIDE DEF a
<1>5. a \in KeyState /\ Slots(a) = Slots(keys[k])
  BY <1>3 DEF a
<1>6. /\ {a.orphaned, a.reclaimed, a.requests} \subseteq Nat
      /\ {keys[k].orphaned, keys[k].reclaimed, keys[k].requests} \subseteq Nat
      /\ Slots(a) \in Nat /\ Requests \in Nat
  BY <1>1, <1>5, SlotsNat, BudgetAssumption DEF KeyState
<1>7. /\ a.reclaimed - a.orphaned = keys[k].reclaimed - keys[k].orphaned
      /\ a.requests <= keys[k].requests
  BY <1>3 DEF a
<1>8. /\ a.orphaned <= a.reclaimed
      /\ a.reclaimed >= keys[k].reclaimed
  BY <1>2, <1>4, <1>6, <1>7 DEF KeySafe
<1>9. ASSUME Window > 0 /\ Requests > 0
      PROVE  a.requests + Slots(a) <= Requests + a.reclaimed
  <2>1. keys[k].requests + Slots(a) <= Requests + keys[k].reclaimed
    BY <1>2, <1>5, <1>9 DEF KeySafe
  <2> QED
    BY <1>6, <1>7, <1>8, <2>1
<1>10. KeySafe(a)
  BY <1>8, <1>9 DEF KeySafe
<1> QED
  BY <1>2, <1>3, <1>10 DEF a

\* Every operation that changes keys: key k gets the record b, the others advance,
\* and the held leases change to match.
LEMMA StepSafe ==
    ASSUME IInv, NEW k \in Keys, NEW b \in KeyState, KeySafe(b),
           windowStart' = WindowStartAt(now),
           keys' = [x \in Keys |-> IF x = k THEN b ELSE Advanced(x, now)],
           Slots(b) = Cardinality(HeldOn(k)'),
           \A x \in Keys \ {k} : HeldOn(x)' = HeldOn(x),
           now' \in Nat, holder' \in [Leases -> Keys \cup {NoKey}],
           takenAt' \in [Leases -> Nat], lost' \in SUBSET Leases,
           emitted' \in SUBSET Keys
    PROVE  IInv'
<1>1. \A x \in Keys : /\ Advanced(x, now) \in KeyState
                      /\ KeySafe(Advanced(x, now))
                      /\ Slots(Advanced(x, now)) = Cardinality(HeldOn(x))
  BY AdvancedSafe
<1>2. TypeOK'
  BY <1>1, WindowStartNat DEF IInv, TypeOK
<1>3. \A x \in Keys : keys'[x] = IF x = k THEN b ELSE Advanced(x, now)
  OBVIOUS
<1>4. SlotConservation'
  BY <1>1, <1>3 DEF SlotConservation, Slots, InFlight
<1>5. KeysSafe'
  BY <1>1, <1>3 DEF KeysSafe
<1> QED
  BY <1>2, <1>4, <1>5 DEF IInv

\* NewStore starts with nothing reserved and nothing charged.
LEMMA InitIInv == Init => IInv
<1> SUFFICES ASSUME Init PROVE IInv
  OBVIOUS
<1>1. FreshKey \in KeyState /\ FreshKey.leases = << >> /\ FreshKey.orphaned = 0
      /\ FreshKey.reclaimed = 0 /\ FreshKey.requests = 0
  BY DEF FreshKey, KeyState
<1>2. Slots(FreshKey) = 0
  BY <1>1 DEF Slots
<1>3. TypeOK
  BY <1>1 DEF Init, TypeOK
<1>4. \A k \in Keys : HeldOn(k) = {}
  BY KeysAssumption DEF Init, HeldOn
<1>5. SlotConservation
  BY <1>1, <1>4, FS_EmptySet DEF Init, SlotConservation, InFlight
<1>6. KeysSafe
  BY <1>1, <1>2, BudgetAssumption DEF Init, KeysSafe, KeySafe
<1> QED
  BY <1>3, <1>5, <1>6 DEF IInv

\* reserve, granted: admission left room for one more slot.
LEMMA ReserveSafe ==
    ASSUME IInv, NEW l \in Leases, NEW k \in Keys, Reserve(l, k)
    PROVE  IInv'
<1> DEFINE a == Advanced(k, now)
           b == [a EXCEPT !.leases = Append(@, now)]
<1>1. /\ a \in KeyState /\ KeySafe(a) /\ Slots(a) = Cardinality(HeldOn(k))
  BY AdvancedSafe
<1>2. UnderCaps(a)
  BY DEF Reserve, AdmissibleKeys, Admissible
<1>3. now \in Nat
  BY DEF IInv, TypeOK
<1> HIDE DEF a
<1>4. /\ b \in KeyState /\ Slots(b) = Slots(a) + 1
      /\ b.orphaned = a.orphaned /\ b.reclaimed = a.reclaimed
      /\ b.requests = a.requests
  BY <1>1, <1>3, AppendFacts
<1> HIDE DEF b
<1>5. KeySafe(b)
  <2>1. Window > 0 /\ Requests > 0 => a.requests + Len(a.leases) < Requests
    BY <1>2, BudgetAssumption DEF UnderCaps, InFlight
  <2>2. Slots(a) = Len(a.leases) + a.orphaned
    BY DEF Slots
  <2>3. a.orphaned <= a.reclaimed
    BY <1>1 DEF KeySafe
  <2>4. Window > 0 /\ Requests > 0 => b.requests + Slots(b) <= Requests + b.reclaimed
    BY <1>1, <1>4, <2>1, <2>2, <2>3, SlotsNat, BudgetAssumption
  <2> QED
    BY <1>4, <2>3, <2>4 DEF KeySafe
<1>6. HeldOn(k)' = HeldOn(k) \cup {l} /\ l \notin HeldOn(k)
  BY KeysAssumption DEF Reserve, HeldOn, IInv, TypeOK
<1>7. Slots(b) = Cardinality(HeldOn(k)')
  BY <1>1, <1>4, <1>6, HeldFinite, FS_AddElement
<1>8. \A x \in Keys \ {k} : HeldOn(x)' = HeldOn(x)
  BY KeysAssumption DEF Reserve, HeldOn, IInv, TypeOK
<1>9. /\ windowStart' = WindowStartAt(now)
      /\ keys' = [x \in Keys |-> IF x = k THEN b ELSE Advanced(x, now)]
  BY DEF Reserve, AdvanceAnd, b, a
<1>10. /\ now' \in Nat /\ holder' \in [Leases -> Keys \cup {NoKey}]
       /\ takenAt' \in [Leases -> Nat] /\ lost' \in SUBSET Leases
       /\ emitted' \in SUBSET Keys
  BY <1>3 DEF Reserve, IInv, TypeOK
<1> QED
  BY <1>4, <1>5, <1>7, <1>8, <1>9, <1>10, StepSafe

\* The lease being settled owns a slot, so releasing takes exactly one away.
LEMMA SettleHeld ==
    ASSUME IInv, NEW l \in Leases, NEW k \in Keys, holder[l] = k,
           holder' = [holder EXCEPT ![l] = NoKey]
    PROVE  /\ Cardinality(HeldOn(k)) > 0
           /\ Cardinality(HeldOn(k)') = Cardinality(HeldOn(k)) - 1
           /\ \A x \in Keys \ {k} : HeldOn(x)' = HeldOn(x)
           /\ holder' \in [Leases -> Keys \cup {NoKey}]
<1>1. HeldOn(k)' = HeldOn(k) \ {l} /\ l \in HeldOn(k)
  BY KeysAssumption DEF HeldOn, IInv, TypeOK
<1>2. Cardinality(HeldOn(k)') = Cardinality(HeldOn(k)) - 1
  BY <1>1, HeldFinite, FS_RemoveElement
<1>3. Cardinality(HeldOn(k)) # 0
  BY <1>1, HeldFinite, FS_EmptySet
<1>4. \A x \in Keys \ {k} : HeldOn(x)' = HeldOn(x)
  BY KeysAssumption DEF HeldOn, IInv, TypeOK
<1>5. holder' \in [Leases -> Keys \cup {NoKey}]
  BY DEF IInv, TypeOK
<1> QED
  BY <1>2, <1>3, <1>4, <1>5, HeldFinite

\* Settle with OutcomeCompleted: one slot becomes one charged request.
LEMMA CompleteSafe ==
    ASSUME IInv, NEW l \in Leases, NEW n \in Reports \cup {TokensUnknown},
           Complete(l, n)
    PROVE  IInv'
<1>0. PICK k \in Keys : k = holder[l]
  BY DEF Complete, IInv, TypeOK
<1> DEFINE a == Advanced(k, now)
           b == SettleCompleted(a, n)
<1>1. /\ holder' = [holder EXCEPT ![l] = NoKey]
      /\ windowStart' = WindowStartAt(now)
      /\ keys' = [x \in Keys |-> IF x = k THEN b ELSE Advanced(x, now)]
  BY <1>0 DEF Complete, AdvanceAnd
<1>2. /\ Cardinality(HeldOn(k)) > 0
      /\ Cardinality(HeldOn(k)') = Cardinality(HeldOn(k)) - 1
      /\ \A x \in Keys \ {k} : HeldOn(x)' = HeldOn(x)
      /\ holder' \in [Leases -> Keys \cup {NoKey}]
  BY <1>0, <1>1, SettleHeld
<1>3. /\ now' \in Nat /\ takenAt' \in [Leases -> Nat]
      /\ lost' \in SUBSET Leases /\ emitted' \in SUBSET Keys
  BY <1>0 DEF Complete, IInv, TypeOK
<1>4. a \in KeyState /\ KeySafe(a) /\ Slots(a) = Cardinality(HeldOn(k))
  BY <1>2, AdvancedSafe
<1> HIDE DEF a
<1>5. /\ Release(a) \in KeyState /\ Slots(Release(a)) = Slots(a) - 1
      /\ Release(a).orphaned <= a.orphaned
      /\ Release(a).reclaimed = a.reclaimed
      /\ Release(a).requests = a.requests
  BY <1>2, <1>4, ReleaseFacts
<1>6. n \in Nat \cup {TokensUnknown}
  BY InputAssumption
<1>7. /\ b \in KeyState /\ SameSlots(Release(a), b)
      /\ b.requests = Release(a).requests + 1
  BY <1>5, <1>6, ChargeFacts DEF SettleCompleted
<1> HIDE DEF b
<1>8. Slots(b) = Slots(a) - 1
  BY <1>5, <1>7 DEF Slots, SameSlots
<1>9. KeySafe(b)
  BY <1>4, <1>5, <1>7, <1>8, SlotsNat, BudgetAssumption DEF KeySafe, SameSlots
<1> QED
  BY <1>1, <1>2, <1>3, <1>4, <1>7, <1>8, <1>9, StepSafe

\* Settle with OutcomeFailed: one slot is given back and nothing is charged.
LEMMA FailSafe ==
    ASSUME IInv, NEW l \in Leases, Fail(l)
    PROVE  IInv'
<1>0. PICK k \in Keys : k = holder[l]
  BY DEF Fail, IInv, TypeOK
<1> DEFINE a == Advanced(k, now)
           b == Release(a)
<1>1. /\ holder' = [holder EXCEPT ![l] = NoKey]
      /\ windowStart' = WindowStartAt(now)
      /\ keys' = [x \in Keys |-> IF x = k THEN b ELSE Advanced(x, now)]
  BY <1>0 DEF Fail, AdvanceAnd
<1>2. /\ Cardinality(HeldOn(k)) > 0
      /\ Cardinality(HeldOn(k)') = Cardinality(HeldOn(k)) - 1
      /\ \A x \in Keys \ {k} : HeldOn(x)' = HeldOn(x)
      /\ holder' \in [Leases -> Keys \cup {NoKey}]
  BY <1>0, <1>1, SettleHeld
<1>3. /\ now' \in Nat /\ takenAt' \in [Leases -> Nat]
      /\ lost' \in SUBSET Leases /\ emitted' \in SUBSET Keys
  BY <1>0 DEF Fail, IInv, TypeOK
<1>4. a \in KeyState /\ KeySafe(a) /\ Slots(a) = Cardinality(HeldOn(k))
  BY <1>2, AdvancedSafe
<1> HIDE DEF a
<1>5. /\ b \in KeyState /\ Slots(b) = Slots(a) - 1
      /\ b.orphaned <= a.orphaned
      /\ b.reclaimed = a.reclaimed
      /\ b.requests = a.requests
  BY <1>2, <1>4, ReleaseFacts
<1> HIDE DEF b
<1>6. KeySafe(b)
  BY <1>4, <1>5, SlotsNat, BudgetAssumption DEF KeySafe
<1> QED
  BY <1>1, <1>2, <1>3, <1>4, <1>5, <1>6, StepSafe

\* A retirement, whoever asks for it, moves no slot and no counter.
LEMMA RetireAtSafe ==
    ASSUME IInv, NEW k \in Keys, NEW u \in Int, RetireAt(k, u)
    PROVE  IInv'
<1> DEFINE a == Advanced(k, now)
           b == RetireKey(a, u)
<1>1. /\ windowStart' = WindowStartAt(now)
      /\ keys' = [x \in Keys |-> IF x = k THEN b ELSE Advanced(x, now)]
      /\ emitted' \in SUBSET Keys
      /\ UNCHANGED <<now, holder, takenAt, lost>>
  BY DEF RetireAt, AdvanceAnd
<1>2. a \in KeyState /\ KeySafe(a) /\ Slots(a) = Cardinality(HeldOn(k))
  BY AdvancedSafe
<1>3. now \in Nat
  BY DEF IInv, TypeOK
<1> HIDE DEF a
<1>4. b \in KeyState /\ SameSlots(a, b) /\ b.requests = a.requests
  BY <1>2, <1>3, RetireFacts
<1> HIDE DEF b
<1>5. KeySafe(b) /\ Slots(b) = Slots(a)
  BY <1>2, <1>4 DEF KeySafe, SameSlots, Slots
<1>6. \A x : HeldOn(x)' = HeldOn(x)
  BY <1>1 DEF HeldOn
<1>7. /\ now' \in Nat /\ holder' \in [Leases -> Keys \cup {NoKey}]
      /\ takenAt' \in [Leases -> Nat] /\ lost' \in SUBSET Leases
  BY <1>1 DEF IInv, TypeOK
<1> QED
  BY <1>1, <1>2, <1>4, <1>5, <1>6, <1>7, StepSafe

\* advanceLocked alone keeps the invariant.
LEMMA ObserveSafe ==
    ASSUME IInv, Observe
    PROVE  IInv'
<1>1. \A x \in Keys : /\ Advanced(x, now) \in KeyState
                      /\ KeySafe(Advanced(x, now))
                      /\ Slots(Advanced(x, now)) = Cardinality(HeldOn(x))
  BY AdvancedSafe
<1>2. TypeOK'
  BY <1>1, WindowStartNat DEF Observe, IInv, TypeOK
<1>3. \A x \in Keys : keys'[x] = Advanced(x, now) /\ HeldOn(x)' = HeldOn(x)
  BY DEF Observe, HeldOn
<1>4. SlotConservation' /\ KeysSafe'
  BY <1>1, <1>3 DEF SlotConservation, KeysSafe, Slots, InFlight
<1> QED
  BY <1>2, <1>4 DEF IInv

\* A step that touches neither the keys nor the held leases.
LEMMA FrameSafe ==
    ASSUME IInv, UNCHANGED <<windowStart, keys, holder, takenAt>>,
           now' \in Nat, lost' \in SUBSET Leases, emitted' \in SUBSET Keys
    PROVE  IInv'
<1>1. \A x : HeldOn(x)' = HeldOn(x)
  BY DEF HeldOn
<1>2. TypeOK'
  BY DEF IInv, TypeOK
<1>3. SlotConservation' /\ KeysSafe'
  BY <1>1 DEF IInv, SlotConservation, KeysSafe
<1> QED
  BY <1>2, <1>3 DEF IInv

\* Every step of the store keeps the inductive invariant.
LEMMA NextSafe == IInv /\ [Next]_vars => IInv'
<1> SUFFICES ASSUME IInv, [Next]_vars PROVE IInv'
  OBVIOUS
<1>1. CASE Tick
  BY <1>1, FrameSafe DEF Tick, IInv, TypeOK
<1>2. CASE Observe
  BY <1>2, ObserveSafe
<1>3. CASE \E l \in Leases, k \in Keys : Reserve(l, k)
  BY <1>3, ReserveSafe
<1>4. CASE \E l \in Leases, n \in Reports \cup {TokensUnknown} : Complete(l, n)
  BY <1>4, CompleteSafe
<1>5. CASE \E l \in Leases : Fail(l)
  BY <1>5, FailSafe
<1>6. CASE \E l \in Leases : Lose(l)
  BY <1>6, FrameSafe DEF Lose, IInv, TypeOK
<1>7. CASE \E k \in Keys, d \in Cooldowns : RetireWithReason(k, d)
  <2>1. PICK k \in Keys, d \in Cooldowns : RetireAt(k, now + d)
    BY <1>7 DEF RetireWithReason
  <2>2. now + d \in Int
    BY InputAssumption DEF IInv, TypeOK
  <2> QED
    BY <2>1, <2>2, RetireAtSafe
<1>8. CASE \E k \in Keys : RetireForWindow(k)
  <2> DEFINE u == IF Window > 0 THEN WindowStartAt(now) + Window
                                ELSE now + QuotaCooldown
  <2>1. PICK k \in Keys : RetireAt(k, u)
    BY <1>8 DEF RetireForWindow
  <2>2. u \in Int
    BY WindowStartNat, BudgetAssumption, TimeAssumption DEF IInv, TypeOK
  <2> HIDE DEF u
  <2> QED
    BY <2>1, <2>2, RetireAtSafe
<1>9. CASE UNCHANGED vars
  BY <1>9, FrameSafe DEF vars, IInv, TypeOK
<1> QED
  BY <1>1, <1>2, <1>3, <1>4, <1>5, <1>6, <1>7, <1>8, <1>9 DEF Next

\* The inductive invariant holds throughout.
THEOREM IInvHolds == Spec => []IInv
  BY InitIInv, NextSafe, PTL DEF Spec

\* Every variable of the store keeps its type, for every budget and timeout.
THEOREM TypeCorrect == Spec => []TypeOK
<1>1. IInv => TypeOK
  BY DEF IInv
<1> QED
  BY IInvHolds, <1>1, PTL

\* No interleaving of settlements, reclamations and rolls loses or invents a
\* slot (releaseLocked, reclaimStaleLocked).
THEOREM SlotsConserved == Spec => []SlotConservation
<1>1. IInv => SlotConservation
  BY DEF IInv
<1> QED
  BY IInvHolds, <1>1, PTL

\* The request cap is exact up to the reservations reclaimed while their request
\* was still running (admissibleLocked).
THEOREM RequestCapHolds == Spec => []RequestCapBound
<1>1. IInv => RequestCapBound
  <2> SUFFICES ASSUME IInv, Window > 0, Requests > 0, NEW k \in Keys
               PROVE  keys[k].requests + InFlight(keys[k]) + keys[k].orphaned
                        <= Requests + keys[k].reclaimed
    BY DEF RequestCapBound
  <2>1. keys[k] \in KeyState /\ KeySafe(keys[k])
    BY DEF IInv, TypeOK, KeysSafe
  <2> QED
    BY <2>1, SlotsNat DEF KeySafe, Slots, InFlight
<1> QED
  BY IInvHolds, <1>1, PTL

-----------------------------------------------------------------------------
(* Leaving rotation and coming back.                                       *)

\* b is as available as a.
SameFlags(a, b) ==
    b.drained = a.drained /\ b.softRetired = a.softRetired /\ b.retiredUntil = a.retiredUntil

\* Reclaiming slots, taking one and giving one back do not touch availability.
LEMMA SlotOpsKeepFlags ==
    ASSUME NEW ks \in KeyState, NEW t
    PROVE  /\ SameFlags(ks, ReclaimStale(ks, t)) /\ ReclaimStale(ks, t).tokens = ks.tokens
           /\ SameFlags(ks, [ks EXCEPT !.leases = Append(@, t)])
           /\ SameFlags(ks, Release(ks)) /\ Release(ks).tokens = ks.tokens
BY DEF KeyState, SameFlags, ReclaimStale, Release

\* A roll clears both caps, and a retirement that is over.
LEMMA RollFlags ==
    ASSUME NEW ks \in KeyState, NEW t
    PROVE  /\ ~CappedOut(RollKey(ks, t)) /\ RollKey(ks, t).tokens = 0
           /\ RollKey(ks, t).retiredUntil = IF ks.retiredUntil > t THEN ks.retiredUntil ELSE 0
BY DEF KeyState, RollKey, CappedOut

\* What advanceLocked makes of a key's availability.
LEMMA AdvancedFlags ==
    ASSUME keys \in [Keys -> KeyState], NEW k \in Keys, NEW t
    PROVE  /\ WindowOver(t) =>
                  /\ ~CappedOut(Advanced(k, t)) /\ Advanced(k, t).tokens = 0
                  /\ Advanced(k, t).retiredUntil
                        = IF keys[k].retiredUntil > t THEN keys[k].retiredUntil ELSE 0
           /\ ~WindowOver(t) =>
                  /\ CappedOut(Advanced(k, t)) <=> CappedOut(keys[k])
                  /\ Advanced(k, t).retiredUntil = keys[k].retiredUntil
                  /\ Advanced(k, t).tokens = keys[k].tokens
<1> DEFINE r == ReclaimStale(keys[k], t)
<1>1. keys[k] \in KeyState /\ r \in KeyState
  BY ReclaimFacts
<1>2. SameFlags(keys[k], r) /\ r.tokens = keys[k].tokens
  BY <1>1, SlotOpsKeepFlags
<1>3. Advanced(k, t) = IF WindowOver(t) THEN RollKey(r, t) ELSE r
  BY DEF Advanced
<1> HIDE DEF r
<1>4. CASE WindowOver(t)
  BY <1>1, <1>2, <1>3, <1>4, RollFlags DEF SameFlags
<1>5. CASE ~WindowOver(t)
  BY <1>1, <1>2, <1>3, <1>5 DEF SameFlags, CappedOut
<1> QED
  BY <1>4, <1>5

\* A settlement may cap a key out; it does not touch an explicit retirement.
LEMMA SettleFlags ==
    ASSUME NEW ks \in KeyState, NEW n \in Nat \cup {TokensUnknown}
    PROVE  SettleCompleted(ks, n).retiredUntil = ks.retiredUntil
<1>1. Release(ks) \in KeyState /\ Release(ks).retiredUntil = ks.retiredUntil
  BY ReleaseFacts, SlotOpsKeepFlags DEF SameFlags
<1>2. \A s \in KeyState : ApplyCaps(s).retiredUntil = s.retiredUntil
  BY DEF ApplyCaps, KeyState
<1>3. Charge(Release(ks), n) \in KeyState
  <2> DEFINE s == Release(ks)
             q == s.requests + 1
             u == s.tokens + IF n = TokensUnknown THEN EstimateTokens ELSE n
             e == s.estimated \/ n = TokensUnknown
  <2> HIDE DEF s
  <2>1. s \in KeyState
    BY <1>1 DEF s
  <2>2. Charge(s, n) = [s EXCEPT !.requests = q, !.tokens = u, !.estimated = e]
    BY DEF Charge
  <2>3. q \in Nat /\ u \in Nat /\ e \in BOOLEAN
    BY <2>1, SlotsNat, BudgetAssumption
  <2> HIDE DEF q, u, e
  <2> QED
    BY <2>1, <2>2, <2>3 DEF KeyState, s
<1>4. Charge(Release(ks), n).retiredUntil = Release(ks).retiredUntil
  BY <1>1 DEF Charge, KeyState
<1> QED
  BY <1>1, <1>2, <1>3, <1>4 DEF SettleCompleted

\* A retirement leaves the caps alone and never moves an earlier one in.
LEMMA RetireFlags ==
    ASSUME NEW ks \in KeyState, NEW u \in Int, now \in Nat
    PROVE  /\ CappedOut(RetireKey(ks, u)) <=> CappedOut(ks)
           /\ RetireKey(ks, u).retiredUntil >= ks.retiredUntil
           /\ RetireKey(ks, u).retiredUntil > now => u > now \/ ks.retiredUntil > now
BY DEF RetireKey, KeyState, CappedOut

\* What an operation does to one key beyond advancing it: whatever takes the
\* key out of rotation is reported, and no retirement is shortened.
KeyMoves(k) ==
    LET a == Advanced(k, now) IN
    /\ keys'[k].retiredUntil >= a.retiredUntil
    /\ CappedOut(keys'[k]) /\ ~CappedOut(a) => k \in emitted'
    /\ keys'[k].retiredUntil > now /\ a.retiredUntil <= now => k \in emitted'

\* A key an operation leaves as available as it was, once advanced.
LEMMA StaysPut ==
    ASSUME IInv, NEW k \in Keys, SameFlags(Advanced(k, now), keys'[k])
    PROVE  KeyMoves(k)
<1>1. Advanced(k, now).retiredUntil \in Nat /\ now \in Nat
  BY AdvancedSafe, SlotsNat DEF IInv, TypeOK
<1> QED
  BY <1>1 DEF KeyMoves, SameFlags, CappedOut

\* Every operation advances the route and moves its keys in this way, or leaves
\* them alone.
LEMMA AllKeysMove ==
    ASSUME IInv, Next
    PROVE  \/ UNCHANGED <<windowStart, keys>> /\ now' \in {now, now + 1}
           \/ /\ windowStart' = WindowStartAt(now) /\ now' = now
              /\ \A k \in Keys : KeyMoves(k)
<1>1. ASSUME NEW k \in Keys
      PROVE  Advanced(k, now) \in KeyState /\ SameFlags(Advanced(k, now), Advanced(k, now))
  BY AdvancedSafe DEF SameFlags
<1>2. now \in Nat
  BY DEF IInv, TypeOK
<1>3. CASE Observe
  BY <1>1, <1>3, StaysPut DEF Observe
<1>4. ASSUME NEW l \in Leases, NEW k \in Keys, Reserve(l, k)
      PROVE  windowStart' = WindowStartAt(now) /\ now' = now /\ \A x \in Keys : KeyMoves(x)
  BY <1>1, <1>4, StaysPut, SlotOpsKeepFlags DEF Reserve, AdvanceAnd
<1>5. ASSUME NEW l \in Leases, NEW n \in Reports \cup {TokensUnknown}, Complete(l, n)
      PROVE  windowStart' = WindowStartAt(now) /\ now' = now /\ \A x \in Keys : KeyMoves(x)
  <2>1. PICK k \in Keys : k = holder[l]
    BY <1>5 DEF Complete, IInv, TypeOK
  <2> DEFINE a == Advanced(k, now)
             b == SettleCompleted(a, n)
  <2>2. /\ windowStart' = WindowStartAt(now) /\ now' = now
        /\ keys' = [x \in Keys |-> IF x = k THEN b ELSE Advanced(x, now)]
        /\ emitted' = IF CappedOut(b) /\ ~CappedOut(a) THEN {k} ELSE {}
    BY <1>5, <2>1 DEF Complete, AdvanceAnd
  <2>3. a \in KeyState /\ a.retiredUntil \in Nat
    BY <1>1, SlotsNat
  <2>4. b.retiredUntil = a.retiredUntil
    BY <2>3, SettleFlags, InputAssumption
  <2> HIDE DEF b
  <2>5. KeyMoves(k)
    BY <1>2, <2>2, <2>3, <2>4 DEF KeyMoves
  <2> QED
    BY <1>1, <2>2, <2>5, StaysPut
<1>6. ASSUME NEW l \in Leases, Fail(l)
      PROVE  windowStart' = WindowStartAt(now) /\ now' = now /\ \A x \in Keys : KeyMoves(x)
  BY <1>1, <1>6, StaysPut, SlotOpsKeepFlags DEF Fail, AdvanceAnd
<1>7. ASSUME NEW k \in Keys, NEW u \in Int, RetireAt(k, u)
      PROVE  windowStart' = WindowStartAt(now) /\ now' = now /\ \A x \in Keys : KeyMoves(x)
  <2> DEFINE a == Advanced(k, now)
             b == RetireKey(a, u)
  <2>1. /\ windowStart' = WindowStartAt(now) /\ now' = now
        /\ keys' = [x \in Keys |-> IF x = k THEN b ELSE Advanced(x, now)]
        /\ emitted' = IF u > now /\ a.retiredUntil <= now THEN {k} ELSE {}
    BY <1>7 DEF RetireAt, AdvanceAnd
  <2>2. a \in KeyState /\ a.retiredUntil \in Nat
    BY <1>1, SlotsNat
  <2>3. /\ CappedOut(b) <=> CappedOut(a)
        /\ b.retiredUntil >= a.retiredUntil
        /\ b.retiredUntil > now => u > now \/ a.retiredUntil > now
    BY <1>2, <2>2, RetireFlags
  <2> HIDE DEF b
  <2>4. KeyMoves(k)
    BY <1>2, <2>1, <2>2, <2>3 DEF KeyMoves
  <2> QED
    BY <1>1, <2>1, <2>4, StaysPut
<1>8. CASE Tick \/ \E l \in Leases : Lose(l)
  BY <1>8 DEF Tick, Lose
<1>9. CASE \E k \in Keys, d \in Cooldowns : RetireWithReason(k, d)
  <2>1. PICK k \in Keys, d \in Cooldowns : RetireAt(k, now + d)
    BY <1>9 DEF RetireWithReason
  <2>2. now + d \in Int
    BY <1>2, InputAssumption
  <2> QED
    BY <1>7, <2>1, <2>2
<1>10. CASE \E k \in Keys : RetireForWindow(k)
  <2> DEFINE u == IF Window > 0 THEN WindowStartAt(now) + Window ELSE now + QuotaCooldown
  <2>1. PICK k \in Keys : RetireAt(k, u)
    BY <1>10 DEF RetireForWindow
  <2>2. u \in Int
    BY <1>2, WindowStartNat, BudgetAssumption, TimeAssumption DEF IInv
  <2> HIDE DEF u
  <2> QED
    BY <1>7, <2>1, <2>2
<1> QED
  BY <1>3, <1>4, <1>5, <1>6, <1>8, <1>9, <1>10 DEF Next

\* retireLocked and rollLocked: a retirement in force is only ever extended.
THEOREM RetirementsOnlyExtend == Spec => RetirementNeverShortened
<1>1. IInv /\ [Next]_vars =>
          [\A k \in Keys : keys[k].retiredUntil > now
                => keys'[k].retiredUntil >= keys[k].retiredUntil]_vars
  <2> SUFFICES ASSUME IInv, Next, NEW k \in Keys, keys[k].retiredUntil > now
               PROVE  keys'[k].retiredUntil >= keys[k].retiredUntil
    OBVIOUS
  <2>1. keys \in [Keys -> KeyState] /\ keys[k].retiredUntil \in Nat
    BY SlotsNat DEF IInv, TypeOK
  <2>2. Advanced(k, now).retiredUntil = keys[k].retiredUntil
    BY <2>1, AdvancedFlags
  <2>3. CASE UNCHANGED keys
    BY <2>1, <2>3
  <2>4. CASE KeyMoves(k)
    BY <2>2, <2>4 DEF KeyMoves
  <2> QED
    BY <2>3, <2>4, AllKeysMove
<1> QED
  BY IInvHolds, <1>1, PTL DEF Spec, RetirementNeverShortened

\* After an operation the window of the store is the current one.
LEMMA WindowIsCurrent ==
    ASSUME TypeOK, windowStart' = WindowStartAt(now), now' = now
    PROVE  ~WindowOver(now)'
<1>1. Window \in Nat /\ now \in Nat /\ windowStart \in Nat
  BY BudgetAssumption DEF TypeOK
<1>2. CASE WindowOver(now)
  <2> DEFINE e == now - windowStart
             q == e \div Window
  <2>1. Window > 0 /\ e \in Nat
    BY <1>1, <1>2 DEF WindowOver
  <2> HIDE DEF e
  <2>2. q \in Int /\ e < Window * q + Window
    BY <1>1, <2>1
  <2>3. windowStart' = windowStart + q * Window
    BY <1>2 DEF WindowStartAt, e
  <2> HIDE DEF q
  <2>4. q * Window = Window * q /\ Window * q \in Int
    BY <1>1, <2>2
  <2>5. now' - windowStart' < Window
    BY <1>1, <2>2, <2>3, <2>4 DEF e
  <2>6. windowStart' \in Int
    BY <1>1, <2>3, <2>4
  <2> QED
    BY <1>1, <2>5, <2>6 DEF WindowOver
<1>3. CASE ~WindowOver(now)
  BY <1>3 DEF WindowStartAt, WindowOver
<1> QED
  BY <1>2, <1>3

\* applyCapsLocked, retireLocked and their callers: the operation that takes a
\* key out of rotation reports it.
THEOREM DeparturesReported == Spec => LeavingIsReported
<1>1. IInv /\ IInv' /\ [Next]_vars =>
          [\A k \in Keys : k \in SelectableKeys /\ k \notin SelectableKeys'
                => k \in emitted']_vars
  <2> SUFFICES ASSUME IInv, IInv', Next, NEW k \in Keys, k \in SelectableKeys,
                      k \notin SelectableKeys'
               PROVE  k \in emitted'
    OBVIOUS
  <2>1. keys \in [Keys -> KeyState] /\ keys[k] \in KeyState /\ keys'[k] \in KeyState
        /\ now \in Nat /\ windowStart \in Nat
    BY DEF IInv, TypeOK
  <2> DEFINE a == Advanced(k, now)
             r == ReclaimStale(keys'[k], now')
             b == IF WindowOver(now)' THEN RollKey(r, now') ELSE r
  <2>2. ~CappedOut(a) /\ a.retiredUntil <= now
    BY DEF SelectableKeys, SelectableAt, CappedOut
  <2>3. ~(~CappedOut(b) /\ b.retiredUntil <= now')
    BY DEF SelectableKeys, SelectableAt, CappedOut, Advanced
  <2>4. r \in KeyState /\ SameFlags(keys'[k], r)
    BY <2>1, ReclaimFacts, SlotOpsKeepFlags
  <2> HIDE DEF r
  <2>5. /\ WindowOver(now)' => /\ ~CappedOut(b)
                               /\ b.retiredUntil = IF r.retiredUntil > now' THEN r.retiredUntil ELSE 0
        /\ ~WindowOver(now)' => b = r
    BY <2>4, RollFlags
  <2> HIDE DEF b
  <2>6. CASE UNCHANGED <<windowStart, keys>> /\ now' \in {now, now + 1}
    <3>1. r.retiredUntil = keys[k].retiredUntil /\ (CappedOut(r) <=> CappedOut(keys[k]))
          /\ r.retiredUntil \in Nat
      BY <2>1, <2>4, <2>6, SlotsNat DEF SameFlags, CappedOut
    <3>2. keys[k].retiredUntil <= now
      BY <2>1, <2>2, AdvancedFlags, SlotsNat
    <3>3. ~WindowOver(now)' => ~CappedOut(keys[k])
      <4>1. windowStart' = windowStart /\ Window \in Nat /\ (now' = now \/ now' = now + 1)
        BY <2>6, BudgetAssumption
      <4>2. WindowOver(now)' <=> Window > 0 /\ now' - windowStart >= Window
        BY <4>1 DEF WindowOver
      <4>3. ~WindowOver(now)' => ~WindowOver(now)
        BY <2>1, <4>1, <4>2 DEF WindowOver
      <4> QED
        BY <2>1, <2>2, <4>3, AdvancedFlags
    <3>4. b.retiredUntil <= now'
      BY <2>1, <2>5, <2>6, <3>1, <3>2
    <3> QED
      BY <2>3, <2>5, <3>1, <3>3, <3>4
  <2>7. CASE windowStart' = WindowStartAt(now) /\ now' = now /\ KeyMoves(k)
    <3>1. ~WindowOver(now)'
      BY <2>7, WindowIsCurrent DEF IInv
    <3>2. CappedOut(b) <=> CappedOut(keys'[k])
      BY <2>4, <2>5, <3>1 DEF SameFlags, CappedOut
    <3>3. b.retiredUntil = keys'[k].retiredUntil /\ keys'[k].retiredUntil \in Nat
      BY <2>1, <2>4, <2>5, <3>1, SlotsNat DEF SameFlags
    <3> QED
      BY <2>1, <2>2, <2>3, <2>7, <3>2, <3>3 DEF KeyMoves
  <2> QED
    BY <2>6, <2>7, AllKeysMove
<1> QED
  BY IInvHolds, <1>1, PTL DEF Spec, LeavingIsReported

-----------------------------------------------------------------------------
(* A guess never forgets a running request.                                *)

\* A nonempty set of naturals has a smallest element.
LEMMA NatHasLeast ==
    ASSUME NEW S \in SUBSET Nat, S # {}
    PROVE  \E x \in S : \A y \in S : x <= y
<1>1. \E x \in S : \A y \in S : ~(<<y, x>> \in OpToRel(<, Nat))
  BY NatLessThanWellFounded, WFMin
<1>2. ASSUME NEW x \in Nat, NEW y \in Nat, y < x
      PROVE  <<y, x>> \in OpToRel(<, Nat)
  BY <1>2 DEF OpToRel
<1>3. PICK x \in S : \A y \in S : ~(<<y, x>> \in OpToRel(<, Nat))
  BY <1>1
<1>4. ASSUME NEW y \in S PROVE x <= y
  <2>1. ~(y < x)
    BY <1>2, <1>3
  <2> QED
    BY <2>1
<1> QED
  BY <1>4

\* The leading run of expired entries is a prefix of its length, all expired.
LEMMA StalePrefix ==
    ASSUME NEW ls \in Seq(Nat), NEW t \in Nat
    PROVE  LET n == Cardinality(LeadingStale(ls, t)) IN
           /\ n \in 0..Len(ls)
           /\ \A i \in 1..n : ls[i] + LeaseTimeout <= t
<1> DEFINE S == LeadingStale(ls, t)
<1>1. /\ \A i \in S : i \in 1..Len(ls) /\ (\A j \in 1..i : j \in S)
      /\ \A i \in S : ls[i] + LeaseTimeout <= t
      /\ Len(ls) \in Nat
  BY DEF LeadingStale
<1> HIDE DEF S
<1>2. PICK p \in {i \in Nat : i > 0 /\ i \notin S} :
          \A y \in {i \in Nat : i > 0 /\ i \notin S} : p <= y
  <2>1. Len(ls) + 1 \in {i \in Nat : i > 0 /\ i \notin S}
    BY <1>1
  <2> QED
    BY <2>1, NatHasLeast
<1>3. S = 1..(p - 1)
  <2>1. ASSUME NEW i \in S PROVE i \in 1..(p - 1)
    BY <1>1, <1>2, <2>1
  <2>2. ASSUME NEW i \in 1..(p - 1) PROVE i \in S
    BY <1>2, <2>2
  <2> QED
    BY <2>1, <2>2
<1>4. Cardinality(S) = p - 1
  <2>1. \A b \in Int : Cardinality(1..b) = IF 1 > b THEN 0 ELSE b - 1 + 1
    BY FS_Interval, 1 \in Int, Zenon
  <2> QED
    BY <1>2, <1>3, <2>1
<1>5. Cardinality(S) \in 0..Len(ls)
  BY StaleCount DEF S
<1> QED
  BY <1>1, <1>3, <1>4, <1>5 DEF S

\* ls counts the reservations H taken at tk, at time t: at most Len(ls) - i of
\* them are younger than the i-th entry, however settlements were guessed, and
\* at most Len(ls) are within their lease timeout.
Counts(H, tk, ls, t) ==
    /\ \A l \in H : tk[l] <= t
    /\ \A i \in 1..Len(ls) : Cardinality({l \in H : tk[l] > ls[i]}) <= Len(ls) - i
    /\ Cardinality({l \in H : tk[l] + LeaseTimeout > t}) <= Len(ls)

\* A subset of a finite set has no more elements.
LEMMA FewerOf ==
    ASSUME NEW S, IsFiniteSet(S), NEW T, T \subseteq S
    PROVE  /\ IsFiniteSet(T) /\ Cardinality(T) \in Nat /\ Cardinality(S) \in Nat
           /\ Cardinality(T) <= Cardinality(S)
  BY FS_Subset, FS_CardinalityType

\* Time passing makes fewer reservations run within their timeout.
LEMMA CountsLater ==
    ASSUME NEW H, IsFiniteSet(H), NEW tk, \A l \in H : tk[l] \in Nat,
           NEW ls \in Seq(Nat), NEW t \in Nat, NEW u \in Nat, t <= u, Counts(H, tk, ls, t)
    PROVE  Counts(H, tk, ls, u)
<1> DEFINE A == {l \in H : tk[l] + LeaseTimeout > t}
           B == {l \in H : tk[l] + LeaseTimeout > u}
<1>1. B \subseteq A /\ A \subseteq H
  BY TimeAssumption
<1>2. Cardinality(B) <= Cardinality(A) /\ Cardinality(A) \in Nat /\ Cardinality(B) \in Nat
  BY <1>1, FewerOf
<1>3. Cardinality(A) <= Len(ls) /\ Len(ls) \in Nat
  BY DEF Counts
<1> HIDE DEF A, B
<1>4. Cardinality(B) <= Len(ls)
  BY <1>2, <1>3
<1>5. \A l \in H : tk[l] <= u
  BY DEF Counts
<1> QED
  BY <1>4, <1>5 DEF Counts, B

\* reclaimStaleLocked drops only entries that no running request is left for.
LEMMA CountsReclaim ==
    ASSUME NEW H, IsFiniteSet(H), NEW tk, \A l \in H : tk[l] \in Nat,
           NEW ks \in KeyState, NEW t \in Nat, Counts(H, tk, ks.leases, t)
    PROVE  Counts(H, tk, ReclaimStale(ks, t).leases, t)
<1> DEFINE ls == ks.leases
           n == Cardinality(LeadingStale(ls, t))
           m == SubSeq(ls, n + 1, Len(ls))
<1>0. ls \in Seq(Nat) /\ Len(ls) \in Nat
  BY DEF KeyState
<1>1. ls \in Seq(Nat) /\ Len(ls) \in Nat /\ ReclaimStale(ks, t).leases = m
  <2>1. ReclaimStale(ks, t) = [ks EXCEPT !.leases = SubSeq(@, n + 1, Len(@)),
                                         !.orphaned = @ + n, !.reclaimed = @ + n]
    BY DEF ReclaimStale
  <2> HIDE DEF n
  <2> QED
    BY <1>0, <2>1 DEF KeyState
<1>2. n \in 0..Len(ls) /\ \A i \in 1..n : ls[i] + LeaseTimeout <= t
  BY <1>1, StalePrefix
<1> HIDE DEF n
<1>3. Len(m) = Len(ls) - n /\ \A i \in 1..Len(m) : m[i] = ls[n + i]
  <2>1. \A i \in (n + 1)..Len(ls) : ls[i] \in Nat
    BY <1>1, <1>2, ElementOfSeq
  <2>2. /\ Len(m) = IF n + 1 <= Len(ls) THEN Len(ls) - (n + 1) + 1 ELSE 0
        /\ \A i \in 1..(Len(ls) - (n + 1) + 1) : m[i] = ls[n + 1 + i - 1]
    BY <1>1, <1>2, <2>1, SubSeqProperties
  <2> QED
    BY <1>1, <1>2, <2>2
<1> HIDE DEF ls, m
<1>4. ASSUME NEW i \in 1..Len(m)
      PROVE  Cardinality({l \in H : tk[l] > m[i]}) <= Len(m) - i
  <2>1. n + i \in 1..Len(ls) /\ m[i] = ls[n + i]
    BY <1>1, <1>2, <1>3
  <2>2. Cardinality({l \in H : tk[l] > ls[n + i]}) <= Len(ls) - (n + i)
    BY <2>1 DEF Counts, ls
  <2>3. Cardinality({l \in H : tk[l] > m[i]}) <= Len(ls) - (n + i)
    BY <2>1, <2>2
  <2>4. Cardinality({l \in H : tk[l] > m[i]}) \in Nat
    BY FewerOf
  <2> QED
    BY <1>1, <1>2, <1>3, <2>3, <2>4
<1> DEFINE R == {l \in H : tk[l] + LeaseTimeout > t}
<1>5. Cardinality(R) <= Len(m)
  <2>1. CASE n = 0
    BY <1>1, <1>2, <1>3, <2>1 DEF Counts, ls
  <2>2. CASE n # 0
    <3> DEFINE A == {l \in H : tk[l] > ls[n]}
    <3>1. n \in 1..Len(ls) /\ n \in 1..n /\ ls[n] + LeaseTimeout <= t /\ ls[n] \in Nat
      BY <1>1, <1>2, <2>2, ElementOfSeq
    <3>2. R \subseteq A /\ A \subseteq H
      BY <3>1, TimeAssumption
    <3>3. Cardinality(A) <= Len(ls) - n
      BY <3>1 DEF Counts, ls
    <3>4. Cardinality(R) <= Cardinality(A) /\ Cardinality(R) \in Nat /\ Cardinality(A) \in Nat
      BY <3>2, FewerOf
    <3> HIDE DEF A, R
    <3> QED
      BY <1>1, <1>2, <1>3, <3>3, <3>4
  <2> QED
    BY <2>1, <2>2
<1> QED
  BY <1>1, <1>4, <1>5 DEF Counts

\* reserve adds one entry for the one reservation it grants.
LEMMA CountsAppend ==
    ASSUME NEW H, IsFiniteSet(H), NEW tk, \A l \in H : tk[l] \in Nat,
           NEW ls \in Seq(Nat), NEW t \in Nat, Counts(H, tk, ls, t),
           NEW r, r \notin H, NEW tk2, \A l \in H : tk2[l] = tk[l], tk2[r] = t
    PROVE  Counts(H \cup {r}, tk2, Append(ls, t), t)
<1> DEFINE m == Append(ls, t)
           G == H \cup {r}
<1>1. /\ Len(m) = Len(ls) + 1 /\ Len(ls) \in Nat
      /\ \A i \in 1..Len(ls) : m[i] = ls[i] /\ ls[i] \in Nat
      /\ m[Len(ls) + 1] = t
  BY AppendProperties, ElementOfSeq
<1> HIDE DEF m
<1>2. ASSUME NEW A \in SUBSET H, NEW B \in SUBSET G, B \subseteq A \cup {r}
      PROVE  Cardinality(B) <= Cardinality(A) + 1 /\ Cardinality(B) \in Nat /\ Cardinality(A) \in Nat
  <2>1. IsFiniteSet(A) /\ IsFiniteSet(A \cup {r}) /\ Cardinality(A) \in Nat
        /\ Cardinality(A \cup {r}) = Cardinality(A) + 1
    BY FewerOf, FS_AddElement
  <2> QED
    BY <1>2, <2>1, FewerOf
<1>3. \A l \in G : tk2[l] <= t
  BY DEF Counts
<1>4. ASSUME NEW i \in 1..Len(m)
      PROVE  Cardinality({l \in G : tk2[l] > m[i]}) <= Len(m) - i
  <2> DEFINE B == {l \in G : tk2[l] > m[i]}
  <2>1. CASE i = Len(ls) + 1
    <3>1. B = {}
      <4>1. \A l \in G : tk2[l] \in Nat
        OBVIOUS
      <4> QED
        BY <1>1, <1>3, <2>1, <4>1
    <3>2. Cardinality(B) = 0
      BY <3>1, FS_EmptySet
    <3> HIDE DEF B
    <3> QED
      BY <1>1, <2>1, <3>2 DEF B
  <2>2. CASE i \in 1..Len(ls)
    <3> DEFINE A == {l \in H : tk[l] > ls[i]}
    <3>1. Cardinality(A) <= Len(ls) - i
      BY <2>2 DEF Counts
    <3>2. B \subseteq A \cup {r}
      BY <1>1, <2>2
    <3>3. Cardinality(B) <= Cardinality(A) + 1 /\ Cardinality(B) \in Nat /\ Cardinality(A) \in Nat
      BY <1>2, <3>2
    <3> HIDE DEF A, B
    <3> QED
      BY <1>1, <2>2, <3>1, <3>3 DEF B
  <2> QED
    BY <1>1, <2>1, <2>2
<1>5. Cardinality({l \in G : tk2[l] + LeaseTimeout > t}) <= Len(m)
  <2> DEFINE A == {l \in H : tk[l] + LeaseTimeout > t}
             B == {l \in G : tk2[l] + LeaseTimeout > t}
  <2>1. B \subseteq A \cup {r} /\ Cardinality(A) <= Len(ls)
    BY DEF Counts
  <2>2. Cardinality(B) <= Cardinality(A) + 1 /\ Cardinality(B) \in Nat /\ Cardinality(A) \in Nat
    BY <1>2, <2>1
  <2> HIDE DEF A, B
  <2> QED
    BY <1>1, <2>1, <2>2 DEF B
<1> QED
  BY <1>3, <1>4, <1>5 DEF Counts, m

\* releaseLocked: a settlement that pays an orphan leaves the entries alone, and
\* one that pops an entry finds as many entries as reservations.
LEMMA CountsRelease ==
    ASSUME NEW H, IsFiniteSet(H), NEW tk, \A l \in H : tk[l] \in Nat,
           NEW ks \in KeyState, NEW t \in Nat, Counts(H, tk, ks.leases, t),
           Slots(ks) = Cardinality(H), NEW r \in H,
           NEW tk2, \A l \in H \ {r} : tk2[l] = tk[l]
    PROVE  Counts(H \ {r}, tk2, Release(ks).leases, t)
<1> DEFINE G == H \ {r}
           ls == ks.leases
           m == Release(ks).leases
<1>1. IsFiniteSet(G) /\ Cardinality(G) = Cardinality(H) - 1 /\ Cardinality(H) \in Nat
      /\ Cardinality(H) # 0
  BY FS_RemoveElement, FS_CardinalityType, FS_EmptySet
<1>2. \A l \in G : tk2[l] <= t
  BY DEF Counts
<1>3. ls \in Seq(Nat) /\ Len(ls) \in Nat
  BY DEF KeyState
<1>4. CASE ks.orphaned > 0
  <2>1. m = ls
    BY <1>4 DEF Release, KeyState
  <2> HIDE DEF ls, m
  <2>2. ASSUME NEW i \in 1..Len(ls)
        PROVE  Cardinality({l \in G : tk2[l] > ls[i]}) <= Len(ls) - i
    <3> DEFINE A == {l \in H : tk[l] > ls[i]}
               B == {l \in G : tk2[l] > ls[i]}
    <3>1. B \subseteq A /\ Cardinality(A) <= Len(ls) - i /\ A \subseteq H
      BY DEF Counts, ls
    <3>2. IsFiniteSet(A) /\ Cardinality(B) <= Cardinality(A) /\ Cardinality(B) \in Nat /\ Cardinality(A) \in Nat
      BY <3>1, FewerOf
    <3> HIDE DEF A, B
    <3> QED
      BY <1>3, <3>1, <3>2 DEF B
  <2>3. Cardinality({l \in G : tk2[l] + LeaseTimeout > t}) <= Len(ls)
    <3> DEFINE A == {l \in H : tk[l] + LeaseTimeout > t}
               B == {l \in G : tk2[l] + LeaseTimeout > t}
    <3>1. B \subseteq A /\ Cardinality(A) <= Len(ls) /\ A \subseteq H
      BY DEF Counts, ls
    <3>2. IsFiniteSet(A) /\ Cardinality(B) <= Cardinality(A) /\ Cardinality(B) \in Nat /\ Cardinality(A) \in Nat
      BY <3>1, FewerOf
    <3> HIDE DEF A, B
    <3> QED
      BY <1>3, <3>1, <3>2 DEF B
  <2> QED
    BY <1>2, <2>1, <2>2, <2>3 DEF Counts, m
<1>5. CASE ~(ks.orphaned > 0)
  <2>1. ks.orphaned = 0 /\ Len(ls) = Cardinality(H)
    BY <1>1, <1>5, SlotsNat DEF Slots
  <2>2. ls # << >>
    BY <1>1, <2>1
  <2>3. m = Tail(ls)
    BY <1>5, <2>2 DEF Release, KeyState
  <2>4. Len(m) = Len(ls) - 1 /\ \A i \in 1..Len(m) : m[i] = ls[i + 1]
    BY <1>3, <2>2, <2>3, HeadTailProperties
  <2> HIDE DEF ls, m
  <2>5. ASSUME NEW i \in 1..Len(m)
        PROVE  Cardinality({l \in G : tk2[l] > m[i]}) <= Len(m) - i
    <3> DEFINE A == {l \in H : tk[l] > ls[i + 1]}
               B == {l \in G : tk2[l] > m[i]}
    <3>1. i + 1 \in 1..Len(ls) /\ m[i] = ls[i + 1]
      BY <1>3, <2>4
    <3>2. B \subseteq A /\ Cardinality(A) <= Len(ls) - (i + 1) /\ A \subseteq H
      BY <3>1 DEF Counts, ls
    <3>3. IsFiniteSet(A) /\ Cardinality(B) <= Cardinality(A) /\ Cardinality(B) \in Nat /\ Cardinality(A) \in Nat
      BY <3>2, FewerOf
    <3> HIDE DEF A, B
    <3> QED
      BY <1>3, <2>4, <3>2, <3>3 DEF B
  <2>6. Cardinality({l \in G : tk2[l] + LeaseTimeout > t}) <= Len(m)
    <3> DEFINE B == {l \in G : tk2[l] + LeaseTimeout > t}
    <3>1. B \subseteq G
      OBVIOUS
    <3>2. Cardinality(B) <= Cardinality(G) /\ Cardinality(B) \in Nat
      BY <1>1, <3>1, FewerOf
    <3> QED
      BY <1>1, <2>1, <2>4, <3>2
  <2> QED
    BY <1>2, <2>5, <2>6 DEF Counts, m
<1> QED
  BY <1>4, <1>5

\* Every key's entries count the reservations held on it.
Counted == \A k \in Keys : Counts(HeldOn(k), takenAt, keys[k].leases, now)

\* Advancing a key keeps its entries a count of its reservations.
LEMMA CountsAdvanced ==
    ASSUME IInv, Counted, NEW k \in Keys
    PROVE  Counts(HeldOn(k), takenAt, Advanced(k, now).leases, now)
<1>1. /\ keys[k] \in KeyState /\ now \in Nat /\ IsFiniteSet(HeldOn(k))
      /\ \A l \in HeldOn(k) : takenAt[l] \in Nat
  BY HeldFinite DEF IInv, TypeOK, HeldOn
<1>2. Counts(HeldOn(k), takenAt, ReclaimStale(keys[k], now).leases, now)
  BY <1>1, CountsReclaim DEF Counted
<1>3. Advanced(k, now).leases = ReclaimStale(keys[k], now).leases
  <2>1. ReclaimStale(keys[k], now) \in KeyState
    BY <1>1, ReclaimFacts
  <2> QED
    BY <2>1, RollFacts DEF Advanced, SameSlots
<1> QED
  BY <1>2, <1>3

\* An operation on key k that makes its entries count its new reservations,
\* and leaves the reservations on other keys alone.
LEMMA CountedStep ==
    ASSUME IInv, Counted, NEW k \in Keys, NEW b,
           keys' = [x \in Keys |-> IF x = k THEN b ELSE Advanced(x, now)], now' = now,
           \A x \in Keys \ {k} : /\ HeldOn(x)' = HeldOn(x)
                                 /\ \A l \in HeldOn(x) : takenAt'[l] = takenAt[l],
           Counts(HeldOn(k)', takenAt', b.leases, now)
    PROVE  Counted'
<1> SUFFICES ASSUME NEW x \in Keys
             PROVE  Counts(HeldOn(x)', takenAt', keys'[x].leases, now')
  BY DEF Counted
<1>1. CASE x = k
  BY <1>1
<1>2. CASE x # k
  <2>1. /\ HeldOn(x)' = HeldOn(x) /\ keys'[x] = Advanced(x, now)
        /\ \A l \in HeldOn(x) : takenAt'[l] = takenAt[l]
    BY <1>2
  <2>2. Counts(HeldOn(x), takenAt, Advanced(x, now).leases, now)
    BY CountsAdvanced
  <2> DEFINE ls == Advanced(x, now).leases
  <2> HIDE DEF ls
  <2>3. \A u : {l \in HeldOn(x) : takenAt'[l] > u} = {l \in HeldOn(x) : takenAt[l] > u}
    BY <2>1
  <2>4. {l \in HeldOn(x) : takenAt'[l] + LeaseTimeout > now}
          = {l \in HeldOn(x) : takenAt[l] + LeaseTimeout > now}
    BY <2>1
  <2>5. Counts(HeldOn(x), takenAt', ls, now)
    BY <2>1, <2>2, <2>3, <2>4 DEF Counts, ls
  <2> QED
    BY <2>1, <2>5 DEF ls
<1> QED
  BY <1>1, <1>2

\* Granting a reservation adds one entry and one reservation.
LEMMA ReserveCounted ==
    ASSUME IInv, Counted, NEW l \in Leases, NEW k \in Keys, Reserve(l, k)
    PROVE  Counted'
<1> DEFINE a == Advanced(k, now)
           b == [a EXCEPT !.leases = Append(@, now)]
<1>1. /\ keys' = [x \in Keys |-> IF x = k THEN b ELSE Advanced(x, now)] /\ now' = now
      /\ now \in Nat /\ a \in KeyState
  BY AdvancedSafe DEF Reserve, AdvanceAnd, IInv, TypeOK
<1>2. HeldOn(k)' = HeldOn(k) \cup {l} /\ l \notin HeldOn(k)
  BY KeysAssumption DEF Reserve, HeldOn, IInv, TypeOK
<1>3. \A x \in Keys \ {k} : HeldOn(x)' = HeldOn(x)
  BY KeysAssumption DEF Reserve, HeldOn, IInv, TypeOK
<1>4. /\ takenAt'[l] = now
      /\ \A x \in Keys : \A m \in HeldOn(x) : takenAt'[m] = takenAt[m] /\ takenAt[m] \in Nat
  BY KeysAssumption DEF Reserve, HeldOn, IInv, TypeOK
<1>5. Counts(HeldOn(k), takenAt, a.leases, now) /\ IsFiniteSet(HeldOn(k))
  BY CountsAdvanced, HeldFinite
<1> HIDE DEF a
<1>6. b.leases = Append(a.leases, now) /\ a.leases \in Seq(Nat)
  BY <1>1 DEF KeyState
<1> HIDE DEF b
<1>7. Counts(HeldOn(k) \cup {l}, takenAt', Append(a.leases, now), now)
  BY <1>1, <1>2, <1>4, <1>5, <1>6, CountsAppend
<1> QED
  BY <1>1, <1>2, <1>3, <1>4, <1>6, <1>7, CountedStep

\* A settlement takes one reservation away, and an entry only when no reclaimed
\* one is owed.
LEMMA SettleCounted ==
    ASSUME IInv, Counted, NEW l \in Leases, NEW k \in Keys, holder[l] = k,
           holder' = [holder EXCEPT ![l] = NoKey], takenAt' = [takenAt EXCEPT ![l] = 0],
           now' = now, NEW b, b.leases = Release(Advanced(k, now)).leases,
           keys' = [x \in Keys |-> IF x = k THEN b ELSE Advanced(x, now)]
    PROVE  Counted'
<1> DEFINE a == Advanced(k, now)
<1>1. /\ a \in KeyState /\ Slots(a) = Cardinality(HeldOn(k)) /\ now \in Nat
      /\ Counts(HeldOn(k), takenAt, a.leases, now) /\ IsFiniteSet(HeldOn(k))
  BY AdvancedSafe, CountsAdvanced, HeldFinite DEF IInv, TypeOK
<1>2. HeldOn(k)' = HeldOn(k) \ {l} /\ l \in HeldOn(k)
  BY KeysAssumption DEF HeldOn, IInv, TypeOK
<1>3. \A x \in Keys \ {k} : HeldOn(x)' = HeldOn(x)
  BY KeysAssumption DEF HeldOn, IInv, TypeOK
<1>4. /\ \A x \in Keys \ {k} : \A m \in HeldOn(x) : takenAt'[m] = takenAt[m]
      /\ \A m \in HeldOn(k) \ {l} : takenAt'[m] = takenAt[m]
      /\ \A m \in HeldOn(k) : takenAt[m] \in Nat
  BY DEF HeldOn, IInv, TypeOK
<1> HIDE DEF a
<1>5. Counts(HeldOn(k) \ {l}, takenAt', Release(a).leases, now)
  BY <1>1, <1>2, <1>4, CountsRelease
<1> QED
  BY <1>2, <1>3, <1>4, <1>5, CountedStep DEF a

\* NewStore starts with no entry and no reservation.
LEMMA InitCounted == Init => Counted
<1> SUFFICES ASSUME Init, NEW k \in Keys
             PROVE  Counts(HeldOn(k), takenAt, keys[k].leases, now)
  BY DEF Counted
<1>1. HeldOn(k) = {} /\ keys[k].leases = << >>
  BY KeysAssumption DEF Init, HeldOn, FreshKey
<1>2. {l \in HeldOn(k) : takenAt[l] + LeaseTimeout > now} = {}
  BY <1>1
<1> QED
  BY <1>1, <1>2, FS_EmptySet DEF Counts

\* Every step keeps the entries a count of the reservations.
LEMMA NextCounted == IInv /\ Counted /\ [Next]_vars => Counted'
<1> SUFFICES ASSUME IInv, Counted, [Next]_vars PROVE Counted'
  OBVIOUS
<1>0. now \in Nat /\ keys \in [Keys -> KeyState] /\ takenAt \in [Leases -> Nat]
  BY DEF IInv, TypeOK
<1>1. CASE UNCHANGED <<keys, holder, takenAt>> /\ now' \in {now, now + 1}
  <2> SUFFICES ASSUME NEW k \in Keys
               PROVE  Counts(HeldOn(k), takenAt, keys[k].leases, now')
    BY <1>1 DEF Counted, HeldOn
  <2>1. /\ keys[k].leases \in Seq(Nat) /\ IsFiniteSet(HeldOn(k))
        /\ \A l \in HeldOn(k) : takenAt[l] \in Nat
    BY <1>0, HeldFinite DEF KeyState, HeldOn
  <2>2. now' \in Nat /\ now <= now' /\ Counts(HeldOn(k), takenAt, keys[k].leases, now)
    BY <1>0, <1>1 DEF Counted
  <2> QED
    BY <1>0, <2>1, <2>2, CountsLater
<1>2. ASSUME NEW k \in Keys, NEW b, b.leases = Advanced(k, now).leases,
             keys' = [x \in Keys |-> IF x = k THEN b ELSE Advanced(x, now)],
             UNCHANGED <<now, holder, takenAt>>
      PROVE  Counted'
  <2>1. \A x : HeldOn(x)' = HeldOn(x)
    BY <1>2 DEF HeldOn
  <2>2. Counts(HeldOn(k), takenAt, b.leases, now)
    BY <1>2, CountsAdvanced
  <2> QED
    BY <1>2, <2>1, <2>2, CountedStep
<1>3. CASE Observe
  <2>1. PICK k \in Keys : TRUE
    BY KeysAssumption
  <2> DEFINE b == Advanced(k, now)
  <2>2. keys' = [x \in Keys |-> IF x = k THEN b ELSE Advanced(x, now)]
        /\ UNCHANGED <<now, holder, takenAt>>
    BY <1>3 DEF Observe
  <2> QED
    BY <1>2, <2>2
<1>4. CASE \E l \in Leases, k \in Keys : Reserve(l, k)
  BY <1>4, ReserveCounted
<1>5. ASSUME NEW l \in Leases, NEW n \in Reports \cup {TokensUnknown}, Complete(l, n)
      PROVE  Counted'
  <2>1. PICK k \in Keys : k = holder[l]
    BY <1>5 DEF Complete, IInv, TypeOK
  <2> DEFINE a == Advanced(k, now)
             b == SettleCompleted(a, n)
  <2>2. /\ keys' = [x \in Keys |-> IF x = k THEN b ELSE Advanced(x, now)] /\ now' = now
        /\ holder' = [holder EXCEPT ![l] = NoKey] /\ takenAt' = [takenAt EXCEPT ![l] = 0]
    BY <1>5, <2>1 DEF Complete, AdvanceAnd
  <2>3. a \in KeyState /\ n \in Nat \cup {TokensUnknown}
    BY AdvancedSafe, InputAssumption
  <2> HIDE DEF a
  <2>4. b.leases = Release(a).leases
    BY <2>3, ReleaseFacts, ChargeFacts DEF SettleCompleted, SameSlots
  <2> HIDE DEF b
  <2> QED
    BY <2>1, <2>2, <2>4, SettleCounted DEF a
<1>6. ASSUME NEW l \in Leases, Fail(l)
      PROVE  Counted'
  <2>1. PICK k \in Keys : k = holder[l]
    BY <1>6 DEF Fail, IInv, TypeOK
  <2> DEFINE b == Release(Advanced(k, now))
  <2>2. /\ keys' = [x \in Keys |-> IF x = k THEN b ELSE Advanced(x, now)] /\ now' = now
        /\ holder' = [holder EXCEPT ![l] = NoKey] /\ takenAt' = [takenAt EXCEPT ![l] = 0]
        /\ b.leases = Release(Advanced(k, now)).leases
    BY <1>6, <2>1 DEF Fail, AdvanceAnd
  <2> HIDE DEF b
  <2> QED
    BY <2>1, <2>2, SettleCounted
<1>7. ASSUME NEW k \in Keys, NEW u \in Int, RetireAt(k, u)
      PROVE  Counted'
  <2> DEFINE a == Advanced(k, now)
             b == RetireKey(a, u)
  <2>1. a \in KeyState
    BY AdvancedSafe
  <2>2. /\ keys' = [x \in Keys |-> IF x = k THEN b ELSE Advanced(x, now)]
        /\ UNCHANGED <<now, holder, takenAt>>
    BY <1>7 DEF RetireAt, AdvanceAnd
  <2>3. b.leases = a.leases
    BY <1>0, <2>1, RetireFacts DEF SameSlots
  <2> QED
    BY <1>2, <2>2, <2>3
<1>8. CASE UNCHANGED vars \/ Tick \/ \E l \in Leases : Lose(l)
  BY <1>1, <1>8 DEF vars, Tick, Lose
<1>9. CASE \E k \in Keys, d \in Cooldowns : RetireWithReason(k, d)
  <2>1. PICK k \in Keys, d \in Cooldowns : RetireAt(k, now + d)
    BY <1>9 DEF RetireWithReason
  <2>2. now + d \in Int
    BY <1>0, InputAssumption
  <2> QED
    BY <1>7, <2>1, <2>2
<1>10. CASE \E k \in Keys : RetireForWindow(k)
  <2> DEFINE u == IF Window > 0 THEN WindowStartAt(now) + Window ELSE now + QuotaCooldown
  <2>1. PICK k \in Keys : RetireAt(k, u)
    BY <1>10 DEF RetireForWindow
  <2>2. u \in Int
    BY <1>0, WindowStartNat, BudgetAssumption, TimeAssumption DEF IInv
  <2> HIDE DEF u
  <2> QED
    BY <1>7, <2>1, <2>2
<1> QED
  BY <1>3, <1>4, <1>5, <1>6, <1>8, <1>9, <1>10 DEF Next

\* releaseLocked's guess is safe: whichever reservation a settlement is taken
\* for, a request within its lease timeout is still counted.
THEOREM RunningRequestsCounted == Spec => []NeverUndercounts
<1>2. IInv /\ Counted => NeverUndercounts
  <2> SUFFICES ASSUME IInv, Counted, NEW k \in Keys
               PROVE  Cardinality({l \in HeldOn(k) : takenAt[l] + LeaseTimeout > now})
                        <= InFlight(Advanced(k, now))
    BY DEF NeverUndercounts
  <2> QED
    BY CountsAdvanced DEF Counts, InFlight
<1>3. Spec => []Counted
  BY IInvHolds, InitCounted, NextCounted, PTL DEF Spec
<1> QED
  BY IInvHolds, <1>2, <1>3, PTL

-----------------------------------------------------------------------------
(* The advertised wait.                                                    *)

\* With caps disabled nothing is ever capped out (applyCapsLocked returns early).
Uncapped == Window = 0 => \A k \in Keys : ~CappedOut(keys[k])

\* With caps disabled a settlement caps nothing out.
LEMMA UncappedSettle ==
    ASSUME NEW ks \in KeyState, NEW n, Window = 0, ~CappedOut(ks)
    PROVE  ~CappedOut(SettleCompleted(ks, n))
<1>1. Release(ks) \in KeyState /\ ~CappedOut(Release(ks))
  BY ReleaseFacts, SlotOpsKeepFlags DEF SameFlags, CappedOut
<1> DEFINE r == Release(ks)
<1>2. SettleCompleted(ks, n) = Charge(r, n)
  BY DEF SettleCompleted, ApplyCaps
<1> HIDE DEF r
<1>3. Charge(r, n).drained = r.drained /\ Charge(r, n).softRetired = r.softRetired
  BY <1>1 DEF Charge, KeyState, r
<1> QED
  BY <1>1, <1>2, <1>3 DEF CappedOut, r

\* No operation caps a key out when caps are disabled.
LEMMA NextUncapped == IInv /\ Uncapped /\ [Next]_vars => Uncapped'
<1> SUFFICES ASSUME IInv, Window = 0, \A k \in Keys : ~CappedOut(keys[k]), [Next]_vars,
                    NEW k \in Keys
             PROVE  ~CappedOut(keys'[k])
  BY DEF Uncapped
<1>0. now \in Nat /\ keys \in [Keys -> KeyState]
  BY DEF IInv, TypeOK
<1>1. ~WindowOver(now)
  BY DEF WindowOver
<1>2. \A x \in Keys : Advanced(x, now) \in KeyState /\ ~CappedOut(Advanced(x, now))
  BY <1>0, <1>1, AdvancedSafe, AdvancedFlags
<1>3. CASE UNCHANGED vars \/ Tick \/ \E l \in Leases : Lose(l)
  <2>1. keys' = keys
    BY <1>3 DEF vars, Tick, Lose
  <2> QED
    BY <2>1
<1>4. CASE Observe
  BY <1>2, <1>4 DEF Observe
<1>5. ASSUME NEW l \in Leases, NEW x \in Keys, Reserve(l, x)
      PROVE  ~CappedOut(keys'[k])
  <2>1. keys'[k] = IF k = x THEN [Advanced(k, now) EXCEPT !.leases = Append(@, now)]
                            ELSE Advanced(k, now)
    BY <1>5 DEF Reserve, AdvanceAnd
  <2> QED
    BY <1>2, <2>1, SlotOpsKeepFlags DEF SameFlags, CappedOut
<1>6. ASSUME NEW l \in Leases, NEW n \in Reports \cup {TokensUnknown}, Complete(l, n)
      PROVE  ~CappedOut(keys'[k])
  <2>1. keys'[k] = IF k = holder[l] THEN SettleCompleted(Advanced(k, now), n)
                                    ELSE Advanced(k, now)
    BY <1>6 DEF Complete, AdvanceAnd
  <2> QED
    BY <1>2, <2>1, UncappedSettle
<1>7. ASSUME NEW l \in Leases, Fail(l)
      PROVE  ~CappedOut(keys'[k])
  <2>1. keys'[k] = IF k = holder[l] THEN Release(Advanced(k, now)) ELSE Advanced(k, now)
    BY <1>7 DEF Fail, AdvanceAnd
  <2> QED
    BY <1>2, <2>1, SlotOpsKeepFlags DEF SameFlags, CappedOut
<1>8. ASSUME NEW x \in Keys, NEW u \in Int, RetireAt(x, u)
      PROVE  ~CappedOut(keys'[k])
  <2>1. keys'[k] = IF k = x THEN RetireKey(Advanced(k, now), u) ELSE Advanced(k, now)
    BY <1>8 DEF RetireAt, AdvanceAnd
  <2> QED
    BY <1>0, <1>2, <2>1, RetireFlags
<1>9. CASE \E x \in Keys, d \in Cooldowns : RetireWithReason(x, d)
  <2>1. PICK x \in Keys, d \in Cooldowns : RetireAt(x, now + d)
    BY <1>9 DEF RetireWithReason
  <2>2. now + d \in Int
    BY <1>0, InputAssumption
  <2> QED
    BY <1>8, <2>1, <2>2
<1>10. CASE \E x \in Keys : RetireForWindow(x)
  <2> DEFINE u == IF Window > 0 THEN WindowStartAt(now) + Window ELSE now + QuotaCooldown
  <2>1. PICK x \in Keys : RetireAt(x, u)
    BY <1>10 DEF RetireForWindow
  <2>2. u \in Int
    BY <1>0, WindowStartNat, BudgetAssumption, TimeAssumption DEF IInv
  <2> HIDE DEF u
  <2> QED
    BY <1>8, <2>1, <2>2
<1> QED
  BY <1>3, <1>4, <1>5, <1>6, <1>7, <1>9, <1>10 DEF Next

\* waitForLocked is exact: d from now the key is selectable if and only if d is
\* at least its wait.
LEMMA WaitExact ==
    ASSUME IInv, Uncapped, NEW k \in Keys, NEW d \in Nat
    PROVE  /\ WaitFor(Advanced(k, now)) \in Nat
           /\ SelectableAt(Advanced(k, now + d), now + d) <=> d >= WaitFor(Advanced(k, now))
<1> DEFINE ru == keys[k].retiredUntil
           t == now + d
           a == Advanced(k, now)
           b == Advanced(k, t)
           w == WaitFor(a)
           cooling == IF ru > now THEN ru - now ELSE 0
<1>1. /\ keys \in [Keys -> KeyState] /\ now \in Nat /\ windowStart \in Nat
      /\ ru \in Nat /\ Window \in Nat /\ t \in Nat
  BY SlotsNat, BudgetAssumption DEF IInv, TypeOK
<1>2. /\ WindowOver(now) <=> Window > 0 /\ now - windowStart >= Window
      /\ WindowOver(t) <=> Window > 0 /\ t - windowStart >= Window
  BY DEF WindowOver
<1>3. /\ WindowOver(t) => ~CappedOut(b) /\ b.retiredUntil = IF ru > t THEN ru ELSE 0
      /\ ~WindowOver(t) => (CappedOut(b) <=> CappedOut(keys[k])) /\ b.retiredUntil = ru
  BY <1>1, AdvancedFlags
<1>4. /\ WindowOver(now) => ~CappedOut(a) /\ a.retiredUntil = IF ru > now THEN ru ELSE 0
      /\ ~WindowOver(now) => (CappedOut(a) <=> CappedOut(keys[k])) /\ a.retiredUntil = ru
  BY <1>1, AdvancedFlags
<1>5. SelectableAt(b, t) <=> ~CappedOut(b) /\ b.retiredUntil <= t
  BY DEF SelectableAt, CappedOut
<1>6. (IF a.retiredUntil > now THEN a.retiredUntil - now ELSE 0) = cooling
  BY <1>1, <1>4
<1>7. w = CASE CappedOut(a) /\ Window > 0 ->
                  IF WindowStartAt(now) + Window - now > cooling
                  THEN WindowStartAt(now) + Window - now ELSE cooling
            [] CappedOut(a) /\ Window = 0 /\ cooling = 0 -> MaxRetryAfter
            [] OTHER -> cooling
  BY <1>6 DEF WaitFor
<1> HIDE DEF a, b, w
<1>8. CASE ~CappedOut(a)
  <2>1. w = cooling
    BY <1>7, <1>8
  <2>2. ~CappedOut(b)
    BY <1>1, <1>2, <1>3, <1>4, <1>8
  <2>3. b.retiredUntil <= t <=> ru <= t
    BY <1>1, <1>3
  <2> QED
    BY <1>1, <1>5, <2>1, <2>2, <2>3 DEF a, b, w
<1>9. CASE CappedOut(a)
  <2>1. ~WindowOver(now) /\ CappedOut(keys[k])
    BY <1>4, <1>9
  <2>2. Window > 0
    BY <1>1, <2>1 DEF Uncapped
  <2> DEFINE roll == windowStart + Window - now
  <2>3. roll \in Nat /\ w = IF roll > cooling THEN roll ELSE cooling
    <3>1. WindowStartAt(now) = windowStart
      BY <2>1 DEF WindowStartAt
    <3>2. roll \in Nat
      BY <1>1, <1>2, <2>1, <2>2
    <3>3. w = IF WindowStartAt(now) + Window - now > cooling
              THEN WindowStartAt(now) + Window - now ELSE cooling
      BY <1>7, <1>9, <2>2
    <3> QED
      BY <3>1, <3>2, <3>3
  <2>4. WindowOver(t) <=> d >= roll
    BY <1>1, <1>2, <2>2
  <2>5. SelectableAt(b, t) <=> d >= roll /\ ru <= t
    BY <1>1, <1>3, <1>5, <2>1, <2>4
  <2>6. ru <= t <=> d >= cooling
    BY <1>1
  <2> HIDE DEF roll
  <2> QED
    BY <1>1, <2>3, <2>5, <2>6 DEF a, b, w
<1> QED
  BY <1>8, <1>9

\* RetryAfter tells the truth: with every key out, none is back before TrueWait
\* and one is back once it has passed.
THEOREM WaitIsTruthful == Spec => []RetryAfterTruthful
<1>1. Init => Uncapped
  BY DEF Init, Uncapped, FreshKey, CappedOut
<1>2. IInv /\ Uncapped => RetryAfterTruthful
  <2> SUFFICES ASSUME IInv, Uncapped
               PROVE  /\ \A d \in 0..(TrueWait - 1), k \in Keys :
                            ~SelectableAt(Advanced(k, now + d), now + d)
                      /\ \E k \in Keys :
                            SelectableAt(Advanced(k, now + TrueWait), now + TrueWait)
    BY DEF RetryAfterTruthful
  <2> DEFINE W == {WaitFor(Advanced(k, now)) : k \in Keys}
  <2>1. W \subseteq Nat /\ W # {}
    BY WaitExact, KeysAssumption
  <2>2. TrueWait \in W /\ \A y \in W : TrueWait <= y
    <3>1. TrueWait = Least(W)
      BY DEF TrueWait
    <3> HIDE DEF W
    <3>2. \E x \in W : \A y \in W : x <= y
      BY <2>1, NatHasLeast
    <3>3. Least(W) \in W /\ \A y \in W : Least(W) <= y
      BY <3>2, Zenon DEF Least
    <3> QED
      BY <3>1, <3>3
  <2>3. TrueWait \in Nat
    BY <2>1, <2>2
  <2>4. ASSUME NEW d \in 0..(TrueWait - 1), NEW k \in Keys
        PROVE  ~SelectableAt(Advanced(k, now + d), now + d)
    <3>0. WaitFor(Advanced(k, now)) \in W
      OBVIOUS
    <3>1. TrueWait <= WaitFor(Advanced(k, now)) /\ d \in Nat /\ d < TrueWait
      <4> DEFINE tw == TrueWait
                 v == WaitFor(Advanced(k, now))
      <4>1. v \in W /\ (\A y \in W : tw <= y) /\ tw \in Nat /\ d \in 0..(tw - 1)
        BY <2>2, <2>3, <3>0
      <4> HIDE DEF W, tw, v
      <4>2. tw <= v /\ d \in Nat /\ d < tw
        BY <4>1
      <4> QED
        BY <4>2 DEF tw, v
    <3>2. WaitFor(Advanced(k, now)) \in Nat
          /\ (SelectableAt(Advanced(k, now + d), now + d) <=> d >= WaitFor(Advanced(k, now)))
      BY <3>1, WaitExact
    <3> QED
      BY <2>3, <3>1, <3>2
  <2>5. \E k \in Keys : SelectableAt(Advanced(k, now + TrueWait), now + TrueWait)
    <3>1. PICK k \in Keys : TrueWait = WaitFor(Advanced(k, now))
      BY <2>2
    <3> HIDE DEF W
    <3>2. SelectableAt(Advanced(k, now + TrueWait), now + TrueWait)
          <=> TrueWait >= WaitFor(Advanced(k, now))
      BY <2>3, WaitExact
    <3> QED
      BY <2>3, <3>1, <3>2
  <2> QED
    BY <2>4, <2>5
<1>3. Spec => []Uncapped
  BY IInvHolds, <1>1, NextUncapped, PTL DEF Spec
<1> QED
  BY IInvHolds, <1>2, <1>3, PTL

-----------------------------------------------------------------------------
(* How far the advisory token budget can be overshot.                      *)

\* Multiplying by a natural keeps the order.
LEMMA TimesMono ==
    ASSUME NEW c \in Nat, NEW a \in Int, NEW b \in Int, a <= b
    PROVE  c * a <= c * b /\ c * a \in Int /\ c * b \in Int
<1>1. b - a \in Nat
  OBVIOUS
<1>2. c * (b - a) \in Nat
  BY <1>1
<1> QED
  BY <1>2

\* t tokens charged, i requests in flight and d late settlements are within the
\* bound, for the estimate E, the largest charge M and the cap T.
Overshoot(E, M, T, t, i, d) == E * (t + M * i) <= M * (T + E - 1 + E * d)

\* Fewer tokens, fewer in flight or more late settlements stay within it.
LEMMA OvershootLower ==
    ASSUME NEW E \in Nat, NEW M \in Nat, NEW T \in Int, NEW t \in Nat, NEW i \in Nat,
           NEW d \in Int, NEW t2 \in Nat, NEW i2 \in Nat, NEW d2 \in Int,
           t2 <= t, i2 <= i, d <= d2, Overshoot(E, M, T, t, i, d)
    PROVE  Overshoot(E, M, T, t2, i2, d2)
<1>1. M * i2 <= M * i /\ M * i2 \in Int /\ M * i \in Int
  BY TimesMono
<1>2. t2 + M * i2 <= t + M * i
  BY <1>1
<1>3. /\ E * (t2 + M * i2) <= E * (t + M * i)
      /\ E * (t2 + M * i2) \in Int /\ E * (t + M * i) \in Int
  BY <1>1, <1>2, TimesMono
<1> DEFINE u == T + E - 1
<1>4. E * d <= E * d2 /\ E * d \in Int /\ E * d2 \in Int /\ u \in Int
  BY TimesMono
<1> HIDE DEF u
<1>5. u + E * d <= u + E * d2
  BY <1>4
<1>6. M * (u + E * d) <= M * (u + E * d2) /\ M * (u + E * d) \in Int /\ M * (u + E * d2) \in Int
  BY <1>4, <1>5, TimesMono
<1>7. E * (t + M * i) <= M * (u + E * d)
  BY DEF Overshoot, u
<1>8. E * (t2 + M * i2) <= M * (u + E * d2)
  BY <1>3, <1>6, <1>7
<1> QED
  BY <1>8 DEF Overshoot, u

\* A charge of at most M replaces a request in flight.
LEMMA OvershootPop ==
    ASSUME NEW E \in Nat, NEW M \in Nat, NEW T \in Int, NEW t \in Nat, NEW i \in Nat,
           NEW d \in Int, NEW n \in Nat, n <= M, Overshoot(E, M, T, t, i, d)
    PROVE  Overshoot(E, M, T, t + n, i - 1, d)
<1> DEFINE R == M * (T + E - 1 + E * d)
<1>1. R \in Int /\ E * (t + M * i) <= R
  BY DEF Overshoot
<1> HIDE DEF R
<1>2. t + n + M * (i - 1) <= t + M * i /\ t + n + M * (i - 1) \in Int /\ t + M * i \in Int
  OBVIOUS
<1>3. E * (t + n + M * (i - 1)) <= R
  BY <1>1, <1>2, TimesMono
<1> QED
  BY <1>3 DEF Overshoot, R

\* A charge of at most M that is one more late settlement.
LEMMA OvershootLate ==
    ASSUME NEW E \in Nat, NEW M \in Nat, NEW T \in Int, NEW t \in Nat, NEW i \in Nat,
           NEW d \in Int, NEW n \in Nat, n <= M, Overshoot(E, M, T, t, i, d)
    PROVE  Overshoot(E, M, T, t + n, i, d + 1)
<1>1. E * n <= E * M /\ E * n \in Int
  BY TimesMono
<1>2. E * (t + n + M * i) = E * (t + M * i) + E * n
  OBVIOUS
<1>3. M * (T + E - 1 + E * (d + 1)) = M * (T + E - 1 + E * d) + E * M
  OBVIOUS
<1> QED
  BY <1>1, <1>2, <1>3 DEF Overshoot

\* Admission under the estimate leaves room for one more request in flight.
LEMMA OvershootReserve ==
    ASSUME NEW E \in Nat, NEW M \in Nat, NEW T \in Nat, NEW t \in Nat, NEW i \in Nat,
           NEW d \in Nat, E <= M, t + i * E < T
    PROVE  Overshoot(E, M, T, t, i + 1, d)
<1>1. t * E <= t * M
  BY TimesMono
<1>2. M * (t + i * E) <= M * (T - 1)
  BY TimesMono
<1>3. E * d \in Nat
  OBVIOUS
<1>4. M * (E * d) \in Nat
  BY <1>3
<1>5. E * (t + M * (i + 1)) = t * E + M * (i * E) + M * E
  OBVIOUS
<1>6. M * (t + i * E) = t * M + M * (i * E)
  OBVIOUS
<1>7. M * (T + E - 1 + E * d) = M * (T - 1) + M * E + M * (E * d)
  OBVIOUS
<1> QED
  BY <1>1, <1>2, <1>4, <1>5, <1>6, <1>7 DEF Overshoot

\* The largest charge is a charge and bounds the others.
LEMMA MostIsMost ==
    /\ MostReported \in Nat /\ EstimateTokens <= MostReported
    /\ \A n \in Reports : n <= MostReported
<1>1. /\ MostReported \in Reports \cup {EstimateTokens}
      /\ \A n \in Reports \cup {EstimateTokens} : n <= MostReported
  BY InputAssumption, Zenon DEF MostReported
<1> QED
  BY <1>1, InputAssumption, BudgetAssumption

\* The bound for one key.
TokensSafe(ks) ==
    Overshoot(EstimateTokens, MostReported, Tokens,
              ks.tokens, Len(ks.leases), ks.reclaimed - ks.orphaned)

KeysTokensSafe == Window > 0 /\ Tokens > 0 => \A k \in Keys : TokensSafe(keys[k])

\* A key with fewer tokens and entries and as many late settlements stays safe.
LEMMA TokensSafeLower ==
    ASSUME NEW a \in KeyState, NEW b \in KeyState, TokensSafe(a), b.tokens <= a.tokens,
           Len(b.leases) <= Len(a.leases), a.reclaimed - a.orphaned <= b.reclaimed - b.orphaned
    PROVE  TokensSafe(b)
<1> DEFINE d == a.reclaimed - a.orphaned
           e == b.reclaimed - b.orphaned
<1>1. /\ {a.tokens, b.tokens, Len(a.leases), Len(b.leases)} \subseteq Nat
      /\ d \in Int /\ e \in Int /\ EstimateTokens \in Nat /\ MostReported \in Nat
      /\ Tokens \in Int /\ d <= e
  BY SlotsNat, MostIsMost, BudgetAssumption
<1>2. Overshoot(EstimateTokens, MostReported, Tokens, a.tokens, Len(a.leases), d)
  BY DEF TokensSafe
<1> HIDE DEF d, e
<1>3. Overshoot(EstimateTokens, MostReported, Tokens, b.tokens, Len(b.leases), e)
  BY <1>1, <1>2, OvershootLower
<1> QED
  BY <1>3 DEF TokensSafe, e

\* Advancing a key keeps it within the bound.
LEMMA TokensAdvanced ==
    ASSUME IInv, NEW k \in Keys, TokensSafe(keys[k])
    PROVE  TokensSafe(Advanced(k, now))
<1> DEFINE a == Advanced(k, now)
<1>1. /\ keys \in [Keys -> KeyState] /\ keys[k] \in KeyState /\ a \in KeyState
  BY AdvancedSafe DEF IInv, TypeOK
<1>2. a.reclaimed - a.orphaned = keys[k].reclaimed - keys[k].orphaned
      /\ Slots(a) = Slots(keys[k])
  BY <1>1, AdvancedFacts
<1>3. a.orphaned >= keys[k].orphaned
  BY <1>1, ReclaimFacts, RollFacts DEF Advanced, SameSlots
<1>4. a.tokens = 0 \/ a.tokens = keys[k].tokens
  BY <1>1, AdvancedFlags
<1> HIDE DEF a
<1>5. /\ a.tokens <= keys[k].tokens /\ Len(a.leases) <= Len(keys[k].leases)
      /\ keys[k].reclaimed - keys[k].orphaned <= a.reclaimed - a.orphaned
  BY <1>1, <1>2, <1>3, <1>4, SlotsNat DEF Slots
<1> QED
  BY <1>1, <1>5, TokensSafeLower DEF a

\* Giving a slot back, with a charge of c for it, keeps the key within the bound.
LEMMA TokensReleased ==
    ASSUME NEW a \in KeyState, Slots(a) > 0, TokensSafe(a), NEW b \in KeyState,
           NEW c \in Nat, c <= MostReported, b.tokens = a.tokens + c,
           SameSlots(Release(a), b)
    PROVE  TokensSafe(b)
<1> DEFINE d == a.reclaimed - a.orphaned
           t == a.tokens
           i == Len(a.leases)
           E == EstimateTokens
           M == MostReported
<1>1. /\ t \in Nat /\ i \in Nat /\ d \in Int /\ E \in Nat /\ M \in Nat /\ Tokens \in Int
      /\ a.orphaned \in Nat /\ a.leases \in Seq(Nat)
  BY SlotsNat, MostIsMost, BudgetAssumption DEF KeyState
<1>2. Overshoot(E, M, Tokens, t, i, d) /\ c <= M
  BY DEF TokensSafe
<1>3. CASE a.orphaned > 0
  <2>1. /\ Release(a).leases = a.leases /\ Release(a).orphaned = a.orphaned - 1
        /\ Release(a).reclaimed = a.reclaimed
    BY <1>3 DEF Release, KeyState
  <2>2. b.reclaimed - b.orphaned = d + 1 /\ Len(b.leases) = i
    BY <1>1, <2>1, SlotsNat DEF SameSlots
  <2> HIDE DEF d, t, i, E, M
  <2>3. Overshoot(E, M, Tokens, t + c, i, d + 1)
    BY <1>1, <1>2, OvershootLate
  <2> QED
    BY <2>2, <2>3 DEF TokensSafe, t, E, M
<1>4. CASE ~(a.orphaned > 0)
  <2>1. a.leases # << >>
    BY <1>1, <1>4 DEF Slots
  <2>2. /\ Release(a).leases = Tail(a.leases) /\ Release(a).orphaned = a.orphaned
        /\ Release(a).reclaimed = a.reclaimed
    BY <1>4, <2>1 DEF Release, KeyState
  <2>3. Len(Tail(a.leases)) = i - 1
    BY <1>1, <2>1, HeadTailProperties
  <2>4. b.reclaimed - b.orphaned = d /\ Len(b.leases) = i - 1
    BY <2>2, <2>3 DEF SameSlots
  <2> HIDE DEF d, t, i, E, M
  <2>5. Overshoot(E, M, Tokens, t + c, i - 1, d)
    BY <1>1, <1>2, OvershootPop
  <2> QED
    BY <2>4, <2>5 DEF TokensSafe, t, E, M
<1> QED
  BY <1>3, <1>4

\* Every step keeps every key within the token bound.
LEMMA NextTokensSafe == IInv /\ KeysTokensSafe /\ [Next]_vars => KeysTokensSafe'
<1> SUFFICES ASSUME IInv, Window > 0, Tokens > 0, \A x \in Keys : TokensSafe(keys[x]),
                    [Next]_vars, NEW k \in Keys
             PROVE  TokensSafe(keys'[k])
  BY DEF KeysTokensSafe
<1>0. now \in Nat /\ keys \in [Keys -> KeyState]
  BY DEF IInv, TypeOK
<1> DEFINE a == Advanced(k, now)
<1>1. a \in KeyState /\ KeySafe(a) /\ Slots(a) = Cardinality(HeldOn(k)) /\ TokensSafe(a)
  BY AdvancedSafe, TokensAdvanced
<1>2. CASE UNCHANGED vars \/ Tick \/ \E l \in Leases : Lose(l)
  <2>1. keys' = keys
    BY <1>2 DEF vars, Tick, Lose
  <2> QED
    BY <2>1
<1>3. CASE Observe
  BY <1>1, <1>3 DEF Observe
<1>4. ASSUME NEW l \in Leases, NEW x \in Keys, Reserve(l, x)
      PROVE  TokensSafe(keys'[k])
  <2> DEFINE b == [a EXCEPT !.leases = Append(@, now)]
  <2>1. keys'[k] = IF k = x THEN b ELSE a
    BY <1>4 DEF Reserve, AdvanceAnd
  <2>2. CASE k = x
    <3>1. UnderCaps(a)
      BY <1>4, <2>2 DEF Reserve, AdmissibleKeys, Admissible
    <3>2. a.tokens + Len(a.leases) * EstimateTokens < Tokens
      BY <3>1 DEF UnderCaps, InFlight
    <3> HIDE DEF a
    <3>3. /\ b.reclaimed = a.reclaimed /\ b.orphaned = a.orphaned /\ b.tokens = a.tokens
          /\ Len(b.leases) = Len(a.leases) + 1
      BY <1>0, <1>1, AppendProperties DEF KeyState
    <3> HIDE DEF b
    <3>4. a.tokens \in Nat /\ Len(a.leases) \in Nat /\ a.reclaimed - a.orphaned \in Nat
      BY <1>1, SlotsNat DEF KeySafe
    <3>5. Overshoot(EstimateTokens, MostReported, Tokens, a.tokens, Len(a.leases) + 1,
                    a.reclaimed - a.orphaned)
      BY <3>2, <3>4, MostIsMost, BudgetAssumption, OvershootReserve
    <3> QED
      BY <2>1, <2>2, <3>3, <3>5 DEF TokensSafe
  <2> QED
    BY <1>1, <2>1, <2>2
<1>5. ASSUME NEW l \in Leases, NEW n \in Reports \cup {TokensUnknown}, Complete(l, n)
      PROVE  TokensSafe(keys'[k])
  <2> DEFINE b == SettleCompleted(a, n)
             c == IF n = TokensUnknown THEN EstimateTokens ELSE n
  <2>1. keys'[k] = IF k = holder[l] THEN b ELSE a
    BY <1>5 DEF Complete, AdvanceAnd
  <2>2. CASE k = holder[l]
    <3>1. Cardinality(HeldOn(k)) > 0
      BY <1>5, <2>2, SettleHeld DEF Complete
    <3>2. c \in Nat /\ c <= MostReported /\ n \in Nat \cup {TokensUnknown}
      BY MostIsMost, BudgetAssumption, InputAssumption
    <3> HIDE DEF a
    <3>3. Release(a) \in KeyState /\ Release(a).tokens = a.tokens
      BY <1>1, ReleaseFacts, SlotOpsKeepFlags
    <3>4. b \in KeyState /\ SameSlots(Release(a), b)
      BY <3>2, <3>3, ChargeFacts DEF SettleCompleted
    <3>5. b.tokens = a.tokens + c
      <4> DEFINE r == Release(a)
                 u == r.tokens + c
                 q == r.requests + 1
                 e == r.estimated \/ n = TokensUnknown
      <4> HIDE DEF r
      <4>1. r \in KeyState /\ r.tokens = a.tokens
        BY <3>3 DEF r
      <4>2. Charge(r, n) = [r EXCEPT !.requests = q, !.tokens = u, !.estimated = e]
        BY DEF Charge
      <4>3. q \in Nat /\ u \in Nat /\ e \in BOOLEAN
        BY <3>2, <4>1, SlotsNat
      <4> HIDE DEF q, u, e
      <4>4. Charge(r, n) \in KeyState /\ Charge(r, n).tokens = u
        BY <4>1, <4>2, <4>3 DEF KeyState
      <4>5. \A s \in KeyState : ApplyCaps(s).tokens = s.tokens
        BY DEF ApplyCaps, KeyState
      <4>6. b = ApplyCaps(Charge(r, n))
        BY DEF SettleCompleted, r
      <4> HIDE DEF b
      <4> QED
        BY <4>1, <4>4, <4>5, <4>6 DEF u
    <3> HIDE DEF b, c
    <3>6. TokensSafe(b)
      BY <1>1, <3>1, <3>2, <3>4, <3>5, TokensReleased
    <3> QED
      BY <2>1, <2>2, <3>6
  <2> QED
    BY <1>1, <2>1, <2>2
<1>6. ASSUME NEW l \in Leases, Fail(l)
      PROVE  TokensSafe(keys'[k])
  <2> DEFINE b == Release(a)
  <2>1. keys'[k] = IF k = holder[l] THEN b ELSE a
    BY <1>6 DEF Fail, AdvanceAnd
  <2>2. CASE k = holder[l]
    <3>1. Cardinality(HeldOn(k)) > 0
      BY <1>6, <2>2, SettleHeld DEF Fail
    <3> HIDE DEF a
    <3>2. b \in KeyState /\ b.tokens = a.tokens + 0 /\ SameSlots(Release(a), b)
      <4>1. Release(a) \in KeyState
        BY <1>1, ReleaseFacts
      <4>2. Release(a).tokens = a.tokens
        BY <1>1, SlotOpsKeepFlags
      <4>3. a.tokens + 0 = a.tokens
        BY <1>1, SlotsNat
      <4> QED
        BY <4>1, <4>2, <4>3 DEF SameSlots
    <3>3. 0 \in Nat /\ 0 <= MostReported
      BY MostIsMost
    <3> HIDE DEF b
    <3>4. TokensSafe(b)
      BY <1>1, <3>1, <3>2, <3>3, TokensReleased
    <3> QED
      BY <2>1, <2>2, <3>4
  <2> QED
    BY <1>1, <2>1, <2>2
<1>7. ASSUME NEW x \in Keys, NEW u \in Int, RetireAt(x, u)
      PROVE  TokensSafe(keys'[k])
  <2>1. keys'[k] = IF k = x THEN RetireKey(a, u) ELSE a
    BY <1>7 DEF RetireAt, AdvanceAnd
  <2> HIDE DEF a
  <2>2. RetireKey(a, u).tokens = a.tokens /\ SameSlots(a, RetireKey(a, u))
    BY <1>1 DEF RetireKey, KeyState, SameSlots
  <2> QED
    BY <1>1, <2>1, <2>2 DEF TokensSafe, SameSlots
<1>8. CASE \E x \in Keys, d \in Cooldowns : RetireWithReason(x, d)
  <2>1. PICK x \in Keys, d \in Cooldowns : RetireAt(x, now + d)
    BY <1>8 DEF RetireWithReason
  <2>2. now + d \in Int
    BY <1>0, InputAssumption
  <2> QED
    BY <1>7, <2>1, <2>2
<1>9. CASE \E x \in Keys : RetireForWindow(x)
  <2> DEFINE u == IF Window > 0 THEN WindowStartAt(now) + Window ELSE now + QuotaCooldown
  <2>1. PICK x \in Keys : RetireAt(x, u)
    BY <1>9 DEF RetireForWindow
  <2>2. u \in Int
    BY <1>0, WindowStartNat, BudgetAssumption, TimeAssumption DEF IInv
  <2> HIDE DEF u
  <2> QED
    BY <1>7, <2>1, <2>2
<1> QED
  BY <1>2, <1>3, <1>4, <1>5, <1>6, <1>8, <1>9 DEF Next

\* The advisory token budget is overshot by no more than the leases admitted
\* under the estimate can report beyond it (admissibleLocked, settleLocked).
THEOREM TokensBounded == Spec => []TokenOvershootBound
<1>1. Init => KeysTokensSafe
  <2> SUFFICES ASSUME Init, Tokens > 0, NEW k \in Keys PROVE TokensSafe(keys[k])
    BY DEF KeysTokensSafe
  <2>1. /\ keys[k].tokens = 0 /\ Len(keys[k].leases) = 0
        /\ keys[k].reclaimed = 0 /\ keys[k].orphaned = 0
    BY DEF Init, FreshKey
  <2>2. /\ Tokens + EstimateTokens - 1 + EstimateTokens * 0 \in Nat /\ EstimateTokens \in Nat
        /\ MostReported \in Nat
    BY MostIsMost, BudgetAssumption
  <2>3. MostReported * (Tokens + EstimateTokens - 1 + EstimateTokens * 0) \in Nat
    BY <2>2
  <2>4. EstimateTokens * (0 + MostReported * 0) = 0
    BY <2>2
  <2> QED
    BY <2>1, <2>3, <2>4 DEF TokensSafe, Overshoot
<1>2. KeysTokensSafe => TokenOvershootBound
  BY DEF KeysTokensSafe, TokensSafe, Overshoot, TokenOvershootBound, InFlight
<1>3. Spec => []KeysTokensSafe
  BY IInvHolds, <1>1, NextTokensSafe, PTL DEF Spec
<1> QED
  BY <1>2, <1>3, PTL
=============================================================================
