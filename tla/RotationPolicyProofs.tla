------------------------ MODULE RotationPolicyProofs ------------------------
(***************************************************************************)
(* Proofs about the selection policies, for any number of keys and leases. *)
(* A policy's answer is a position among the candidates, so the first      *)
(* lemmas show that every position below their number names a candidate.   *)
(* With that, a store with a policy implements the store with an arbitrary *)
(* choice, and RotationStoreProofs applies to it.                          *)
(***************************************************************************)
EXTENDS RotationPolicy, RotationStoreProofs

\* Every position names an element of a finite set in ascending order.
LEMMA RankExists ==
    ASSUME NEW T \in SUBSET Nat, IsFiniteSet(T), NEW i \in Nat, i < Cardinality(T)
    PROVE  \E k \in T : Cardinality({x \in T : x < k}) = i
<1> DEFINE Below(k) == {x \in T : x < k}
           Bad == {j \in Nat : j < Cardinality(T) /\ \A k \in T : Cardinality(Below(k)) # j}
<1>0. \A k : IsFiniteSet(Below(k)) /\ Cardinality(Below(k)) \in Nat
  BY FewerOf
<1>1. SUFFICES ASSUME Bad # {} PROVE FALSE
  BY <1>1
<1>2. PICK j \in Bad : \A y \in Bad : j <= y
  <2>1. Bad \in SUBSET Nat
    OBVIOUS
  <2> HIDE DEF Bad
  <2> QED
    BY <1>1, <2>1, NatHasLeast
<1>3. Cardinality(T) \in Nat /\ j \in Nat /\ j < Cardinality(T)
      /\ \A k \in T : Cardinality(Below(k)) # j
  BY FS_CardinalityType
<1>4. \A k, x : x \in Below(k) <=> x \in T /\ x < k
  OBVIOUS
<1>5. ASSUME NEW y \in Nat, y < j PROVE \E k \in T : Cardinality(Below(k)) = y
  <2>1. y < Cardinality(T) /\ ~(j <= y)
    BY <1>3, <1>5
  <2>2. y \notin Bad
    BY <1>2, <2>1, Zenon
  <2> QED
    BY <2>1, <2>2, Zenon
<1> HIDE DEF Bad, Below
<1>6. CASE j = 0
  <2>1. T # {}
    BY <1>3, <1>6, FS_EmptySet
  <2>2. PICK m \in T : \A y \in T : m <= y
    BY <2>1, NatHasLeast
  <2>3. \A y \in T : y \in Nat /\ m \in Nat /\ ~(y < m)
    BY <2>2
  <2>4. Below(m) = {}
    BY <1>4, <2>3
  <2> QED
    BY <1>3, <1>6, <2>4, FS_EmptySet
<1>7. CASE j # 0
  <2>1. j - 1 \in Nat /\ j - 1 < j
    BY <1>3, <1>7
  <2>2. PICK k \in T : Cardinality(Below(k)) = j - 1
    BY <1>5, <2>1
  <2> DEFINE B == Below(k)
             Lower == B \cup {k}
             Upper == T \ Lower
  <2>3. IsFiniteSet(B) /\ k \notin B /\ B \subseteq T /\ Cardinality(B) = j - 1
    BY <1>0, <1>4, <2>2
  <2>4. Cardinality(Lower) = j
    <3> HIDE DEF B
    <3>1. Cardinality(Lower) = Cardinality(B) + 1
      BY <2>3, FS_AddElement
    <3> QED
      BY <1>3, <2>3, <3>1
  <2>5. Upper # {}
    <3>1. Upper = {} => T = Lower
      BY <2>3
    <3> HIDE DEF Lower, Upper
    <3> QED
      BY <1>3, <2>4, <3>1
  <2>6. PICK u \in Upper : \A y \in Upper : u <= y
    BY <2>5, NatHasLeast
  <2>7. u \in T /\ u \in Nat /\ k \in Nat /\ k < u
    <3>1. u \in T /\ u \notin B /\ u # k
      OBVIOUS
    <3>2. ~(u < k)
      BY <1>4, <3>1
    <3> QED
      BY <3>1, <3>2
  <2>8. ASSUME NEW x \in T PROVE x < u <=> x \in Lower
    <3>1. x \in Nat /\ (x \in Upper => u <= x)
      BY <2>6
    <3>2. x \in B <=> x < k
      BY <1>4
    <3>3. CASE x \in Lower
      BY <2>7, <3>1, <3>2, <3>3
    <3>4. CASE x \notin Lower
      BY <2>7, <3>1, <3>4
    <3> QED
      BY <3>3, <3>4
  <2>9. Below(u) = Lower
    BY <1>4, <2>3, <2>8
  <2> QED
    BY <1>3, <2>4, <2>7, <2>9
<1> QED
  BY <1>6, <1>7

\* KeyAt is the candidate at a position, and no other position names it.
LEMMA KeyAtFacts ==
    ASSUME NEW T \in SUBSET Nat, IsFiniteSet(T), NEW i \in Nat, i < Cardinality(T)
    PROVE  KeyAt(T, i) \in T /\ Cardinality({x \in T : x < KeyAt(T, i)}) = i
BY RankExists, Zenon DEF KeyAt

\* A set of keys is a finite set of numbers.
LEMMA KeySetFacts ==
    ASSUME NEW S \in SUBSET Keys
    PROVE  /\ S \in SUBSET Nat /\ IsFiniteSet(S) /\ Cardinality(S) \in Nat
           /\ Cardinality(S) <= Cardinality(Keys)
           /\ S # {} => Cardinality(S) \in 1..Cardinality(Keys)
<1>1. IsFiniteSet(S) /\ Cardinality(S) \in Nat /\ Cardinality(S) <= Cardinality(Keys)
      /\ Cardinality(Keys) \in Nat
  BY KeysAssumption, FewerOf
<1>2. S \in SUBSET Nat
  <2>1. \A c \in Nat : 1..c \subseteq Nat
    OBVIOUS
  <2> QED
    BY <1>1, <2>1, PolicyAssumption
<1>3. S # {} => Cardinality(S) # 0
  BY <1>1, FS_EmptySet
<1> QED
  BY <1>1, <1>2, <1>3

\* pickMin answers with one of the candidates of the lowest score.
LEMMA PickMinFacts ==
    ASSUME NEW S \in SUBSET Keys, S # {}, NEW score \in [S -> Nat], cursor \in Nat
    PROVE  PickMin(S, score) \in S /\ \A x \in S : score[PickMin(S, score)] <= score[x]
<1> DEFINE tied == {k \in S : \A x \in S : score[k] <= score[x]}
           R == {score[k] : k \in S}
           n == Cardinality(tied)
<1>1. R \in SUBSET Nat /\ R # {}
  OBVIOUS
<1>2. PICK m \in R : \A y \in R : m <= y
  <2> HIDE DEF R
  <2> QED
    BY <1>1, NatHasLeast
<1>3. tied # {}
  <2>1. PICK k \in S : m = score[k]
    BY <1>2
  <2>2. k \in tied
    BY <1>2, <2>1
  <2> QED
    BY <2>2
<1>4. tied \in SUBSET Keys
  OBVIOUS
<1>5. PickMin(S, score) = KeyAt(tied, cursor % n)
  BY DEF PickMin
<1>6. tied \in SUBSET Nat /\ IsFiniteSet(tied) /\ n \in Nat /\ n # 0
  <2> HIDE DEF tied
  <2>1. n \in Nat /\ n \in 1..Cardinality(Keys) /\ Cardinality(Keys) \in Nat
    BY <1>3, <1>4, KeySetFacts, KeysAssumption, FS_CardinalityType
  <2>2. n # 0
    BY <2>1
  <2> QED
    BY <1>4, <2>1, <2>2, KeySetFacts
<1>7. PickMin(S, score) \in tied
  <2> HIDE DEF tied
  <2>0. n \in Nat /\ n # 0
    BY <1>6
  <2>1. cursor % n \in Nat /\ cursor % n < n
    <3> HIDE DEF n
    <3> QED
      BY <2>0
  <2> QED
    BY <1>5, <1>6, <2>1, KeyAtFacts
<1> QED
  BY <1>7

\* The candidates are keys.
LEMMA AdmissibleAreKeys == AdmissibleKeys \in SUBSET Keys
BY DEF AdmissibleKeys

-----------------------------------------------------------------------------
(* A store with a policy is a store.                                       *)

PolicyShape == policy \in PolicyNames /\ cursor \in 0 .. CursorPeriod - 1

\* Every step of a store with a policy is a step of the store.
LEMMA PolicyStepRefines == [PolicyNext]_policyVars => [Next]_vars
<1> SUFFICES ASSUME [PolicyNext]_policyVars PROVE [Next]_vars
  OBVIOUS
<1>1. ASSUME NEW l \in Leases, PolicyReserve(l) PROVE Next
  <2>1. PICK k : Reserve(l, k)
    BY <1>1 DEF PolicyReserve
  <2>2. k \in Keys
    BY <2>1, AdmissibleAreKeys DEF Reserve
  <2> QED
    BY <2>1, <2>2 DEF Next
<1>2. CASE UNCHANGED policyVars
  BY <1>2 DEF policyVars, vars
<1>3. CASE PolicyNext /\ \A l \in Leases : ~PolicyReserve(l)
  BY <1>3 DEF PolicyNext, Next
<1> QED
  BY <1>1, <1>2, <1>3

\* The shipped policies choose as the store's contract allows: everything
\* proved of the store with an arbitrary choice holds with each of them.
THEOREM PoliciesImplementStore == PolicySpec => Spec
<1>1. PolicyInit => Init
  BY DEF PolicyInit
<1> QED
  BY <1>1, PolicyStepRefines, PTL DEF PolicySpec, Spec

\* A policy is fixed and its cursor stays below its period.
LEMMA PolicyShapeStep == PolicyShape /\ [PolicyNext]_policyVars => PolicyShape'
<1> SUFFICES ASSUME PolicyShape, [PolicyNext]_policyVars PROVE PolicyShape'
  OBVIOUS
<1>1. ASSUME NEW l \in Leases, PolicyReserve(l) PROVE PolicyShape'
  <2>1. policy' = policy /\ cursor' = (cursor + 1) % CursorPeriod
    BY <1>1 DEF PolicyReserve
  <2>2. CursorPeriod \in Nat \ {0} /\ cursor + 1 \in Nat
    BY PolicyAssumption DEF PolicyShape
  <2>3. \A a \in Nat, p \in Nat \ {0} : a % p \in 0 .. p - 1
    OBVIOUS
  <2> QED
    BY <2>1, <2>2, <2>3 DEF PolicyShape
<1>2. CASE UNCHANGED <<policy, cursor>>
  BY <1>2 DEF PolicyShape
<1> QED
  BY <1>1, <1>2 DEF PolicyNext, policyVars

\* What holds of the store and of its policy in every state.
LEMMA PolicyInvariant == PolicySpec => [](IInv /\ PolicyShape)
<1>1. PolicyInit => PolicyShape
  BY PolicyAssumption DEF PolicyInit, PolicyShape
<1> QED
  BY <1>1, PolicyShapeStep, PoliciesImplementStore, IInvHolds, PTL DEF PolicySpec

\* The load of a key is a number.
LEMMA LoadNat ==
    ASSUME IInv, NEW k \in Keys
    PROVE  Load(k) \in Nat /\ Advanced(k, now).tokens \in Nat
<1>1. Advanced(k, now) \in KeyState
  BY AdvancedSafe
<1> QED
  BY <1>1, SlotsNat DEF Load, InFlight

\* byLoad answers with a candidate of the lowest load.
LEMMA ByLoadFacts ==
    ASSUME IInv, PolicyShape, NEW S \in SUBSET Keys, S # {}
    PROVE  ByLoad(S) \in S /\ \A x \in S : Load(ByLoad(S)) <= Load(x)
<1> DEFINE score == [k \in S |-> Load(k)]
<1>1. score \in [S -> Nat] /\ cursor \in Nat
  BY LoadNat DEF PolicyShape
<1>2. ByLoad(S) = PickMin(S, score)
  BY DEF ByLoad
<1>3. \A x \in S : score[x] = Load(x)
  OBVIOUS
<1> HIDE DEF score
<1>4. PickMin(S, score) \in S /\ \A x \in S : score[PickMin(S, score)] <= score[x]
  BY <1>1, PickMinFacts
<1> QED
  BY <1>2, <1>3, <1>4

-----------------------------------------------------------------------------
(* leastUsedPolicy.                                                        *)

\* A burst that settles nothing is spread: a reservation never puts its key
\* more than one ahead of another that could have taken it (byLoad counts
\* accepted work, settled or not; pickMin breaks ties by the cursor).
THEOREM BurstsAreSpread == PolicySpec => NoStampede
<1>1. ASSUME IInv, PolicyShape, [PolicyNext]_policyVars, NEW k \in Keys,
             policy = "least_used", cursor' # cursor,
             InFlight(keys'[k]) > InFlight(Advanced(k, now)), NEW x \in AdmissibleKeys
      PROVE  keys'[k].requests + InFlight(keys'[k])
                <= Advanced(x, now).requests + InFlight(Advanced(x, now)) + 1
  <2>1. PICK l \in Leases : PolicyReserve(l)
    BY <1>1 DEF PolicyNext, policyVars
  <2> DEFINE S == AdmissibleKeys
             c == Select(S)
             a == Advanced(k, now)
             b == [a EXCEPT !.leases = Append(@, now)]
  <2>2. S # {} /\ Reserve(l, c)
    BY <2>1 DEF PolicyReserve
  <2>3. c = ByLoad(S)
    BY <1>1 DEF Select
  <2>4. c \in S /\ Load(c) <= Load(x)
    BY <1>1, <2>2, <2>3, AdmissibleAreKeys, ByLoadFacts
  <2>5. keys'[k] = IF k = c THEN b ELSE a
    BY <2>2 DEF Reserve, AdvanceAnd
  <2>6. a \in KeyState /\ now \in Nat
    BY <1>1, AdvancedSafe DEF IInv, TypeOK
  <2>7. Len(a.leases) \in Nat /\ Load(x) \in Nat /\ Load(k) \in Nat
    BY <1>1, <2>6, SlotsNat, LoadNat, AdmissibleAreKeys
  <2>8. k = c
    BY <1>1, <2>5, <2>7 DEF InFlight
  <2> HIDE DEF a, c, S
  <2>9. b.requests = a.requests /\ Len(b.leases) = Len(a.leases) + 1
    BY <2>6, AppendProperties DEF KeyState
  <2>10. keys'[k] = b /\ Load(k) <= Load(x)
    BY <2>4, <2>5, <2>8
  <2>11. Load(k) = a.requests + Len(a.leases) /\ a.requests \in Nat
    BY <2>6, SlotsNat DEF Load, InFlight, a
  <2>12. Load(x) = Advanced(x, now).requests + InFlight(Advanced(x, now))
    BY DEF Load
  <2>13. b.requests + Len(b.leases) = Load(k) + 1
    BY <2>7, <2>9, <2>11
  <2> HIDE DEF b
  <2> QED
    BY <2>7, <2>10, <2>12, <2>13 DEF InFlight
<1>2. IInv /\ PolicyShape /\ [PolicyNext]_policyVars =>
          [\A k \in Keys :
              policy = "least_used" /\ cursor' # cursor
                /\ InFlight(keys'[k]) > InFlight(Advanced(k, now))
              => \A x \in AdmissibleKeys :
                    keys'[k].requests + InFlight(keys'[k])
                        <= Advanced(x, now).requests + InFlight(Advanced(x, now)) + 1]_policyVars
  BY <1>1
<1> QED
  BY <1>2, PolicyInvariant, PTL DEF PolicySpec, NoStampede

-----------------------------------------------------------------------------
(* roundRobinPolicy. The picks since the candidates last changed are the   *)
(* keys at the positions before the cursor, going round; there are at most *)
(* as many as candidates, so no position occurs twice.                     *)

\* The position d before position c among n, going round.
Before(c, d, n) == IF d <= c THEN c - d ELSE c - d + n

RoundInv ==
    LET S == recent.from
        n == Cardinality(S)
    IN  /\ recent \in [from: SUBSET Keys, picks: Seq(Keys)]
        /\ Len(recent.picks) <= n
        /\ \A i \in 1..Len(recent.picks) :
              recent.picks[i] = KeyAt(S, Before(cursor % n, Len(recent.picks) + 1 - i, n))

RoundRobinInv == policy = "round_robin" => RoundInv

\* A number is a multiple and a remainder in one way only.
LEMMA RemainderIs ==
    ASSUME NEW n \in Nat \ {0}, NEW q \in Int, NEW r \in 0 .. n - 1
    PROVE  (n * q + r) % n = r
<1> DEFINE a == n * q + r
           m == a % n
           d == a \div n
<1>1. a \in Int
  OBVIOUS
<1>2. d \in Int /\ m \in 0 .. n - 1 /\ a = n * d + m
  <2> HIDE DEF a
  <2> QED
    BY <1>1
<1>3. n * (d - q) = r - m
  <2> HIDE DEF d, m
  <2> QED
    BY <1>2
<1>4. d - q = 0
  <2> DEFINE e == d - q
  <2>1. e \in Int /\ n * e = r - m /\ r - m < n /\ r - m > -n
    BY <1>2, <1>3
  <2> HIDE DEF e, m
  <2>2. m \in Int
    BY <1>2
  <2>3. CASE e >= 1
    <3>1. n * (e - 1) \in Nat
      BY <2>1, <2>3
    <3>2. n * (e - 1) = n * e - n
      BY <2>1
    <3> QED
      BY <2>1, <2>2, <3>1, <3>2
  <2>4. CASE e <= -1
    <3>1. n * (-1 - e) \in Nat
      BY <2>1, <2>4
    <3>2. n * (-1 - e) = -n - n * e
      BY <2>1
    <3> QED
      BY <2>1, <2>2, <3>1, <3>2
  <2> QED
    BY <2>1, <2>3, <2>4 DEF e
<1>5. r = m
  <2> HIDE DEF d, m
  <2> QED
    BY <1>2, <1>3, <1>4
<1> QED
  BY <1>5

\* The position of the cursor, the one after the cursor advanced, and that one
\* position comes right after another among n.
Position(c, n) == c % n
NextPosition(c, p, n) == ((c + 1) % p) % n
Follows(i, j, n) == j = IF i + 1 = n THEN 0 ELSE i + 1

\* Advancing the cursor, kept modulo a multiple of n, advances its position.
LEMMA CursorAdvances ==
    ASSUME NEW P \in Nat \ {0}, NEW c \in 0 .. P - 1, NEW n \in Nat \ {0}, P % n = 0
    PROVE  /\ Position(c, n) \in 0 .. n - 1
           /\ Follows(Position(c, n), NextPosition(c, P, n), n)
<1> USE DEF Position, NextPosition, Follows
<1> DEFINE r == c % n
           q == c \div n
           m == P \div n
<1>1. r \in 0 .. n - 1 /\ q \in Int /\ c = n * q + r
  OBVIOUS
<1>2. m \in Int /\ P = n * m
  OBVIOUS
<1> HIDE DEF r, q, m
<1>3. CASE c + 1 = P
  <2>1. (c + 1) % P = 0 /\ 0 % n = 0
    BY <1>3
  <2>2. r = n - 1
    <3>1. c = n * (m - 1) + (n - 1)
      BY <1>2, <1>3
    <3>2. c % n = n - 1
      BY <1>2, <3>1, RemainderIs
    <3> QED
      BY <3>2 DEF r
  <2> QED
    BY <1>1, <2>1, <2>2 DEF r
<1>4. CASE c + 1 # P
  <2>1. (c + 1) % P = c + 1
    BY <1>4
  <2>2. CASE r + 1 = n
    <3>1. c + 1 = n * (q + 1) + 0
      BY <1>1, <2>2
    <3>2. (c + 1) % n = 0
      BY <1>1, <3>1, RemainderIs
    <3> QED
      BY <1>1, <2>1, <2>2, <3>2 DEF r
  <2>3. CASE r + 1 # n
    <3>1. c + 1 = n * q + (r + 1) /\ r + 1 \in 0 .. n - 1
      BY <1>1, <2>3
    <3>2. (c + 1) % n = r + 1
      BY <1>1, <3>1, RemainderIs
    <3> QED
      BY <1>1, <2>1, <2>3, <3>2 DEF r
  <2> QED
    BY <2>2, <2>3
<1> QED
  BY <1>3, <1>4

\* A selection extends the round, or begins another one.
LEMMA RoundStep ==
    ASSUME PolicyShape, policy = "round_robin", RoundInv, NEW l \in Leases, PolicyReserve(l)
    PROVE  RoundInv'
<1> DEFINE S == AdmissibleKeys
           n == Cardinality(S)
           k == Select(S)
           c == cursor % n
           d == cursor' % n
<1>1. S \in SUBSET Keys /\ S # {} /\ k \in Keys
  BY AdmissibleAreKeys DEF PolicyReserve, Reserve
<1>2. n \in Nat \ {0} /\ n \in 1..Cardinality(Keys)
  <2> HIDE DEF S
  <2>1. n \in Nat /\ n \in 1..Cardinality(Keys) /\ Cardinality(Keys) \in Nat
    BY <1>1, KeySetFacts, KeysAssumption, FS_CardinalityType
  <2> HIDE DEF n
  <2> QED
    BY <2>1
<1>3. k = KeyAt(S, c)
  BY DEF Select
<1>4. cursor' = (cursor + 1) % CursorPeriod
  BY DEF PolicyReserve
<1>5. c \in 0 .. n - 1 /\ d = IF c + 1 = n THEN 0 ELSE c + 1
  <2>1. CursorPeriod \in Nat \ {0} /\ CursorPeriod % n = 0 /\ cursor \in 0 .. CursorPeriod - 1
    BY <1>2, PolicyAssumption DEF PolicyShape
  <2> HIDE DEF n
  <2>2. n \in Nat \ {0}
    BY <1>2
  <2>3. /\ Position(cursor, n) \in 0 .. n - 1
        /\ Follows(Position(cursor, n), NextPosition(cursor, CursorPeriod, n), n)
    BY <2>1, <2>2, CursorAdvances, Zenon
  <2> QED
    BY <1>4, <2>3 DEF Position, NextPosition, Follows
<1> DEFINE w == recent.picks
<1>6. recent \in [from: SUBSET Keys, picks: Seq(Keys)] /\ w \in Seq(Keys)
  BY DEF RoundInv
<1>7. CASE recent.from = S /\ Len(w) < n
  <2>1. recent' = [from |-> S, picks |-> Append(w, k)]
    BY <1>7 DEF PolicyReserve
  <2>2. \A i \in 1..Len(w) : w[i] = KeyAt(S, Before(c, Len(w) + 1 - i, n))
    BY <1>7 DEF RoundInv
  <2> HIDE DEF w, c, d, k, n, S
  <2>3. /\ Append(w, k) \in Seq(Keys) /\ Len(w) \in Nat /\ Len(Append(w, k)) = Len(w) + 1
        /\ \A i \in 1..Len(w) : Append(w, k)[i] = w[i]
        /\ Append(w, k)[Len(w) + 1] = k
    BY <1>1, <1>6, AppendProperties
  <2>4. ASSUME NEW i \in 1 .. Len(w) + 1
        PROVE  Append(w, k)[i] = KeyAt(S, Before(d, Len(w) + 1 + 1 - i, n))
    <3>1. CASE i = Len(w) + 1
      <4>1. Before(d, Len(w) + 1 + 1 - i, n) = c
        BY <1>2, <1>5, <2>3, <3>1 DEF Before
      <4> QED
        BY <1>3, <2>3, <3>1, <4>1
    <3>2. CASE i # Len(w) + 1
      <4>1. i \in 1..Len(w)
        BY <2>3, <3>2
      <4>2. Before(d, Len(w) + 1 + 1 - i, n) = Before(c, Len(w) + 1 - i, n)
        BY <1>2, <1>5, <1>7, <2>3, <4>1 DEF Before
      <4> QED
        BY <2>2, <2>3, <4>1, <4>2
    <3> QED
      BY <3>1, <3>2
  <2>5. recent'.from = S /\ recent'.picks = Append(w, k) /\ Len(w) + 1 <= n
    BY <1>2, <1>7, <2>1, <2>3
  <2>6. recent' \in [from: SUBSET Keys, picks: Seq(Keys)]
    BY <1>1, <2>1, <2>3
  <2> QED
    BY <2>3, <2>4, <2>5, <2>6 DEF RoundInv, d, n
<1>8. CASE ~(recent.from = S /\ Len(w) < n)
  <2>1. recent' = [from |-> S, picks |-> <<k>>]
    BY <1>8 DEF PolicyReserve
  <2> HIDE DEF w, c, d, k, n, S
  <2>2. recent' \in [from: SUBSET Keys, picks: Seq(Keys)]
    <3>1. <<k>> \in Seq(Keys)
      BY <1>1
    <3> QED
      BY <1>1, <2>1, <3>1
  <2>3. recent'.from = S /\ recent'.picks = <<k>> /\ Len(<<k>>) = 1 /\ 1 <= n
    BY <1>2, <2>1
  <2>4. ASSUME NEW i \in 1..1 PROVE <<k>>[i] = KeyAt(S, Before(d, 1 + 1 - i, n))
    <3>1. i = 1 /\ Before(d, 1 + 1 - i, n) = c
      BY <1>2, <1>5 DEF Before
    <3> QED
      BY <1>3, <3>1
  <2> QED
    BY <2>2, <2>3, <2>4 DEF RoundInv, d, n
<1> QED
  BY <1>7, <1>8

\* The rounds of a round-robin route are kept by every step.
LEMMA RoundRobinStep ==
    PolicyShape /\ RoundRobinInv /\ [PolicyNext]_policyVars => RoundRobinInv'
<1> SUFFICES ASSUME PolicyShape, RoundRobinInv, [PolicyNext]_policyVars PROVE RoundRobinInv'
  OBVIOUS
<1>1. ASSUME NEW l \in Leases, PolicyReserve(l) PROVE RoundRobinInv'
  <2>1. policy' = policy
    BY <1>1 DEF PolicyReserve
  <2> QED
    BY <1>1, <2>1, RoundStep DEF RoundRobinInv
<1>2. CASE UNCHANGED <<policy, cursor, recent>>
  BY <1>2 DEF RoundRobinInv, RoundInv
<1> QED
  BY <1>1, <1>2 DEF PolicyNext, policyVars

\* Round robin is fair on a moving set of candidates: until it changes, no key
\* is used twice before every other was used once (roundRobinPolicy.Select).
THEOREM RoundRobinIsFair == PolicySpec => []RotationIsFair
<1>1. PolicyInit => RoundRobinInv
  <2> SUFFICES ASSUME PolicyInit PROVE RoundInv
    BY DEF RoundRobinInv
  <2>1. recent.from = {} /\ recent.picks = << >> /\ Len(recent.picks) = 0
        /\ recent \in [from: SUBSET Keys, picks: Seq(Keys)]
    BY DEF PolicyInit
  <2>2. Cardinality({}) = 0
    BY FS_EmptySet
  <2> QED
    BY <2>1, <2>2 DEF RoundInv
<1>2. PolicyShape /\ RoundRobinInv => RotationIsFair
  <2> SUFFICES ASSUME PolicyShape, RoundInv,
                      NEW i \in 1..Len(recent.picks), NEW j \in 1..Len(recent.picks), i # j
               PROVE  recent.picks[i] # recent.picks[j]
    BY DEF RotationIsFair, RoundRobinInv
  <2> DEFINE S == recent.from
             n == Cardinality(S)
             c == cursor % n
             len == Len(recent.picks)
             p(m) == Before(c, len + 1 - m, n)
  <2>1. S \in SUBSET Keys /\ len \in Nat /\ len <= n
    BY DEF RoundInv
  <2>2. S \in SUBSET Nat /\ IsFiniteSet(S) /\ n \in Nat
    BY <2>1, KeySetFacts
  <2>3. recent.picks[i] = KeyAt(S, p(i)) /\ recent.picks[j] = KeyAt(S, p(j))
    BY DEF RoundInv
  <2>4. i \in Nat /\ j \in Nat /\ 1 <= i /\ i <= len /\ 1 <= j /\ j <= len
    BY <2>1
  <2> HIDE DEF len, n, S
  <2>5. c \in 0 .. n - 1
    <3>1. n \in Nat \ {0} /\ cursor \in Nat
      BY <2>1, <2>2, <2>4 DEF PolicyShape
    <3> QED
      BY <3>1
  <2> HIDE DEF c
  <2>6. /\ p(i) \in Nat /\ p(i) < n /\ p(j) \in Nat /\ p(j) < n /\ p(i) # p(j)
    BY <2>1, <2>2, <2>4, <2>5 DEF Before
  <2> HIDE DEF p
  <2>7. /\ Cardinality({x \in S : x < KeyAt(S, p(i))}) = p(i)
        /\ Cardinality({x \in S : x < KeyAt(S, p(j))}) = p(j)
    BY <2>2, <2>6, KeyAtFacts DEF n
  <2> QED
    BY <2>3, <2>6, <2>7
<1> QED
  BY <1>1, <1>2, RoundRobinStep, PolicyInvariant, PTL DEF PolicySpec

-----------------------------------------------------------------------------
(* leastTokensPolicy. What a key is committed to, its charges and the most *)
(* its unsettled leases may report, changes only downwards while leases    *)
(* settle; a reservation adds to it, but goes to a key of the least total. *)
(* The leases counted include the reclaimed ones, which may still report:  *)
(* that is what makes the bound inductive.                                 *)

Committed(ks) == ks.tokens + MostReported * Slots(ks)
OneRound == MostReported * Cardinality(Leases)

Spread(f) ==
    (\A k \in Keys : ~f[k].estimated) =>
        \A k, x \in Keys : f[x].retiredUntil = 0 => Committed(f[k]) <= f[x].tokens + OneRound

LeastTokensUncapped == policy = "least_tokens" /\ Requests = 0 /\ Tokens = 0

SkewInv ==
    LeastTokensUncapped => (\A k \in Keys : ~CappedOut(keys[k])) /\ Spread(keys)

\* Only settling with an unknown total marks a key as estimated, and only a
\* roll clears the mark.
LEMMA EstimatedFacts ==
    ASSUME NEW ks \in KeyState, NEW t
    PROVE  /\ ReclaimStale(ks, t).estimated = ks.estimated
           /\ ~RollKey(ks, t).estimated
           /\ Release(ks).estimated = ks.estimated
           /\ [ks EXCEPT !.leases = Append(@, t)].estimated = ks.estimated
BY DEF KeyState, ReclaimStale, RollKey, Release

\* A key's commitment is a number, at most its total and one round.
LEMMA CommittedFacts ==
    ASSUME NEW ks \in KeyState
    PROVE  /\ Committed(ks) \in Nat /\ OneRound \in Nat /\ ks.tokens <= Committed(ks)
           /\ Slots(ks) <= Cardinality(Leases) => Committed(ks) <= ks.tokens + OneRound
<1>1. MostReported \in Nat /\ Cardinality(Leases) \in Nat /\ ks.tokens \in Nat /\ Slots(ks) \in Nat
  BY MostIsMost, LeasesAssumption, FS_CardinalityType, SlotsNat
<1>2. MostReported * Slots(ks) \in Nat /\ OneRound \in Nat
  BY <1>1 DEF OneRound
<1>3. Slots(ks) <= Cardinality(Leases) => MostReported * Slots(ks) <= OneRound
  BY <1>1, TimesMono DEF OneRound
<1> QED
  BY <1>1, <1>2, <1>3 DEF Committed

\* A key holds at most all leases.
LEMMA SlotsAtMost ==
    ASSUME IInv, NEW k \in Keys
    PROVE  Slots(Advanced(k, now)) <= Cardinality(Leases)
<1>1. HeldOn(k) \subseteq Leases
  BY DEF HeldOn
<1> QED
  BY <1>1, AdvancedSafe, LeasesAssumption, FewerOf

\* Advancing the route keeps the keys close together.
LEMMA SpreadAdvanced ==
    ASSUME IInv, \A k \in Keys : ~CappedOut(keys[k]), Spread(keys),
           NEW f, f = [k \in Keys |-> Advanced(k, now)]
    PROVE  /\ f \in [Keys -> KeyState] /\ Spread(f)
           /\ \A k \in Keys : ~CappedOut(f[k])
<1>1. keys \in [Keys -> KeyState] /\ f \in [Keys -> KeyState]
  BY AdvancedSafe DEF IInv, TypeOK
<1>2. CASE WindowOver(now)
  <2>1. \A k \in Keys : f[k].tokens = 0 /\ ~CappedOut(f[k])
    BY <1>1, <1>2, AdvancedFlags
  <2>2. \A k \in Keys : Committed(f[k]) <= f[k].tokens + OneRound
    BY <1>1, SlotsAtMost, CommittedFacts
  <2> QED
    BY <1>1, <2>1, <2>2 DEF Spread
<1>3. CASE ~WindowOver(now)
  <2>1. ASSUME NEW k \in Keys
        PROVE  /\ f[k].tokens = keys[k].tokens /\ (CappedOut(f[k]) <=> CappedOut(keys[k]))
               /\ f[k].retiredUntil = keys[k].retiredUntil
               /\ Slots(f[k]) = Slots(keys[k])
               /\ f[k].estimated = keys[k].estimated
    <3>1. f[k] = Advanced(k, now) /\ keys[k] \in KeyState
      BY <1>1
    <3>2. Advanced(k, now).estimated = keys[k].estimated
      BY <1>3, <3>1, EstimatedFacts DEF Advanced
    <3> QED
      BY <1>1, <1>3, <3>1, <3>2, AdvancedFlags, AdvancedFacts
  <2> QED
    BY <1>1, <2>1 DEF Spread, Committed
<1> QED
  BY <1>2, <1>3

\* Changing one key keeps them close if its total does not fall, a key that
\* was out or estimated stays so, and its commitment does not grow or does so
\* within the bound.
LEMMA SpreadOne ==
    ASSUME NEW f \in [Keys -> KeyState], Spread(f), NEW k \in Keys, NEW b \in KeyState,
           f[k].tokens <= b.tokens,
           b.retiredUntil = 0 => f[k].retiredUntil = 0,
           ~b.estimated => ~f[k].estimated,
           \/ Committed(b) <= Committed(f[k])
           \/ (\A y \in Keys : ~f[y].estimated) =>
                 \A x \in Keys : f[x].retiredUntil = 0 => Committed(b) <= f[x].tokens + OneRound,
           NEW g, g = [x \in Keys |-> IF x = k THEN b ELSE f[x]]
    PROVE  Spread(g)
<1> SUFFICES ASSUME \A y \in Keys : ~g[y].estimated, NEW y \in Keys, NEW x \in Keys,
                    g[x].retiredUntil = 0
             PROVE  Committed(g[y]) <= g[x].tokens + OneRound
  BY DEF Spread
<1>1. \A z \in Keys : ~f[z].estimated
  OBVIOUS
<1>2. f[x].retiredUntil = 0 /\ f[x].tokens <= g[x].tokens
      /\ f[x].tokens \in Nat /\ g[x].tokens \in Nat
  <2>1. f[x] \in KeyState /\ g[x] = IF x = k THEN b ELSE f[x]
    OBVIOUS
  <2> QED
    BY <2>1, SlotsNat
<1>3. Committed(f[y]) <= f[x].tokens + OneRound /\ Committed(f[k]) <= f[x].tokens + OneRound
  BY <1>1, <1>2 DEF Spread
<1>4. Committed(f[k]) \in Nat /\ Committed(f[y]) \in Nat /\ Committed(b) \in Nat /\ OneRound \in Nat
  BY CommittedFacts
<1>5. CASE y = k
  <2>1. g[y] = b
    BY <1>5
  <2>2. Committed(b) <= f[x].tokens + OneRound
    BY <1>1, <1>2, <1>3, <1>4
  <2> QED
    BY <1>2, <1>4, <2>1, <2>2
<1>6. CASE y # k
  BY <1>2, <1>3, <1>4, <1>6
<1> QED
  BY <1>5, <1>6

\* Giving a slot back with a reported total of c commits the key to no more.
LEMMA ReleaseCommits ==
    ASSUME NEW a \in KeyState, Slots(a) > 0, NEW b \in KeyState, NEW c \in Nat,
           c <= MostReported, b.tokens = a.tokens + c, Slots(b) = Slots(a) - 1
    PROVE  Committed(b) <= Committed(a)
<1> DEFINE s == Slots(a)
           M == MostReported
<1>1. s \in Nat /\ M \in Nat /\ a.tokens \in Nat
  BY SlotsNat, MostIsMost
<1> HIDE DEF s, M
<1>2. M * (s - 1) = M * s - M /\ M * s \in Int
  BY <1>1
<1>3. Committed(b) = a.tokens + c + M * (s - 1) /\ Committed(a) = a.tokens + M * s
  BY DEF Committed, s, M
<1>4. c <= M
  BY DEF M
<1> QED
  BY <1>1, <1>2, <1>3, <1>4

\* A settlement adds what was reported, marks the key if that was unknown and,
\* without caps, takes no key out.
LEMMA SettleTotals ==
    ASSUME NEW ks \in KeyState, NEW n \in Nat \cup {TokensUnknown}
    PROVE  LET b == SettleCompleted(ks, n) IN
           /\ b \in KeyState /\ SameSlots(Release(ks), b)
           /\ b.tokens = ks.tokens + IF n = TokensUnknown THEN EstimateTokens ELSE n
           /\ b.estimated <=> (ks.estimated \/ n = TokensUnknown)
           /\ Requests = 0 /\ Tokens = 0 /\ ~CappedOut(ks) => ~CappedOut(b)
<1> DEFINE r == Release(ks)
           q == r.requests + 1
           u == r.tokens + IF n = TokensUnknown THEN EstimateTokens ELSE n
           e == r.estimated \/ n = TokensUnknown
           c == Charge(r, n)
<1>1. /\ r \in KeyState /\ r.tokens = ks.tokens /\ r.estimated = ks.estimated
      /\ CappedOut(r) <=> CappedOut(ks)
  BY ReleaseFacts, SlotOpsKeepFlags, EstimatedFacts DEF SameFlags, CappedOut
<1>2. ApplyCaps(c) \in KeyState /\ SameSlots(r, ApplyCaps(c))
  BY <1>1, ChargeFacts
<1> HIDE DEF r
<1>3. c = [r EXCEPT !.requests = q, !.tokens = u, !.estimated = e]
  BY DEF Charge
<1>4. q \in Nat /\ u \in Nat /\ e \in BOOLEAN
  BY <1>1, SlotsNat, BudgetAssumption
<1>5. /\ c \in KeyState /\ c.tokens = u /\ c.estimated = e
      /\ c.drained = r.drained /\ c.softRetired = r.softRetired
  <2> HIDE DEF q, u, e, c
  <2> QED
    BY <1>1, <1>3, <1>4 DEF KeyState
<1> HIDE DEF c
<1>6. ApplyCaps(c).tokens = c.tokens /\ ApplyCaps(c).estimated = c.estimated
  BY <1>5 DEF ApplyCaps, KeyState
<1>7. Requests = 0 /\ Tokens = 0 /\ ~CappedOut(c) => ~CappedOut(ApplyCaps(c))
  BY <1>5 DEF ApplyCaps, AtRatio, CappedOut, KeyState
<1>8. SettleCompleted(ks, n) = ApplyCaps(c)
  BY DEF SettleCompleted, c, r
<1> QED
  BY <1>1, <1>2, <1>5, <1>6, <1>7, <1>8 DEF CappedOut, r

\* A reservation goes to a key of the least total among those that are in.
LEMMA SpreadReserve ==
    ASSUME IInv, IInv', PolicyShape, LeastTokensUncapped, NEW l \in Leases, PolicyReserve(l),
           NEW f \in [Keys -> KeyState], f = [k \in Keys |-> Advanced(k, now)],
           Spread(f), \A k \in Keys : ~CappedOut(f[k])
    PROVE  Spread(keys') /\ \A k \in Keys : ~CappedOut(keys'[k])
<1> DEFINE S == AdmissibleKeys
           k == Select(S)
           a == f[k]
           b == [a EXCEPT !.leases = Append(@, now)]
<1>1. S # {} /\ Reserve(l, k)
  BY DEF PolicyReserve
<1>2. S \in SUBSET Keys /\ k \in S /\ k \in Keys /\ now \in Nat
  BY <1>1, AdmissibleAreKeys DEF Reserve, IInv, TypeOK
<1>3. keys' = [x \in Keys |-> IF x = k THEN b ELSE f[x]]
  BY <1>1 DEF Reserve, AdvanceAnd
<1>4. k = ByTokens(S)
  BY DEF Select, LeastTokensUncapped
<1> HIDE DEF k, S
<1>5. a \in KeyState /\ b \in KeyState
  BY <1>2, AppendFacts
<1>6. /\ b.tokens = a.tokens /\ b.retiredUntil = a.retiredUntil /\ b.estimated = a.estimated
      /\ CappedOut(b) <=> CappedOut(a)
  BY <1>5 DEF KeyState, CappedOut
<1> HIDE DEF b
<1>7. Slots(b) <= Cardinality(Leases)
  <2>1. keys'[k] = b
    BY <1>2, <1>3
  <2>2. ASSUME NEW x \in Keys
        PROVE  Slots(keys'[x]) <= Cardinality(Leases)
    <3>1. Slots(keys'[x]) = Cardinality(HeldOn(x)')
      BY DEF IInv, SlotConservation, Slots, InFlight
    <3>2. HeldOn(x)' \subseteq Leases
      BY DEF HeldOn
    <3> QED
      BY <3>1, <3>2, LeasesAssumption, FewerOf
  <2> QED
    BY <1>2, <2>1, <2>2
<1>8. Committed(b) <= a.tokens + OneRound /\ Committed(b) \in Nat /\ OneRound \in Nat
  BY <1>5, <1>6, <1>7, CommittedFacts
<1>9. ASSUME \A y \in Keys : ~f[y].estimated, NEW x \in Keys, f[x].retiredUntil = 0
      PROVE  Committed(b) <= f[x].tokens + OneRound
  <2> DEFINE score == [y \in S |-> Advanced(y, now).tokens]
  <2>1. x \in S
    BY <1>2, <1>9 DEF S, AdmissibleKeys, Admissible, SelectableAt, UnderCaps, CappedOut,
                     LeastTokensUncapped
  <2>2. k = PickMin(S, score)
    BY <1>2, <1>4, <1>9 DEF ByTokens
  <2>3. score \in [S -> Nat] /\ cursor \in Nat
    BY <1>2, LoadNat DEF PolicyShape
  <2>4. score[x] = f[x].tokens /\ score[k] = a.tokens
    BY <1>2, <2>1
  <2> HIDE DEF score
  <2>5. score[k] <= score[x]
    BY <1>2, <2>1, <2>2, <2>3, PickMinFacts
  <2>6. a.tokens \in Nat /\ f[x].tokens \in Nat
    BY <1>5, SlotsNat
  <2> QED
    BY <1>8, <2>4, <2>5, <2>6
<1>10. a.tokens <= b.tokens
  BY <1>5, <1>6, SlotsNat
<1>11. Spread(keys')
  BY <1>2, <1>3, <1>5, <1>6, <1>9, <1>10, SpreadOne
<1> QED
  BY <1>2, <1>3, <1>6, <1>11

\* Every step keeps the keys close together.
LEMMA SkewStep ==
    IInv /\ IInv' /\ PolicyShape /\ SkewInv /\ [PolicyNext]_policyVars => SkewInv'
<1> SUFFICES ASSUME IInv, IInv', PolicyShape, SkewInv, [PolicyNext]_policyVars,
                    LeastTokensUncapped'
             PROVE  (\A k \in Keys : ~CappedOut(keys'[k])) /\ Spread(keys')
  BY DEF SkewInv, Spread
<1> DEFINE f == [k \in Keys |-> Advanced(k, now)]
<1>1. LeastTokensUncapped
  BY DEF PolicyNext, PolicyReserve, policyVars, LeastTokensUncapped
<1>2. (\A k \in Keys : ~CappedOut(keys[k])) /\ Spread(keys)
  BY <1>1 DEF SkewInv
<1>3. f \in [Keys -> KeyState] /\ Spread(f) /\ \A k \in Keys : ~CappedOut(f[k])
  BY <1>2, SpreadAdvanced
<1>4. \A k \in Keys : f[k] = Advanced(k, now) /\ Slots(f[k]) = Cardinality(HeldOn(k))
  BY AdvancedSafe
<1>5. f = [k \in Keys |-> Advanced(k, now)]
  OBVIOUS
<1>6. now \in Nat
  BY DEF IInv, TypeOK
<1> HIDE DEF f
<1>7. CASE UNCHANGED policyVars \/ Tick
  <2>1. keys' = keys
    BY <1>7 DEF policyVars, vars, Tick
  <2> QED
    BY <1>2, <2>1
<1>8. CASE Observe
  <2>1. keys' = f
    BY <1>5, <1>8 DEF Observe
  <2> QED
    BY <1>3, <2>1
<1>9. ASSUME NEW l \in Leases, PolicyReserve(l)
      PROVE  (\A k \in Keys : ~CappedOut(keys'[k])) /\ Spread(keys')
  BY <1>1, <1>3, <1>5, <1>9, SpreadReserve
<1>10. ASSUME NEW k \in Keys, NEW b \in KeyState,
              keys' = [x \in Keys |-> IF x = k THEN b ELSE f[x]], ~CappedOut(b),
              f[k].tokens <= b.tokens, b.retiredUntil = 0 => f[k].retiredUntil = 0,
              ~b.estimated => ~f[k].estimated /\ Committed(b) <= Committed(f[k])
       PROVE  (\A y \in Keys : ~CappedOut(keys'[y])) /\ Spread(keys')
  <2>1. Spread(keys')
    <3>1. CASE b.estimated
      BY <1>10, <3>1 DEF Spread
    <3>2. CASE ~b.estimated
      BY <1>3, <1>10, <3>2, SpreadOne
    <3> QED
      BY <3>1, <3>2
  <2> QED
    BY <1>3, <1>10, <2>1
<1>11. ASSUME NEW l \in Leases, NEW n \in Reports \cup {TokensUnknown}, Complete(l, n)
       PROVE  (\A k \in Keys : ~CappedOut(keys'[k])) /\ Spread(keys')
  <2>0. PICK k \in Keys : k = holder[l]
    BY <1>11 DEF Complete, IInv, TypeOK
  <2> DEFINE a == f[k]
             b == SettleCompleted(a, n)
             c == IF n = TokensUnknown THEN EstimateTokens ELSE n
  <2>1. a \in KeyState /\ ~CappedOut(a) /\ Slots(a) > 0
    BY <1>3, <1>4, <1>11, <2>0, SettleHeld DEF Complete
  <2>2. keys' = [x \in Keys |-> IF x = k THEN b ELSE f[x]]
    BY <1>4, <1>11, <2>0 DEF Complete, AdvanceAnd
  <2>3. n \in Nat \cup {TokensUnknown} /\ c \in Nat /\ c <= MostReported
    BY InputAssumption, BudgetAssumption, MostIsMost
  <2> HIDE DEF a
  <2>4. /\ b \in KeyState /\ SameSlots(Release(a), b) /\ b.tokens = a.tokens + c
        /\ b.estimated <=> (a.estimated \/ n = TokensUnknown)
        /\ ~CappedOut(b) /\ b.retiredUntil = a.retiredUntil
    BY <1>1, <2>1, <2>3, SettleTotals, SettleFlags DEF LeastTokensUncapped
  <2> HIDE DEF b, c
  <2>5. Slots(b) = Slots(a) - 1
    BY <2>1, <2>4, ReleaseFacts DEF SameSlots, Slots
  <2>6. Committed(b) <= Committed(a)
    BY <2>1, <2>3, <2>4, <2>5, ReleaseCommits
  <2>7. a.tokens <= b.tokens
    BY <2>1, <2>3, <2>4, SlotsNat
  <2> QED
    BY <1>10, <2>2, <2>4, <2>6, <2>7 DEF a
<1>12. ASSUME NEW l \in Leases, Fail(l)
       PROVE  (\A k \in Keys : ~CappedOut(keys'[k])) /\ Spread(keys')
  <2>0. PICK k \in Keys : k = holder[l]
    BY <1>12 DEF Fail, IInv, TypeOK
  <2> DEFINE a == f[k]
             b == Release(a)
  <2>1. a \in KeyState /\ ~CappedOut(a) /\ Slots(a) > 0
    BY <1>3, <1>4, <1>12, <2>0, SettleHeld DEF Fail
  <2>2. keys' = [x \in Keys |-> IF x = k THEN b ELSE f[x]]
    BY <1>4, <1>12, <2>0 DEF Fail, AdvanceAnd
  <2> HIDE DEF a
  <2>3. /\ b \in KeyState /\ Slots(b) = Slots(a) - 1 /\ b.tokens = a.tokens
        /\ b.estimated = a.estimated /\ b.retiredUntil = a.retiredUntil /\ ~CappedOut(b)
    BY <2>1, ReleaseFacts, SlotOpsKeepFlags, EstimatedFacts DEF SameFlags, CappedOut
  <2>4. a.tokens \in Nat /\ b.tokens = a.tokens + 0 /\ a.tokens <= b.tokens
    BY <2>1, <2>3, SlotsNat
  <2> HIDE DEF b
  <2>5. 0 \in Nat /\ 0 <= MostReported
    BY MostIsMost
  <2>6. Committed(b) <= Committed(a)
    BY <2>1, <2>3, <2>4, <2>5, ReleaseCommits
  <2> QED
    BY <1>10, <2>2, <2>3, <2>4, <2>6 DEF a
<1>13. ASSUME NEW k \in Keys, NEW u \in Int, RetireAt(k, u)
       PROVE  (\A y \in Keys : ~CappedOut(keys'[y])) /\ Spread(keys')
  <2> DEFINE a == f[k]
             b == RetireKey(a, u)
  <2>1. a \in KeyState /\ ~CappedOut(a) /\ a.retiredUntil \in Nat /\ a.tokens \in Nat
    BY <1>3, SlotsNat
  <2>2. keys' = [x \in Keys |-> IF x = k THEN b ELSE f[x]]
    BY <1>4, <1>13 DEF RetireAt, AdvanceAnd
  <2> HIDE DEF a
  <2>3. /\ b \in KeyState /\ SameSlots(a, b) /\ ~CappedOut(b)
        /\ b.retiredUntil \in Nat /\ b.retiredUntil >= a.retiredUntil
    BY <1>6, <2>1, RetireFacts, RetireFlags, SlotsNat
  <2>4. b.tokens = a.tokens /\ b.estimated = a.estimated
    BY <2>1 DEF RetireKey, KeyState
  <2> HIDE DEF b
  <2>5. Committed(b) = Committed(a) /\ Committed(a) \in Nat
    BY <2>1, <2>3, <2>4, CommittedFacts DEF Committed, Slots, SameSlots
  <2>6. /\ a.tokens <= b.tokens /\ Committed(b) <= Committed(a)
        /\ b.retiredUntil = 0 => a.retiredUntil = 0
    BY <2>1, <2>3, <2>4, <2>5
  <2> QED
    BY <1>10, <2>2, <2>3, <2>4, <2>6 DEF a
<1>14. CASE \E k \in Keys, d \in Cooldowns : RetireWithReason(k, d)
  <2>1. PICK k \in Keys, d \in Cooldowns : RetireAt(k, now + d)
    BY <1>14 DEF RetireWithReason
  <2>2. now + d \in Int
    BY <1>6, InputAssumption
  <2> QED
    BY <1>13, <2>1, <2>2
<1>15. CASE \E k \in Keys : RetireForWindow(k)
  <2> DEFINE u == IF Window > 0 THEN WindowStartAt(now) + Window ELSE now + QuotaCooldown
  <2>1. PICK k \in Keys : RetireAt(k, u)
    BY <1>15 DEF RetireForWindow
  <2>2. u \in Int
    BY <1>6, WindowStartNat, BudgetAssumption, TimeAssumption DEF IInv
  <2> HIDE DEF u
  <2> QED
    BY <1>13, <2>1, <2>2
<1> QED
  BY <1>7, <1>8, <1>9, <1>11, <1>12, <1>14, <1>15 DEF PolicyNext

\* Totals compared while leases are in flight still keep the keys within one
\* round of leases of each other (leastTokensPolicy.Select), late settlements
\* of reclaimed leases included.
THEOREM TokensStayClose == PolicySpec => []TokenSkewBounded
<1>1. PolicyInit => SkewInv
  <2> SUFFICES ASSUME PolicyInit
               PROVE  (\A k \in Keys : ~CappedOut(keys[k])) /\ Spread(keys)
    BY DEF SkewInv
  <2>1. \A k \in Keys : keys[k] = FreshKey
    BY DEF PolicyInit, Init
  <2>2. FreshKey \in KeyState /\ FreshKey.tokens = 0 /\ Slots(FreshKey) = 0 /\ ~CappedOut(FreshKey)
    BY DEF FreshKey, KeyState, Slots, CappedOut
  <2>3. Committed(FreshKey) <= FreshKey.tokens + OneRound
    BY <2>2, CommittedFacts, LeasesAssumption, FS_CardinalityType
  <2> QED
    BY <2>1, <2>2, <2>3 DEF Spread
<1>2. IInv /\ SkewInv => TokenSkewBounded
  <2> SUFFICES ASSUME IInv, LeastTokensUncapped, Spread(keys), \A k \in Keys : ~keys[k].estimated,
                      NEW k \in Keys, NEW x \in Keys, keys[x].retiredUntil = 0
               PROVE  keys[k].tokens + MostReported * InFlight(keys[k])
                        <= keys[x].tokens + MostReported * Cardinality(Leases)
    BY DEF SkewInv, TokenSkewBounded, LeastTokensUncapped
  <2> DEFINE i == InFlight(keys[k])
             s == Slots(keys[k])
  <2>1. keys[k] \in KeyState /\ keys[x] \in KeyState
    BY DEF IInv, TypeOK
  <2>2. i \in Nat /\ s \in Nat /\ i <= s /\ keys[k].tokens \in Nat /\ keys[x].tokens \in Nat
    BY <2>1, SlotsNat DEF Slots, InFlight
  <2>3. keys[k].tokens + MostReported * s <= keys[x].tokens + OneRound
    BY DEF Spread, Committed
  <2> HIDE DEF i, s
  <2>4. MostReported * i <= MostReported * s /\ MostReported * i \in Int /\ MostReported * s \in Int
    BY <2>2, MostIsMost, TimesMono
  <2>5. OneRound \in Nat
    BY <2>1, CommittedFacts
  <2>6. keys[k].tokens + MostReported * i <= keys[x].tokens + OneRound
    BY <2>2, <2>3, <2>4, <2>5
  <2> QED
    BY <2>6 DEF OneRound, i
<1> QED
  BY <1>1, <1>2, SkewStep, PolicyInvariant, PTL DEF PolicySpec
=============================================================================
