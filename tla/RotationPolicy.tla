-------------------------- MODULE RotationPolicy --------------------------
(***************************************************************************)
(* The three shipped selection policies (internal/channel/rotation.go) in  *)
(* place of RotationStore's arbitrary choice. A policy receives the        *)
(* admissible keys in ascending index order and answers with a position;   *)
(* its cursor advances on every selection.                                 *)
(***************************************************************************)
EXTENDS RotationStore

CONSTANT
    CursorPeriod  \* bound: the cursor is kept modulo this common multiple

ASSUME PolicyAssumption ==
    /\ Keys = 1..Cardinality(Keys)
    /\ CursorPeriod \in Nat \ {0}
    /\ \A n \in 1..Cardinality(Keys) : CursorPeriod % n = 0

VARIABLES
    policy,   \* the route's PolicyName, fixed when the store is built
    cursor,   \* the policy's cursor
    recent    \* keys picked since the candidate set last changed, one round at most

policyVars == <<vars, policy, cursor, recent>>

\* The key at position i (from 0) of a set of keys in ascending order.
KeyAt(S, i) == CHOOSE k \in S : Cardinality({x \in S : x < k}) = i

\* Faulty variant: unsettled leases are not counted as load.
LoadSettledOnly(k) == Advanced(k, now).requests

\* byLoad: work already accepted, settled or not.
Load(k) == Advanced(k, now).requests + InFlight(Advanced(k, now))

\* pickMin: the lowest score, ties broken by the cursor.
PickMin(S, score) ==
    LET tied == {k \in S : \A x \in S : score[k] <= score[x]}
    IN  KeyAt(tied, cursor % Cardinality(tied))

ByLoad(S) == PickMin(S, [k \in S |-> Load(k)])

\* Faulty variant: totals of different keys are never compared.
ByTokensCursorOnly(S) == KeyAt(S, cursor % Cardinality(S))

ByTokens(S) ==
    IF \E k \in S : Advanced(k, now).estimated THEN ByLoad(S)
    ELSE PickMin(S, [k \in S |-> Advanced(k, now).tokens])

\* Faulty variant: the position is taken modulo the whole pool.
SelectModuloPool(S) ==
    CASE policy = "round_robin" ->
            LET i == cursor % Cardinality(Keys)
            IN  KeyAt(S, IF i < Cardinality(S) THEN i ELSE 0)
      [] policy = "least_used" -> ByLoad(S)
      [] policy = "least_tokens" -> ByTokens(S)

Select(S) ==
    CASE policy = "round_robin" -> KeyAt(S, cursor % Cardinality(S))
      [] policy = "least_used" -> ByLoad(S)
      [] policy = "least_tokens" -> ByTokens(S)

\* reserve with the configured policy; recent is history, kept for round robin.
PolicyReserve(l) ==
    LET S == AdmissibleKeys
        k == Select(S)
    IN  /\ S # {}
        /\ Reserve(l, k)
        /\ cursor' = (cursor + 1) % CursorPeriod
        /\ recent' = CASE policy # "round_robin" -> recent
                       [] policy = "round_robin" /\ recent.from = S
                            /\ Len(recent.picks) < Cardinality(S) ->
                              [from |-> S, picks |-> Append(recent.picks, k)]
                       [] OTHER -> [from |-> S, picks |-> <<k>>]
        /\ UNCHANGED policy

PolicyNames == {"round_robin", "least_used", "least_tokens"}

PolicyInit ==
    /\ Init
    /\ policy \in PolicyNames
    /\ cursor = 0
    /\ recent = [from |-> {}, picks |-> << >>]

\* A caller that loses its lease is one that does not settle it.
PolicyNext ==
    \/ \E l \in Leases : PolicyReserve(l)
    \/ /\ \/ Tick
          \/ Observe
          \/ \E l \in Leases, n \in Reports \cup {TokensUnknown} : Complete(l, n)
          \/ \E l \in Leases : Fail(l)
          \/ \E k \in Keys, d \in Cooldowns : RetireWithReason(k, d)
          \/ \E k \in Keys : RetireForWindow(k)
       /\ UNCHANGED <<policy, cursor, recent>>

PolicySpec == PolicyInit /\ [][PolicyNext]_policyVars

-----------------------------------------------------------------------------
\* roundRobinPolicy: while the candidates stay the same, no key is used twice
\* before every other has been used once, whatever happens to the keys between
\* two selections.
RotationIsFair ==
    policy = "round_robin" =>
        \A i, j \in 1..Len(recent.picks) :
            i # j => recent.picks[i] # recent.picks[j]

\* leastUsedPolicy: a burst that settles nothing is spread over the admissible
\* keys; a reservation never puts its key more than one ahead of another key
\* that could have taken it.
NoStampede ==
    [][\A k \in Keys :
          policy = "least_used" /\ cursor' # cursor /\ InFlight(keys'[k]) > InFlight(Advanced(k, now))
          => \A x \in AdmissibleKeys :
                keys'[k].requests + InFlight(keys'[k])
                    <= Advanced(x, now).requests + InFlight(Advanced(x, now)) + 1]_policyVars

\* leastTokensPolicy: without caps and with every total reported, a key's
\* charges and the most its outstanding leases may still report stay within one
\* round of leases of every key that was available all window, although totals
\* are compared while leases are in flight and some settle a window late.
TokenSkewBounded ==
    policy = "least_tokens" /\ Requests = 0 /\ Tokens = 0
        /\ (\A k \in Keys : ~keys[k].estimated) =>
        \A k, x \in Keys : keys[x].retiredUntil = 0 =>
            keys[k].tokens + MostReported * InFlight(keys[k])
                <= keys[x].tokens + MostReported * Cardinality(Leases)
=============================================================================
