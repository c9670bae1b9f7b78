------------------------------ MODULE KeyPool ------------------------------
(***************************************************************************)
(* A node's API-key pool (internal/keypool/keypool.go), as operators on    *)
(* the record of its round-robin index and of the cooldown each key has    *)
(* left. The index is an unbounded counter of which only the value modulo  *)
(* the number of keys is ever used.                                        *)
(***************************************************************************)
EXTENDS Integers

CONSTANT KeyCooldown  \* defaults.key_cooldown; 0 disables cooling

ASSUME KeyCooldownAssumption == KeyCooldown \in Nat

NewPool(n) == [idx |-> 0, cool |-> [i \in 0..(n - 1) |-> 0]]

CoolKeys(p) == {i \in DOMAIN p.cool : p.cool[i] > 0}

\* The first key at or after the index that is not cooling, else the plain
\* round-robin key.
NextKey(p, n) ==
    LET at(off) == (p.idx + off) % n
        fresh   == {off \in 0..(n - 1) : p.cool[at(off)] = 0}
    IN  IF fresh = {} THEN p.idx
        ELSE at(CHOOSE off \in fresh : \A o \in fresh : off <= o)

AfterNext(p, n) == [p EXCEPT !.idx = (@ + 1) % n]

MarkExhausted(p, i) == [p EXCEPT !.cool[i] = KeyCooldown]

AllCooling(p) == CoolKeys(p) = DOMAIN p.cool

\* One unit of time passes.
Warmed(p) == [p EXCEPT !.cool = [i \in DOMAIN @ |-> IF @[i] > 0 THEN @[i] - 1 ELSE 0]]
=============================================================================
