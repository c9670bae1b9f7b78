------------------------------ MODULE Breaker ------------------------------
(***************************************************************************)
(* The per-node circuit breaker (internal/circuit/breaker.go), as          *)
(* operators on the breaker's record. Each of its methods is one critical  *)
(* section of Breaker.mu. Allow only ever compares the time since openedAt *)
(* with the cooldown, so that time is kept, as age, instead of two         *)
(* instants, and stops at Cooldown: any larger value is treated alike.     *)
(***************************************************************************)
EXTENDS Integers

CONSTANTS Threshold, Cooldown

ASSUME BreakerAssumption == Threshold \in Nat \ {0} /\ Cooldown \in Nat \ {0}

BreakerType == [state: {"closed", "open", "half_open"}, failures: Nat, age: 0..Cooldown]

NewBreaker == [state |-> "closed", failures |-> 0, age |-> 0]

\* What Allow answers, and what it leaves behind.
Allows(b) == b.state = "open" => b.age >= Cooldown

\* Faulty variant: a refused call restarts the cooldown.
AfterAllowRestarts(b) ==
    CASE b.state = "open" /\ b.age >= Cooldown -> [b EXCEPT !.state = "half_open"]
      [] b.state = "open" /\ b.age < Cooldown -> [b EXCEPT !.age = 0]
      [] OTHER -> b

AfterAllow(b) ==
    IF b.state = "open" /\ b.age >= Cooldown THEN [b EXCEPT !.state = "half_open"] ELSE b

\* Faulty variant: a success closes the breaker and keeps the old count.
RecordSuccessKeepsCount(b) == [b EXCEPT !.state = "closed"]

RecordSuccess(b) == [b EXCEPT !.state = "closed", !.failures = 0]

RecordFailure(b) ==
    CASE b.state = "half_open" -> [b EXCEPT !.state = "open", !.age = 0]
      [] b.state = "closed" /\ b.failures + 1 < Threshold -> [b EXCEPT !.failures = @ + 1]
      [] b.state = "closed" /\ b.failures + 1 >= Threshold ->
            [state |-> "open", failures |-> b.failures + 1, age |-> 0]
      [] OTHER -> b

\* One unit of time passes.
Aged(b) == IF b.state = "open" /\ b.age < Cooldown THEN [b EXCEPT !.age = @ + 1] ELSE b
=============================================================================
