---------------------------- MODULE BreakerCalls ----------------------------
(***************************************************************************)
(* One breaker shared by concurrent calls to its node, used the way the    *)
(* router uses it: Allow before a call, RecordSuccess or RecordFailure     *)
(* when the call ends, which may be long after the state has moved on.     *)
(***************************************************************************)
EXTENDS Breaker, FiniteSets

CONSTANT Callers

ASSUME CallersAssumption == IsFiniteSet(Callers)

VARIABLES
    cb,       \* the breaker
    calling,  \* callers with a call in flight
    streak    \* failures recorded since the last success, up to Threshold

bvars == <<cb, calling, streak>>

BreakerInit == cb = NewBreaker /\ calling = {} /\ streak = 0

Elapse ==
    /\ cb' = Aged(cb)
    /\ UNCHANGED <<calling, streak>>

\* A caller is admitted, or turned away and gone.
Call(c) ==
    /\ c \notin calling
    /\ cb' = AfterAllow(cb)
    /\ calling' = IF Allows(cb) THEN calling \cup {c} ELSE calling
    /\ UNCHANGED streak

Succeed(c) ==
    /\ c \in calling
    /\ cb' = RecordSuccess(cb)
    /\ calling' = calling \ {c}
    /\ streak' = 0

FailCall(c) ==
    /\ c \in calling
    /\ cb' = RecordFailure(cb)
    /\ calling' = calling \ {c}
    /\ streak' = IF streak < Threshold THEN streak + 1 ELSE streak

BreakerNext ==
    \/ Elapse
    \/ \E c \in Callers : Call(c) \/ Succeed(c) \/ FailCall(c)

\* Time passes and requests keep arriving.
BreakerSpec == BreakerInit /\ [][BreakerNext]_bvars
               /\ WF_bvars(Elapse) /\ \A c \in Callers : WF_bvars(Call(c))

-----------------------------------------------------------------------------
\* Every variable keeps its shape, the breaker one of its three states.
BreakerTypeOK ==
    /\ cb \in BreakerType
    /\ calling \in SUBSET Callers
    /\ streak \in 0..Threshold

\* The breaker is closed exactly while fewer than Threshold failures have been
\* recorded since the last success, whatever order late results arrive in: a
\* success recorded in any state wipes the count, failures recorded while open
\* or half open are not lost and not counted twice (RecordFailure).
ClosedMeansBelowThreshold ==
    /\ cb.state = "closed" <=> streak < Threshold
    /\ cb.state = "closed" => cb.failures = streak

\* The breaker never locks a node out for good: with time passing and requests
\* arriving, an open breaker is left again, late failures included.
OpenIsLeft == (cb.state = "open") ~> (cb.state # "open")
=============================================================================
