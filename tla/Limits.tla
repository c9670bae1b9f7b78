------------------------------- MODULE Limits -------------------------------
(***************************************************************************)
(* The limits of the router that count and measure time: the circuit       *)
(* breaker of a node (BreakerCalls), the share of a user and the limit on  *)
(* forced sweeps (FairShare). They have no state in common, so a behaviour *)
(* follows one of them.                                                    *)
(***************************************************************************)
EXTENDS BreakerCalls, FairShare

VARIABLE limit

lvars == <<bvars, svars, limit>>

LimitsInit ==
    /\ limit \in {"breaker", "share", "probe"}
    /\ BreakerInit /\ ShareInit

LimitsNext ==
    /\ \/ limit = "breaker" /\ BreakerNext /\ UNCHANGED svars
       \/ limit = "share" /\ ShareNext /\ UNCHANGED bvars
       \/ limit = "probe" /\ ProbeNext /\ UNCHANGED bvars
    /\ UNCHANGED limit

\* As in BreakerSpec: time passes and requests keep arriving.
LimitsSpec ==
    /\ LimitsInit /\ [][LimitsNext]_lvars
    /\ WF_bvars(limit = "breaker" /\ Elapse)
    /\ \A c \in Callers : WF_bvars(limit = "breaker" /\ Call(c))
=============================================================================
