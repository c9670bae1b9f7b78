---------------------------- MODULE RequestPath -----------------------------
(***************************************************************************)
(* A request's way through the router with what it carries: Admission's    *)
(* handlers, refined by the decisions handleProxy takes between the body   *)
(* and the node (workload class, PII rule, agent gate, smart route, node   *)
(* filters), the failover that chooses again under the same decisions, the *)
(* reload that replaces nodes, policy and PII rule, and the attribution    *)
(* event every request offers on its way out.                              *)
(*                                                                         *)
(* Nodes, policy and limits are read from the snapshot; the PII rule is    *)
(* read live, from a flag the reload sets. A node may be unhealthy at any  *)
(* time, so any node the filters leave may be the one selected; which of   *)
(* them is module Failover's subject.                                      *)
(***************************************************************************)
EXTENDS Admission, SmartRoute

CONSTANTS
    Nodes,        \* generation -> nodes: [tier, models, piiLocal, workloads]
    PIILocalRule, \* generation -> pii_local_rule: auto, enforce or off
    Smart,        \* generation -> the smart-route policy, or NoPolicy
    NoPolicy,
    Incoming,     \* client -> the requests it may send
    NoRequest,
    EventBuffer   \* capacity of the attribution channel

ASSUME RequestAssumption ==
    /\ EventBuffer \in Nat \ {0}
    /\ \A g \in Generations : \A n \in Nodes[g] : n.tier \in Tiers

VARIABLES
    piiRuleArmed, \* router.piiRuleArmed
    request,      \* client -> the request its handler works on
    target,       \* client -> [node, personal] of the current attempt
    events        \* attribution events in the channel

pvars == <<piiRuleArmed, request, target, events>>
rvars == <<avars, pvars>>

NoTarget == [node |-> NoRequest, personal |-> FALSE]

\* RuleArmed and anyNodePIILocal.
RuleArmed(mode, anyLocal) == mode = "enforce" \/ (mode = "auto" /\ anyLocal)
AnyNodePIILocal(g) == \E n \in Nodes[g] : n.piiLocal

\* What newRouter and Reload store for the configuration they install.
Rearmed(g) == RuleArmed(PIILocalRule[g], AnyNodePIILocal(g))

RequestInit ==
    /\ AdmissionInit
    /\ piiRuleArmed = Rearmed(0)
    /\ request = [r \in Clients |-> NoRequest]
    /\ target = [r \in Clients |-> NoTarget]
    /\ events = 0

-----------------------------------------------------------------------------
\* watchReloadSignal and Reload: everything is replaced at once under r.mu, or,
\* if the file does not load, nothing is.
ReloadConfig ==
    /\ Reload
    /\ piiRuleArmed' = Rearmed(current')
    /\ UNCHANGED <<request, target, events>>

Arrive(r) ==
    /\ Enter(r)
    /\ \E q \in Incoming[r] :
           request' = [request EXCEPT ![r] = IF pc'[r] = "admitted" THEN q ELSE NoRequest]
    /\ UNCHANGED <<piiRuleArmed, target, events>>

\* What handleProxy makes of the request: refused outright, or the model and
\* tier to select by.
Refused(r) ==
    LET q == request[r]
        p == Smart[gen[r]] IN
    \/ q.class = "customer" /\ ~q.tenant
    \/ p # NoPolicy /\ ~AgentAllowed(p, DetectAgent(q))

Wanted(r) ==
    LET q == request[r]
        p == Smart[gen[r]] IN
    IF p = NoPolicy THEN [model |-> ExtractModel(q), tier |-> q.tier]
    ELSE LET d == Decide(p, q) IN
         [model |-> RewrittenModel(q, d), tier |-> IF q.tier = NoneSet THEN d.tier ELSE q.tier]

\* selectNodeFromSnapExcluding: the nodes its filters leave, health aside.
AllowsClass(n, class) == n.workloads = {} \/ class \in n.workloads
PersonalBlocks(personal, n) == personal /\ ~n.piiLocal
Candidates(r, personal) ==
    LET w == Wanted(r) IN
    {n \in Nodes[gen[r]] :
        /\ AllowsClass(n, request[r].class)
        /\ ~PersonalBlocks(personal, n)
        /\ w.tier \in {NoneSet, n.tier}
        /\ w.model = NoneSet \/ w.model \in n.models}

\* The body is there: the PII rule is read, then a node is selected.
Route(r) ==
    /\ pc[r] = "reading" /\ ~Refused(r)
    /\ LET personal == request[r].personal /\ piiRuleArmed IN
       \E n \in Candidates(r, personal) :
           /\ ChooseNode(r, n.tier)
           /\ target' = [target EXCEPT ![r] = [node |-> n, personal |-> personal]]
    /\ UNCHANGED <<piiRuleArmed, request, events>>

\* Faulty variant: the next node is chosen without the PII decision.
FailOverAnywhere(r) ==
    /\ pc[r] = "serving"
    /\ \E n \in Candidates(r, FALSE) \ {target[r].node} :
           target' = [target EXCEPT ![r].node = n]
    /\ UNCHANGED <<avars, piiRuleArmed, request, events>>

\* The failover loop goes on to another node, by the same filters.
FailOver(r) ==
    /\ pc[r] = "serving"
    /\ \E n \in Candidates(r, target[r].personal) \ {target[r].node} :
           target' = [target EXCEPT ![r].node = n]
    /\ UNCHANGED <<avars, piiRuleArmed, request, events>>

\* The request is over as far as its content goes.
Done(r, A) ==
    /\ A
    /\ request' = [request EXCEPT ![r] = NoRequest]
    /\ target' = [target EXCEPT ![r] = NoTarget]
    /\ UNCHANGED <<piiRuleArmed, events>>

\* The deferred dequeue and, last, Record: an event is offered if the header
\* names an agent, and dropped if the channel is full.
LeaveAttributed(r) ==
    /\ Leave(r)
    /\ events' \in {events, IF events < EventBuffer THEN events + 1 ELSE events}
    /\ UNCHANGED <<piiRuleArmed, request, target>>

\* The drainer takes an event. Nothing makes it do so.
Drain ==
    /\ events > 0
    /\ events' = events - 1
    /\ UNCHANGED <<avars, piiRuleArmed, request, target>>

RequestProceeds(r) ==
    \/ (BeginBuffering(r) \/ LeaveQueue(r) \/ BeginServing(r) \/ StartRelay(r)
        \/ ReleaseSemaphore(r) \/ ReleaseBuffer(r)) /\ UNCHANGED pvars
    \/ Done(r, Refuse(r)) \/ Done(r, FairShareReject(r)) \/ Done(r, EndServing(r))
    \/ LeaveAttributed(r)
    \/ Route(r)

RequestNext ==
    \/ ReloadConfig \/ Drain
    \/ \E r \in Clients :
           \/ Arrive(r) \/ RequestProceeds(r) \/ FailOver(r)
           \/ Acquire(r) /\ UNCHANGED pvars
           \/ Done(r, CancelQueued(r)) \/ Done(r, EndRelay(r))

\* As AdmissionFairness; neither the end of a relay, the drainer nor another attempt is promised.
RequestFairness ==
    \A r \in Clients : /\ WF_rvars(RequestProceeds(r))
                       /\ SF_rvars(Acquire(r) /\ UNCHANGED pvars)

RequestSpec == RequestInit /\ [][RequestNext]_rvars /\ RequestFairness

-----------------------------------------------------------------------------
\* A personal body is sent to a node without the pii_local mark only if some
\* configuration in force since the request took its snapshot has the rule
\* off, on the first attempt and on every later one. The snapshot's own rule
\* does not settle it: the flag is read live.
PIILocalOnly ==
    \A r \in Clients :
        target[r] # NoTarget /\ request[r].personal /\ ~target[r].node.piiLocal =>
            \E g \in gen[r] .. current : ~RuleArmed(PIILocalRule[g], AnyNodePIILocal(g))

\* Whenever a handler decides under a smart-route policy, any policy that
\* loads would have decided soundly for any request: see SoundFor.
DecisionsSound ==
    (\E r \in Clients : pc[r] = "reading" /\ Smart[gen[r]] # NoPolicy) =>
        LoadablePolicies \subseteq SoundPolicies
=============================================================================
