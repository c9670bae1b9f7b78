------------------------------ MODULE Failover ------------------------------
(***************************************************************************)
(* Serving an admitted request (main.go handleProxy's failover loop,       *)
(* selectNodeFromSnapExcluding, doUpstream) against the state the nodes    *)
(* share: the health flag and its probe counters (runHealthPass), the      *)
(* circuit breaker and the API-key pool.                                   *)
(*                                                                         *)
(* A request picks a node, waits for its semaphore token, and then tries   *)
(* nodes one after the other until one answers with a servable status. The *)
(* weighted round robin inside the best priority is any choice. The class, *)
(* PII and tier filters of a request are the set of nodes it considers,    *)
(* the model filter the set that serves it.                                *)
(*                                                                         *)
(* No lock is held over the loop or over a selection: each load or store   *)
(* of a health flag, each call of a breaker and each call of a key pool is *)
(* a step of its own, and every other request and probe may come between.  *)
(***************************************************************************)
EXTENDS Breaker, KeyPool, Sequences, FiniteSets

CONSTANTS
    Nodes, NoNode,
    Place,               \* node -> its position in snap.nodes
    Priority,            \* node -> its priority, smaller first
    KeyCount,            \* node -> number of its api_keys
    Probed,              \* nodes without health_check_disabled
    Requests,
    Considered,          \* request -> nodes its class, PII and tier filters keep
    Serving,             \* request -> nodes that serve its model
    MaxFailoverAttempts,
    HealthyThreshold, UnhealthyThreshold,
    Cancels,             \* whether clients may disconnect during an attempt
    MaxOutages           \* bound: how often upstreams go down

ASSUME FailoverAssumption ==
    /\ IsFiniteSet(Nodes) /\ NoNode \notin Nodes /\ IsFiniteSet(Requests)
    /\ Place \in [Nodes -> Nat]
    /\ \A m, n \in Nodes : Place[m] = Place[n] => m = n
    /\ Priority \in [Nodes -> Int] /\ KeyCount \in [Nodes -> Nat]
    /\ Probed \subseteq Nodes
    /\ Considered \in [Requests -> SUBSET Nodes] /\ Serving \in [Requests -> SUBSET Nodes]
    /\ MaxFailoverAttempts \in Nat \ {0}
    /\ HealthyThreshold \in Nat \ {0} /\ UnhealthyThreshold \in Nat \ {0}
    /\ Cancels \in BOOLEAN /\ MaxOutages \in Nat

VARIABLES
    up,        \* node -> its upstream is reachable (environment)
    outages,   \* how often one went down so far
    healthy, passes, fails, breaker, pool,   \* per node, as in upstreamNode
    probe,     \* node -> what its probe has yet to do, "none" = no probe
    pc,        \* request -> where its handler is
    left,      \* request -> nodes its selection has still to look at
    seen,      \* request -> node seen healthy, its breaker not asked yet
    found,     \* request -> nodes its selection put into the buckets
    cand,      \* request -> candidate
    tried,     \* request -> the exclude set
    attempts,  \* request -> attemptIdx
    key,       \* request -> usedKeyIdx of the attempt, -1 = none
    held,      \* request -> attempt whose response is heldResp, 0 = none
    ok,        \* request -> attempt whose response is okResp, 0 = none
    open,      \* request -> attempts whose response body is still open
    steady     \* history: request -> nodes it could have used ever since it arrived

nodeVars == <<healthy, passes, fails, breaker, pool, probe>>
envVars == <<up, outages>>
scanVars == <<left, seen, found>>
loopVars == <<cand, tried, attempts, key, held, ok, open>>
reqVars == <<pc, scanVars, loopVars>>
codeVars == <<envVars, nodeVars, reqVars>>
fvars == <<codeVars, steady>>

Goto(r, label) == pc' = [pc EXCEPT ![r] = label]
This(r) == attempts[r] + 1

-----------------------------------------------------------------------------
FailoverInit ==
    /\ up = [n \in Nodes |-> TRUE] /\ outages = 0
    /\ healthy = [n \in Nodes |-> TRUE]
    /\ passes = [n \in Nodes |-> 0] /\ fails = [n \in Nodes |-> 0]
    /\ breaker = [n \in Nodes |-> NewBreaker]
    /\ pool = [n \in Nodes |-> NewPool(KeyCount[n])]
    /\ probe = [n \in Nodes |-> "none"]
    /\ pc = [r \in Requests |-> "idle"]
    /\ left = [r \in Requests |-> {}] /\ found = [r \in Requests |-> {}]
    /\ seen = [r \in Requests |-> NoNode]
    /\ cand = [r \in Requests |-> NoNode]
    /\ tried = [r \in Requests |-> {}]
    /\ attempts = [r \in Requests |-> 0]
    /\ key = [r \in Requests |-> -1]
    /\ held = [r \in Requests |-> 0] /\ ok = [r \in Requests |-> 0]
    /\ open = [r \in Requests |-> {}]
    /\ steady = [r \in Requests |-> {}]

GoDown(n) ==
    /\ up[n] /\ outages < MaxOutages
    /\ up' = [up EXCEPT ![n] = FALSE] /\ outages' = outages + 1
    /\ UNCHANGED <<nodeVars, reqVars>>

ComeUp(n) ==
    /\ ~up[n]
    /\ up' = [up EXCEPT ![n] = TRUE]
    /\ UNCHANGED <<outages, nodeVars, reqVars>>

Elapse ==
    /\ breaker' = [n \in Nodes |-> Aged(breaker[n])]
    /\ pool' = [n \in Nodes |-> Warmed(pool[n])]
    /\ UNCHANGED <<envVars, healthy, passes, fails, probe, reqVars>>

\* runHealthPass: the probe's answer, its counters and the health flag are
\* apart in time.
SendProbe(n) ==
    /\ n \in Probed /\ probe[n] = "none"
    /\ probe' = [probe EXCEPT ![n] = IF up[n] THEN "pass" ELSE "fail"]
    /\ UNCHANGED <<envVars, healthy, passes, fails, breaker, pool, reqVars>>

Capped(n, limit) == IF n < limit THEN n + 1 ELSE n

\* Only the probe of a node reads or writes the node's counters.
CountProbe(n) ==
    /\ \/ /\ probe[n] = "pass"
          /\ fails' = [fails EXCEPT ![n] = 0]
          /\ passes' = [passes EXCEPT ![n] = Capped(@, HealthyThreshold)]
          /\ probe' = [probe EXCEPT ![n] =
                         IF passes'[n] >= HealthyThreshold THEN "raise" ELSE "none"]
       \/ /\ probe[n] = "fail"
          /\ passes' = [passes EXCEPT ![n] = 0]
          /\ fails' = [fails EXCEPT ![n] = Capped(@, UnhealthyThreshold)]
          /\ probe' = [probe EXCEPT ![n] =
                         IF fails'[n] >= UnhealthyThreshold THEN "drop" ELSE "none"]
    /\ UNCHANGED <<envVars, healthy, breaker, pool, reqVars>>

StoreHealth(n) ==
    /\ probe[n] \in {"raise", "drop"}
    /\ healthy' = [healthy EXCEPT ![n] = (probe[n] = "raise")]
    /\ probe' = [probe EXCEPT ![n] = "none"]
    /\ UNCHANGED <<envVars, passes, fails, breaker, pool, reqVars>>

-----------------------------------------------------------------------------
\* selectNodeFromSnapExcluding is called, to return to label.
Select(r, excluded, label) ==
    /\ left' = [left EXCEPT ![r] = Considered[r] \ excluded]
    /\ found' = [found EXCEPT ![r] = {}]
    /\ Goto(r, label)
    /\ UNCHANGED seen

Selecting(r) == pc[r] \in {"arriving", "retrying", "reselecting"}

\* Faulty variant: the first unhealthy node ends the scan.
LookBreaks(r) ==
    /\ Selecting(r) /\ seen[r] = NoNode
    /\ \E n \in left[r] :
          /\ \A m \in left[r] : Place[n] <= Place[m]
          /\ left' = [left EXCEPT ![r] = IF healthy[n] THEN @ \ {n} ELSE {}]
          /\ seen' = [seen EXCEPT ![r] = IF healthy[n] THEN n ELSE NoNode]
    /\ UNCHANGED <<envVars, nodeVars, pc, found, loopVars>>

\* The next node of snap.nodes: healthy.Load.
Look(r) ==
    /\ Selecting(r) /\ seen[r] = NoNode
    /\ \E n \in left[r] :
          /\ \A m \in left[r] : Place[n] <= Place[m]
          /\ left' = [left EXCEPT ![r] = @ \ {n}]
          /\ seen' = [seen EXCEPT ![r] = IF healthy[n] THEN n ELSE NoNode]
    /\ UNCHANGED <<envVars, nodeVars, pc, found, loopVars>>

\* breaker.Allow, asked of a node before its models are looked at.
Ask(r) ==
    LET n == seen[r]
    IN  /\ Selecting(r) /\ n # NoNode
        /\ breaker' = [breaker EXCEPT ![n] = AfterAllow(@)]
        /\ found' = [found EXCEPT ![r] =
                       IF Allows(breaker[n]) /\ n \in Serving[r] THEN @ \cup {n} ELSE @]
        /\ seen' = [seen EXCEPT ![r] = NoNode]
        /\ UNCHANGED <<envVars, healthy, passes, fails, pool, probe, pc, left, loopVars>>

\* What selection may return: a node of the best priority, or none.
Picks(r) ==
    IF found[r] = {} THEN {NoNode}
    ELSE {n \in found[r] : \A m \in found[r] : Priority[n] <= Priority[m]}

\* Every node has been looked at: selection returns n.
Returns(r, n) ==
    /\ left[r] = {} /\ seen[r] = NoNode
    /\ n \in Picks(r)
    /\ found' = [found EXCEPT ![r] = {}]
    /\ UNCHANGED <<left, seen>>

-----------------------------------------------------------------------------
\* The first selection, before the wait for the semaphore; none is a 503.
Arrive(r) ==
    /\ pc[r] = "idle"
    /\ Select(r, {}, "arriving")
    /\ UNCHANGED <<envVars, nodeVars, loopVars>>

FirstNode(r) ==
    /\ pc[r] = "arriving"
    /\ \E n \in Nodes \cup {NoNode} :
          /\ Returns(r, n)
          /\ cand' = [cand EXCEPT ![r] = n]
          /\ Goto(r, IF n = NoNode THEN "finish" ELSE "ready")
    /\ UNCHANGED <<envVars, nodeVars, tried, attempts, key, held, ok, open>>

\* build: the request takes the next key of its node, if the node has keys.
Build(r) ==
    LET n == cand[r]
    IN  IF KeyCount[n] > 0
        THEN /\ key' = [key EXCEPT ![r] = NextKey(pool[n], KeyCount[n])]
             /\ pool' = [pool EXCEPT ![n] = AfterNext(@, KeyCount[n])]
        ELSE UNCHANGED <<key, pool>>

Send(r) ==
    /\ pc[r] = "ready"
    /\ tried' = [tried EXCEPT ![r] = @ \cup {cand[r]}]
    /\ Build(r)
    /\ Goto(r, "sent")
    /\ UNCHANGED <<envVars, healthy, passes, fails, breaker, probe, scanVars,
                   cand, attempts, held, ok, open>>

\* doUpstream's one transparent retry of a reset connection builds the request
\* anew, with the key after the one it used before.
Resend(r) ==
    /\ pc[r] = "sent"
    /\ Build(r)
    /\ Goto(r, "resent")
    /\ UNCHANGED <<envVars, healthy, passes, fails, breaker, probe, scanVars,
                   cand, tried, attempts, held, ok, open>>

Sent(r) == pc[r] \in {"sent", "resent"}

\* Timeout, refused connection, or the client's own context ending.
Break(r) ==
    /\ Sent(r)
    /\ ~up[cand[r]] \/ Cancels
    /\ Goto(r, "broken")
    /\ UNCHANGED <<envVars, nodeVars, scanVars, loopVars>>

\* Faulty variant: unprobed nodes are marked unhealthy too.
EjectAlways(r) ==
    /\ pc[r] = "broken"
    /\ healthy' = [healthy EXCEPT ![cand[r]] = FALSE]
    /\ Goto(r, "ejected")
    /\ UNCHANGED <<envVars, passes, fails, breaker, pool, probe, scanVars, loopVars>>

\* A transport error ejects the node, unless no probe would ever restore it.
Eject(r) ==
    /\ pc[r] = "broken"
    /\ healthy' = [healthy EXCEPT ![cand[r]] = @ /\ cand[r] \notin Probed]
    /\ Goto(r, "ejected")
    /\ UNCHANGED <<envVars, passes, fails, breaker, pool, probe, scanVars, loopVars>>

\* The error is scored and the next candidate selected, every tried node
\* excluded.
ScoreError(r) ==
    /\ pc[r] = "ejected"
    /\ breaker' = [breaker EXCEPT ![cand[r]] = RecordFailure(@)]
    /\ Select(r, tried[r], "reselecting")
    /\ UNCHANGED <<envVars, healthy, passes, fails, pool, probe, loopVars>>

\* The response of this attempt arrives.
Answer(r, label) ==
    /\ Sent(r) /\ up[cand[r]]
    /\ open' = [open EXCEPT ![r] = @ \cup {This(r)}]
    /\ Goto(r, label)
    /\ UNCHANGED <<envVars, healthy, passes, fails, breaker, probe, scanVars,
                   cand, tried, attempts, key, held, ok>>

\* A 5xx, or a quota answer on a node without a key pool (isFailoverStatus).
FailStatus(r) == Answer(r, "failing") /\ UNCHANGED pool

\* A 429, or a body that matches quota_detect_regex, cools the key that served.
QuotaStatus(r) ==
    /\ key[r] >= 0
    /\ Answer(r, "cooled")
    /\ pool' = [pool EXCEPT ![cand[r]] = MarkExhausted(@, key[r])]

\* A servable answer.
OkStatus(r) == Answer(r, "serving") /\ UNCHANGED pool

\* Faulty variant: the response held before is not closed.
HoldLeaks(r) ==
    /\ held' = [held EXCEPT ![r] = This(r)]
    /\ UNCHANGED open

\* heldResp is closed and replaced by the response of this attempt.
Hold(r) ==
    /\ open' = [open EXCEPT ![r] = @ \ {held[r]}]
    /\ held' = [held EXCEPT ![r] = This(r)]

\* With every key cooling the node itself is scored; otherwise selection runs
\* again without excluding it.
CheckKeys(r) ==
    /\ pc[r] = "cooled"
    /\ \/ /\ AllCooling(pool[cand[r]])
          /\ Goto(r, "failing")
          /\ UNCHANGED <<scanVars, held, open>>
       \/ /\ ~AllCooling(pool[cand[r]])
          /\ Hold(r)
          /\ Select(r, tried[r] \ {cand[r]}, "retrying")
    /\ UNCHANGED <<envVars, nodeVars, cand, tried, attempts, key, ok>>

\* Faulty variant: the loop has no ceiling.
AfterAttemptUnbounded(r, n) ==
    /\ cand' = [cand EXCEPT ![r] = n]
    /\ attempts' = [attempts EXCEPT ![r] = IF @ < MaxFailoverAttempts THEN @ + 1 ELSE @]
    /\ key' = [key EXCEPT ![r] = -1]
    /\ Goto(r, IF n = NoNode THEN "finish" ELSE "ready")

\* continue: the loop goes on with candidate n unless the ceiling is reached.
AfterAttempt(r, n) ==
    /\ cand' = [cand EXCEPT ![r] = n]
    /\ attempts' = [attempts EXCEPT ![r] = @ + 1]
    /\ key' = [key EXCEPT ![r] = -1]
    /\ Goto(r, IF n = NoNode \/ attempts'[r] >= MaxFailoverAttempts
               THEN "finish" ELSE "ready")

\* If selection returns the same node, it is tried again with its next key;
\* otherwise the code falls through to the path of a failed node.
RetryKey(r) ==
    /\ pc[r] = "retrying"
    /\ \E n \in Nodes \cup {NoNode} :
          /\ Returns(r, n)
          /\ IF n = cand[r] THEN AfterAttempt(r, n)
             ELSE Goto(r, "failing") /\ UNCHANGED <<cand, attempts, key>>
    /\ UNCHANGED <<envVars, nodeVars, tried, held, ok, open>>

\* The node is scored, its response held and the next candidate selected. After
\* a fall-through heldResp is the response of this very attempt: it is closed.
ScoreStatus(r) ==
    /\ pc[r] = "failing"
    /\ breaker' = [breaker EXCEPT ![cand[r]] = RecordFailure(@)]
    /\ Hold(r)
    /\ Select(r, tried[r], "reselecting")
    /\ UNCHANGED <<envVars, healthy, passes, fails, pool, probe,
                   cand, tried, attempts, key, ok>>

NextNode(r) ==
    /\ pc[r] = "reselecting"
    /\ \E n \in Nodes \cup {NoNode} : Returns(r, n) /\ AfterAttempt(r, n)
    /\ UNCHANGED <<envVars, nodeVars, tried, held, ok, open>>

\* A servable answer is scored and ends the loop.
ScoreSuccess(r) ==
    /\ pc[r] = "serving"
    /\ breaker' = [breaker EXCEPT ![cand[r]] = RecordSuccess(@)]
    /\ ok' = [ok EXCEPT ![r] = This(r)]
    /\ Goto(r, "finish")
    /\ UNCHANGED <<envVars, healthy, passes, fails, pool, probe, scanVars,
                   cand, tried, attempts, key, held, open>>

\* What is relayed: okResp, or else heldResp.
Relayed(r) == IF ok[r] # 0 THEN ok[r] ELSE held[r]

\* The locals of the loop are dead.
Forget(r) ==
    /\ cand' = [cand EXCEPT ![r] = NoNode] /\ tried' = [tried EXCEPT ![r] = {}]
    /\ key' = [key EXCEPT ![r] = -1]

\* The response to relay is settled; a heldResp that lost to okResp is closed.
StartRelay(r) ==
    /\ pc[r] = "finish" /\ Relayed(r) # 0
    /\ open' = [open EXCEPT ![r] = IF ok[r] # 0 THEN @ \ {held[r]} ELSE @]
    /\ Forget(r)
    /\ Goto(r, "relaying")
    /\ UNCHANGED <<envVars, nodeVars, scanVars, attempts, held, ok>>

\* No response at all: 502, or 503 when there never was a candidate.
Refuse(r) ==
    /\ pc[r] = "finish" /\ Relayed(r) = 0
    /\ Forget(r)
    /\ attempts' = [attempts EXCEPT ![r] = 0]
    /\ Goto(r, "idle")
    /\ UNCHANGED <<envVars, nodeVars, scanVars, held, ok, open>>

\* io.Copy has ended: with the response, or because the client left. Nothing
\* bounds it while the client stays and does not read.
EndRelay(r) ==
    /\ pc[r] = "relaying"
    /\ open' = [open EXCEPT ![r] = @ \ {Relayed(r)}]
    /\ attempts' = [attempts EXCEPT ![r] = 0]
    /\ held' = [held EXCEPT ![r] = 0] /\ ok' = [ok EXCEPT ![r] = 0]
    /\ Goto(r, "idle")
    /\ UNCHANGED <<envVars, nodeVars, scanVars, cand, tried, key>>

Handle(r) ==
    \/ Look(r) \/ Ask(r) \/ FirstNode(r)
    \/ Send(r) \/ Resend(r) \/ Break(r) \/ FailStatus(r) \/ QuotaStatus(r) \/ OkStatus(r)
    \/ Eject(r) \/ ScoreError(r) \/ CheckKeys(r) \/ RetryKey(r) \/ ScoreStatus(r)
    \/ NextNode(r) \/ ScoreSuccess(r) \/ StartRelay(r) \/ Refuse(r)

\* Nodes a selection for r that ran as one step would put into the buckets.
Usable(r) == {n \in Considered[r] \cap Serving[r] : healthy[n] /\ Allows(breaker[n])}

\* The history: what has been usable in every state since the request arrived.
TrackSteady ==
    steady' = [r \in Requests |-> CASE pc'[r] \in {"idle", "relaying"} -> {}
                                    [] pc'[r] = "arriving" /\ pc[r] = "idle" -> Usable(r)'
                                    [] OTHER -> steady[r] \cap Usable(r)']

FailoverNext ==
    /\ \/ Elapse
       \/ \E n \in Nodes : GoDown(n) \/ ComeUp(n) \/ SendProbe(n) \/ CountProbe(n)
                                     \/ StoreHealth(n)
       \/ \E r \in Requests : Arrive(r) \/ Handle(r) \/ EndRelay(r)
    /\ TrackSteady

\* Time passes, the health loop keeps probing, and a handler takes its next step:
\* an attempt ends by its own timeout at the latest. Nothing is assumed of the
\* client a response is relayed to.
FailoverFairness ==
    /\ WF_codeVars(Elapse)
    /\ \A n \in Nodes : WF_codeVars(SendProbe(n) \/ CountProbe(n) \/ StoreHealth(n))
    /\ \A r \in Requests : WF_codeVars(Handle(r))

FailoverSpec == FailoverInit /\ [][FailoverNext]_fvars /\ FailoverFairness

-----------------------------------------------------------------------------
\* No response body outlives its request, and a running request keeps open at
\* most the response it holds and the one it just received.
BodiesReleased ==
    \A r \in Requests : open[r] \subseteq (IF pc[r] = "idle" THEN {} ELSE {held[r], This(r)})

\* A request that gives up with attempts left has tried every node that was
\* healthy and admitted by its breaker all the time since the request arrived,
\* whatever flapped, opened or was asked by others while it scanned the nodes.
SteadyNodesTried ==
    \A r \in Requests :
        pc[r] = "finish" /\ ok[r] = 0 /\ attempts[r] < MaxFailoverAttempts
            => steady[r] \subseteq tried[r]

\* Every request gets as far as its answer, also when a node keeps answering 429
\* with a fresh key left: it ends, or it is at the mercy of the client it relays to.
RequestsFinish == \A r \in Requests : []<>(pc[r] \in {"idle", "relaying"})

\* An attempt on node n has broken off and is about to be held against it.
Breaking(n) == \E r \in Requests : cand[r] = n /\ pc[r] \in {"broken", "ejected"}

\* Self-healing: a node whose upstream stays reachable is marked healthy and its
\* breaker admits again and again, whether or not the health loop probes it; and
\* once clients stop breaking off their attempts, both at the same time.
NodesRecover ==
    \A n \in Nodes : <>[]up[n] =>
        /\ []<>healthy[n] /\ []<>Allows(breaker[n])
        /\ <>[]~Breaking(n) => []<>(healthy[n] /\ Allows(breaker[n]))

\* The comment on the last resort of the loop: with the chain exhausted the
\* real upstream response, true status and body, is relayed.
HeldBodyReadable ==
    \A r \in Requests : pc[r] = "finish" /\ ok[r] = 0 /\ held[r] # 0 => held[r] \in open[r]
=============================================================================
