-------------------------- MODULE FailoverProofs --------------------------
(***************************************************************************)
(* What holds of the failover loop for every set of nodes, every filter,   *)
(* every ceiling on the attempts and every interleaving of requests, health*)
(* probes and outages.                                                     *)
(***************************************************************************)
EXTENDS Failover, TLAPS

Labels == {"idle", "arriving", "ready", "sent", "resent", "broken", "ejected", "cooled",
           "retrying", "failing", "reselecting", "serving", "finish", "relaying"}

LoopTypeOK ==
    /\ pc \in [Requests -> Labels]
    /\ cand \in [Requests -> Nodes \cup {NoNode}]
    /\ attempts \in [Requests -> Nat]
    /\ held \in [Requests -> Nat] /\ ok \in [Requests -> Nat]
    /\ open \in [Requests -> SUBSET (Nat \ {0})]

\* Which bodies the loop may have open at each of its steps, and that it has a
\* candidate wherever it uses one.
LoopHolds(r) ==
    /\ pc[r] \notin {"idle", "arriving", "finish", "relaying"} => cand[r] \in Nodes
    /\ pc[r] \in {"idle", "arriving"} => open[r] = {}
    /\ pc[r] \in {"ready", "sent", "resent", "broken", "ejected", "retrying", "reselecting"}
          => open[r] \subseteq {held[r]}
    /\ pc[r] \in {"cooled", "failing", "serving"} => open[r] \subseteq {held[r], This(r)}
    /\ pc[r] = "finish" => \/ ok[r] = 0 /\ open[r] \subseteq {held[r]}
                           \/ ok[r] = This(r) /\ open[r] \subseteq {held[r], ok[r]}
    /\ pc[r] = "relaying" => ok[r] \in {0, This(r)} /\ open[r] \subseteq {Relayed(r)}
    /\ pc[r] \notin {"finish", "relaying"} => ok[r] = 0

LoopInv == LoopTypeOK /\ \A r \in Requests : LoopHolds(r)

\* A step of one request's loop that leaves the others alone.
LEMMA OneRequest ==
    ASSUME LoopInv, NEW r \in Requests, LoopTypeOK',
           \A q \in Requests \ {r} : /\ pc'[q] = pc[q] /\ cand'[q] = cand[q]
                                     /\ attempts'[q] = attempts[q] /\ held'[q] = held[q]
                                     /\ ok'[q] = ok[q] /\ open'[q] = open[q],
           LoopHolds(r)'
    PROVE  LoopInv'
<1>1. ASSUME NEW q \in Requests, q # r PROVE LoopHolds(q)'
  <2>1. LoopHolds(q)
    BY DEF LoopInv
  <2> QED
    BY <1>1, <2>1 DEF LoopHolds, This, Relayed
<1> QED
  BY <1>1 DEF LoopInv

\* The loop keeps its books on open bodies.
LEMMA NextLoopInv == LoopInv /\ [FailoverNext]_fvars => LoopInv'
<1> SUFFICES ASSUME LoopInv, [FailoverNext]_fvars PROVE LoopInv'
  OBVIOUS
<1>0. LoopTypeOK /\ \A r \in Requests : LoopHolds(r)
  BY DEF LoopInv
<1>1. CASE UNCHANGED <<pc, cand, attempts, held, ok, open>>
  BY <1>0, <1>1 DEF LoopInv, LoopTypeOK, LoopHolds, This, Relayed
<1>2. CASE UNCHANGED fvars \/ Elapse \/ \E n \in Nodes : GoDown(n) \/ ComeUp(n)
                        \/ SendProbe(n) \/ CountProbe(n) \/ StoreHealth(n)
  <2>1. UNCHANGED <<pc, cand, attempts, held, ok, open>>
    BY <1>2 DEF fvars, codeVars, reqVars, loopVars, Elapse, GoDown, ComeUp, SendProbe,
                CountProbe, StoreHealth
  <2> QED
    BY <1>1, <2>1
<1>3. ASSUME NEW r \in Requests, Look(r) \/ Ask(r) PROVE LoopInv'
  <2>1. UNCHANGED <<pc, cand, attempts, held, ok, open>>
    BY <1>3 DEF Look, Ask, loopVars
  <2> QED
    BY <1>1, <2>1
<1>4. ASSUME NEW r \in Requests,
             Arrive(r) \/ Send(r) \/ Resend(r) \/ Break(r) \/ Eject(r) \/ ScoreError(r)
      PROVE  LoopInv'
  <2>1. /\ UNCHANGED <<cand, attempts, held, ok, open>>
        /\ \/ pc[r] = "idle" /\ pc' = [pc EXCEPT ![r] = "arriving"]
           \/ pc[r] = "ready" /\ pc' = [pc EXCEPT ![r] = "sent"]
           \/ pc[r] = "sent" /\ pc' = [pc EXCEPT ![r] = "resent"]
           \/ pc[r] \in {"sent", "resent"} /\ pc' = [pc EXCEPT ![r] = "broken"]
           \/ pc[r] = "broken" /\ pc' = [pc EXCEPT ![r] = "ejected"]
           \/ pc[r] = "ejected" /\ pc' = [pc EXCEPT ![r] = "reselecting"]
    BY <1>4 DEF Arrive, Send, Resend, Break, Sent, Eject, ScoreError, Select, Goto, loopVars
  <2>2. LoopTypeOK'
    BY <1>0, <2>1 DEF LoopTypeOK, Labels
  <2>3. LoopHolds(r)'
    BY <1>0, <2>1 DEF LoopTypeOK, LoopHolds
  <2> QED
    BY <1>0, <2>1, <2>2, <2>3, OneRequest DEF LoopTypeOK
<1>5. ASSUME NEW r \in Requests, FirstNode(r) PROVE LoopInv'
  <2>1. PICK n \in Nodes \cup {NoNode} :
            /\ cand' = [cand EXCEPT ![r] = n]
            /\ pc' = [pc EXCEPT ![r] = IF n = NoNode THEN "finish" ELSE "ready"]
    BY <1>5 DEF FirstNode, Goto
  <2>2. pc[r] = "arriving" /\ UNCHANGED <<attempts, held, ok, open>>
    BY <1>5 DEF FirstNode
  <2>3. LoopTypeOK'
    BY <1>0, <2>1, <2>2 DEF LoopTypeOK, Labels
  <2>4. LoopHolds(r)'
    BY <1>0, <2>1, <2>2 DEF LoopTypeOK, LoopHolds
  <2> QED
    BY <1>0, <2>1, <2>2, <2>3, <2>4, OneRequest DEF LoopTypeOK
<1>6. ASSUME NEW r \in Requests, FailStatus(r) \/ QuotaStatus(r) \/ OkStatus(r) PROVE LoopInv'
  <2>1. PICK label \in {"failing", "cooled", "serving"} : Answer(r, label)
    BY <1>6 DEF FailStatus, QuotaStatus, OkStatus
  <2>2. /\ pc[r] \in {"sent", "resent"} /\ pc' = [pc EXCEPT ![r] = label]
        /\ UNCHANGED <<cand, attempts, held, ok>>
        /\ open' = [open EXCEPT ![r] = @ \cup {This(r)}]
    BY <2>1 DEF Answer, Sent, Goto
  <2>3. LoopTypeOK'
    BY <1>0, <2>2 DEF LoopTypeOK, Labels, This
  <2>4. LoopHolds(r)'
    BY <1>0, <2>2 DEF LoopTypeOK, LoopHolds, This
  <2> QED
    BY <1>0, <2>2, <2>3, <2>4, OneRequest DEF LoopTypeOK
<1>7. ASSUME NEW r \in Requests, CheckKeys(r) \/ ScoreStatus(r) PROVE LoopInv'
  <2>1. UNCHANGED <<cand, attempts, ok>> /\ pc[r] \in {"cooled", "failing"}
    BY <1>7 DEF CheckKeys, ScoreStatus
  <2>2. CASE UNCHANGED <<held, open>> /\ pc' = [pc EXCEPT ![r] = "failing"]
    <3>1. LoopTypeOK'
      BY <1>0, <2>1, <2>2 DEF LoopTypeOK, Labels
    <3>2. LoopHolds(r)'
      BY <1>0, <2>1, <2>2 DEF LoopTypeOK, LoopHolds, This
    <3> QED
      BY <1>0, <2>1, <2>2, <3>1, <3>2, OneRequest DEF LoopTypeOK
  <2>3. ASSUME Hold(r), NEW label \in {"retrying", "reselecting"},
               pc' = [pc EXCEPT ![r] = label]
        PROVE  LoopInv'
    <3>1. /\ held' = [held EXCEPT ![r] = This(r)]
          /\ open' = [open EXCEPT ![r] = @ \ {held[r]}]
      BY <2>3 DEF Hold
    <3>2. LoopTypeOK'
      BY <1>0, <2>1, <2>3, <3>1 DEF LoopTypeOK, Labels, This
    <3>3. LoopHolds(r)'
      BY <1>0, <2>1, <2>3, <3>1 DEF LoopTypeOK, LoopHolds
    <3> QED
      BY <1>0, <2>1, <2>3, <3>1, <3>2, <3>3, OneRequest DEF LoopTypeOK
  <2> QED
    BY <1>7, <2>2, <2>3 DEF CheckKeys, ScoreStatus, Select, Goto
<1>8. ASSUME NEW r \in Requests, RetryKey(r) \/ NextNode(r) PROVE LoopInv'
  <2>1. UNCHANGED <<held, ok, open>> /\ pc[r] \in {"retrying", "reselecting"}
    BY <1>8 DEF RetryKey, NextNode
  <2>2. CASE pc' = [pc EXCEPT ![r] = "failing"] /\ UNCHANGED <<cand, attempts>>
    <3>1. LoopTypeOK'
      BY <1>0, <2>1, <2>2 DEF LoopTypeOK, Labels
    <3>2. LoopHolds(r)'
      BY <1>0, <2>1, <2>2 DEF LoopTypeOK, LoopHolds, This
    <3> QED
      BY <1>0, <2>1, <2>2, <3>1, <3>2, OneRequest DEF LoopTypeOK
  <2>3. ASSUME NEW n \in Nodes \cup {NoNode}, AfterAttempt(r, n) PROVE LoopInv'
    <3>1. /\ cand' = [cand EXCEPT ![r] = n] /\ attempts' = [attempts EXCEPT ![r] = @ + 1]
          /\ \/ pc' = [pc EXCEPT ![r] = "finish"]
             \/ pc' = [pc EXCEPT ![r] = "ready"] /\ n # NoNode
      BY <2>3 DEF AfterAttempt, Goto
    <3>2. LoopTypeOK'
      BY <1>0, <2>1, <3>1 DEF LoopTypeOK, Labels
    <3>3. LoopHolds(r)'
      BY <1>0, <2>1, <3>1 DEF LoopTypeOK, LoopHolds
    <3> QED
      BY <1>0, <2>1, <3>1, <3>2, <3>3, OneRequest DEF LoopTypeOK
  <2> QED
    BY <1>8, <2>2, <2>3 DEF RetryKey, NextNode, Goto
<1>9. ASSUME NEW r \in Requests, ScoreSuccess(r) PROVE LoopInv'
  <2>1. /\ pc[r] = "serving" /\ pc' = [pc EXCEPT ![r] = "finish"]
        /\ UNCHANGED <<cand, attempts, held, open>>
        /\ ok' = [ok EXCEPT ![r] = This(r)]
    BY <1>9 DEF ScoreSuccess, Goto
  <2>2. LoopTypeOK'
    BY <1>0, <2>1 DEF LoopTypeOK, Labels, This
  <2>3. LoopHolds(r)'
    BY <1>0, <2>1 DEF LoopTypeOK, LoopHolds, This
  <2> QED
    BY <1>0, <2>1, <2>2, <2>3, OneRequest DEF LoopTypeOK
<1>10. ASSUME NEW r \in Requests, StartRelay(r) PROVE LoopInv'
  <2>1. /\ pc[r] = "finish" /\ pc' = [pc EXCEPT ![r] = "relaying"]
        /\ UNCHANGED <<attempts, held, ok>> /\ cand' = [cand EXCEPT ![r] = NoNode]
        /\ open' = [open EXCEPT ![r] = IF ok[r] # 0 THEN @ \ {held[r]} ELSE @]
    BY <1>10 DEF StartRelay, Forget, Goto
  <2>2. LoopTypeOK'
    BY <1>0, <2>1 DEF LoopTypeOK, Labels
  <2>3. LoopHolds(r)'
    BY <1>0, <2>1 DEF LoopTypeOK, LoopHolds, This, Relayed
  <2> QED
    BY <1>0, <2>1, <2>2, <2>3, OneRequest DEF LoopTypeOK
<1>11. ASSUME NEW r \in Requests, Refuse(r) PROVE LoopInv'
  <2>1. /\ pc[r] = "finish" /\ pc' = [pc EXCEPT ![r] = "idle"] /\ Relayed(r) = 0
        /\ UNCHANGED <<held, ok, open>> /\ cand' = [cand EXCEPT ![r] = NoNode]
        /\ attempts' = [attempts EXCEPT ![r] = 0]
    BY <1>11 DEF Refuse, Forget, Goto
  <2>2. LoopTypeOK'
    BY <1>0, <2>1 DEF LoopTypeOK, Labels
  <2>3. ok[r] = 0 /\ held[r] = 0 /\ 0 \notin open[r]
    BY <1>0, <2>1 DEF Relayed, LoopTypeOK
  <2>4. LoopHolds(r)'
    BY <1>0, <2>1, <2>3 DEF LoopTypeOK, LoopHolds, This
  <2> QED
    BY <1>0, <2>1, <2>2, <2>4, OneRequest DEF LoopTypeOK
<1>12. ASSUME NEW r \in Requests, EndRelay(r) PROVE LoopInv'
  <2>1. /\ pc[r] = "relaying" /\ pc' = [pc EXCEPT ![r] = "idle"] /\ UNCHANGED cand
        /\ open' = [open EXCEPT ![r] = @ \ {Relayed(r)}]
        /\ attempts' = [attempts EXCEPT ![r] = 0]
        /\ held' = [held EXCEPT ![r] = 0] /\ ok' = [ok EXCEPT ![r] = 0]
    BY <1>12 DEF EndRelay, Goto
  <2>2. LoopTypeOK'
    BY <1>0, <2>1 DEF LoopTypeOK, Labels
  <2>3. LoopHolds(r)'
    BY <1>0, <2>1 DEF LoopTypeOK, LoopHolds
  <2> QED
    BY <1>0, <2>1, <2>2, <2>3, OneRequest DEF LoopTypeOK
<1> QED
  BY <1>2, <1>3, <1>4, <1>5, <1>6, <1>7, <1>8, <1>9, <1>10, <1>11, <1>12
     DEF FailoverNext, Handle

\* The loop's invariant holds throughout.
THEOREM LoopInvariant == FailoverSpec => []LoopInv
<1>1. FailoverInit => LoopInv
  <2> SUFFICES ASSUME FailoverInit PROVE LoopInv
    OBVIOUS
  <2>1. LoopTypeOK
    BY DEF FailoverInit, LoopTypeOK, Labels
  <2>2. \A r \in Requests : LoopHolds(r)
    BY DEF FailoverInit, LoopHolds
  <2> QED
    BY <2>1, <2>2 DEF LoopInv
<1> QED
  BY <1>1, NextLoopInv, PTL DEF FailoverSpec

\* Every response body the failover loop opens is closed: none outlives its
\* request, and at most two are open meanwhile (handleProxy's heldResp, okResp).
THEOREM BodiesAreReleased == FailoverSpec => []BodiesReleased
<1>1. LoopInv => BodiesReleased
  <2> SUFFICES ASSUME LoopInv, NEW r \in Requests
               PROVE  open[r] \subseteq (IF pc[r] = "idle" THEN {} ELSE {held[r], This(r)})
    BY DEF BodiesReleased
  <2>1. pc[r] \in Labels /\ LoopHolds(r)
    BY DEF LoopInv, LoopTypeOK
  <2> QED
    BY <2>1 DEF LoopHolds, Labels, Relayed
<1> QED
  BY LoopInvariant, <1>1, PTL

-----------------------------------------------------------------------------
ScanTypeOK ==
    /\ left \in [Requests -> SUBSET Nodes] /\ found \in [Requests -> SUBSET Nodes]
    /\ seen \in [Requests -> Nodes \cup {NoNode}]
    /\ tried \in [Requests -> SUBSET (Nodes \cup {NoNode})]
    /\ steady \in [Requests -> SUBSET Nodes]

\* A selection that excludes the tried nodes has every steady node still before
\* it, in its hands, or among those it found; and so a loop that ran out of
\* candidates before its ceiling has tried them all.
SteadyHolds(r) ==
    /\ steady[r] \subseteq Usable(r)
    /\ pc[r] \in {"arriving", "reselecting"}
          => steady[r] \subseteq tried[r] \cup left[r] \cup found[r] \cup {seen[r]}
    /\ pc[r] = "finish" /\ ok[r] = 0 /\ attempts[r] < MaxFailoverAttempts
          => steady[r] \subseteq tried[r]

SteadyInv == ScanTypeOK /\ \A r \in Requests : SteadyHolds(r)

\* What the history does in one step.
LEMMA SteadyShrinks ==
    ASSUME LoopInv, SteadyInv, TrackSteady, NEW r \in Requests
    PROVE  /\ steady' \in [Requests -> SUBSET Nodes]
           /\ steady'[r] \subseteq Usable(r)'
           /\ steady'[r] \subseteq steady[r] \/ (pc[r] = "idle" /\ pc'[r] = "arriving")
<1>1. \A q \in Requests : Usable(q)' \subseteq Nodes
  BY FailoverAssumption DEF Usable
<1>2. steady'[r] = CASE pc'[r] \in {"idle", "relaying"} -> {}
                     [] pc'[r] = "arriving" /\ pc[r] = "idle" -> Usable(r)'
                     [] OTHER -> steady[r] \cap Usable(r)'
  BY DEF TrackSteady
<1>3. steady' \in [Requests -> SUBSET Nodes]
  BY <1>1 DEF TrackSteady
<1> QED
  BY <1>2, <1>3

\* A step that changes neither the loop nor the scan of a request keeps what is
\* known of its steady nodes.
LEMMA SteadyOther ==
    ASSUME LoopInv, SteadyInv, TrackSteady, NEW r \in Requests,
           pc'[r] = pc[r], tried'[r] = tried[r], left'[r] = left[r], found'[r] = found[r],
           seen'[r] = seen[r], ok'[r] = ok[r], attempts'[r] = attempts[r]
    PROVE  SteadyHolds(r)'
<1>1. steady'[r] \subseteq Usable(r)' /\ steady'[r] \subseteq steady[r] /\ SteadyHolds(r)
  BY SteadyShrinks DEF SteadyInv
<1> QED
  BY <1>1 DEF SteadyHolds

\* A step of one request's handler.
LEMMA SteadyOne ==
    ASSUME LoopInv, SteadyInv, TrackSteady, NEW r \in Requests, ScanTypeOK',
           \A q \in Requests \ {r} : /\ pc'[q] = pc[q] /\ tried'[q] = tried[q]
                                     /\ left'[q] = left[q] /\ found'[q] = found[q]
                                     /\ seen'[q] = seen[q] /\ ok'[q] = ok[q]
                                     /\ attempts'[q] = attempts[q],
           SteadyHolds(r)'
    PROVE  SteadyInv'
<1>1. ASSUME NEW q \in Requests, q # r PROVE SteadyHolds(q)'
  BY <1>1, SteadyOther
<1> QED
  BY <1>1 DEF SteadyInv

\* Whatever the nodes' flags and breakers do, no selection loses a steady node.
LEMMA NextSteadyInv == LoopInv /\ SteadyInv /\ [FailoverNext]_fvars => SteadyInv'
<1> SUFFICES ASSUME LoopInv, SteadyInv, [FailoverNext]_fvars PROVE SteadyInv'
  OBVIOUS
<1>0. /\ LoopTypeOK /\ ScanTypeOK /\ NoNode \notin Nodes
      /\ \A r \in Requests : LoopHolds(r) /\ SteadyHolds(r) /\ Considered[r] \subseteq Nodes
  BY FailoverAssumption DEF LoopInv, SteadyInv
<1>1. CASE UNCHANGED fvars
  BY <1>0, <1>1 DEF fvars, codeVars, reqVars, scanVars, loopVars, nodeVars, SteadyInv,
                    ScanTypeOK, SteadyHolds, Usable
<1> SUFFICES ASSUME FailoverNext PROVE SteadyInv'
  BY <1>1
<1>t. TrackSteady /\ steady' \in [Requests -> SUBSET Nodes]
  <2>1. TrackSteady /\ \A r \in Requests : Usable(r)' \subseteq Nodes
    BY FailoverAssumption DEF FailoverNext, Usable
  <2> QED
    BY <1>0, <2>1 DEF TrackSteady, ScanTypeOK
<1>2. CASE UNCHANGED reqVars
  <2>1. UNCHANGED <<pc, left, seen, found, tried, ok, attempts>>
    BY <1>2 DEF reqVars, scanVars, loopVars
  <2>2. ScanTypeOK'
    BY <1>0, <1>t, <2>1 DEF ScanTypeOK
  <2>3. \A r \in Requests : SteadyHolds(r)'
    BY <1>t, <2>1, SteadyOther
  <2> QED
    BY <2>2, <2>3 DEF SteadyInv
<1>3. CASE Elapse \/ \E n \in Nodes : GoDown(n) \/ ComeUp(n)
                        \/ SendProbe(n) \/ CountProbe(n) \/ StoreHealth(n)
  <2>1. UNCHANGED reqVars
    BY <1>3 DEF Elapse, GoDown, ComeUp, SendProbe, CountProbe, StoreHealth
  <2> QED
    BY <1>2, <2>1
<1>4. ASSUME NEW r \in Requests, Look(r) PROVE SteadyInv'
  <2>1. PICK n \in left[r] :
            /\ left' = [left EXCEPT ![r] = @ \ {n}]
            /\ seen' = [seen EXCEPT ![r] = IF healthy[n] THEN n ELSE NoNode]
    BY <1>4 DEF Look
  <2>2. /\ UNCHANGED <<pc, found, tried, ok, attempts>> /\ seen[r] = NoNode
        /\ pc[r] \in {"arriving", "retrying", "reselecting"}
    BY <1>4 DEF Look, loopVars, Selecting
  <2>3. n \in Nodes /\ ScanTypeOK'
    BY <1>0, <1>t, <2>1, <2>2 DEF ScanTypeOK
  <2>4. steady'[r] \subseteq steady[r] /\ steady'[r] \subseteq Usable(r)'
    BY <1>t, <2>2, SteadyShrinks
  <2>5. /\ steady[r] \subseteq Nodes /\ (n \in steady[r] => healthy[n])
        /\ left'[r] = left[r] \ {n} /\ seen'[r] = IF healthy[n] THEN n ELSE NoNode
    BY <1>0, <2>1 DEF SteadyHolds, Usable, ScanTypeOK
  <2>6. SteadyHolds(r)'
    <3>1. pc[r] \in {"arriving", "reselecting"} =>
            steady'[r] \subseteq tried[r] \cup left'[r] \cup found[r] \cup {seen'[r]}
      BY <1>0, <2>2, <2>4, <2>5 DEF SteadyHolds
    <3> QED
      BY <2>2, <2>4, <3>1 DEF SteadyHolds
  <2> QED
    BY <1>0, <1>t, <2>1, <2>2, <2>3, <2>6, SteadyOne DEF ScanTypeOK
<1>5. ASSUME NEW r \in Requests, Ask(r) PROVE SteadyInv'
  <2> DEFINE n == seen[r]
  <2>1. /\ UNCHANGED <<pc, left, tried, ok, attempts>>
        /\ seen' = [seen EXCEPT ![r] = NoNode]
        /\ found' = [found EXCEPT ![r] =
                       IF Allows(breaker[n]) /\ n \in Serving[r] THEN @ \cup {n} ELSE @]
        /\ n # NoNode /\ pc[r] \in {"arriving", "retrying", "reselecting"}
    BY <1>5 DEF Ask, loopVars, Selecting
  <2>2. ScanTypeOK'
    BY <1>0, <1>t, <2>1 DEF ScanTypeOK
  <2>3. steady'[r] \subseteq steady[r] /\ steady'[r] \subseteq Usable(r)'
    BY <1>t, <2>1, SteadyShrinks
  <2>4. n \in steady[r] => n \in found'[r]
    BY <1>0, <2>1 DEF SteadyHolds, Usable, ScanTypeOK
  <2>5. found[r] \subseteq found'[r]
    BY <1>0, <2>1 DEF ScanTypeOK
  <2>6. SteadyHolds(r)'
    <3>1. pc[r] \in {"arriving", "reselecting"} =>
            steady'[r] \subseteq tried[r] \cup left[r] \cup found'[r] \cup {seen'[r]}
      BY <1>0, <2>3, <2>4, <2>5 DEF SteadyHolds
    <3> QED
      BY <2>1, <2>3, <3>1 DEF SteadyHolds
  <2> QED
    BY <1>0, <1>t, <2>1, <2>2, <2>6, SteadyOne DEF ScanTypeOK
<1>6. ASSUME NEW r \in Requests, Arrive(r) \/ ScoreError(r) \/ ScoreStatus(r) PROVE SteadyInv'
  <2>1. PICK excluded \in {{}, tried[r]}, label \in {"arriving", "reselecting"} :
            /\ left' = [left EXCEPT ![r] = Considered[r] \ excluded]
            /\ found' = [found EXCEPT ![r] = {}]
            /\ pc' = [pc EXCEPT ![r] = label]
    BY <1>6 DEF Arrive, ScoreError, ScoreStatus, Select, Goto
  <2>2. UNCHANGED <<seen, tried, ok, attempts>>
    BY <1>6 DEF Arrive, ScoreError, ScoreStatus, Select, loopVars
  <2>3. ScanTypeOK'
    BY <1>0, <1>t, <2>1, <2>2 DEF ScanTypeOK
  <2>4. steady'[r] \subseteq Usable(r)' /\ Usable(r)' \subseteq Considered[r]
    BY <1>t, SteadyShrinks DEF Usable
  <2>5. pc'[r] = label /\ left'[r] = Considered[r] \ excluded
    BY <1>0, <2>1 DEF LoopTypeOK, ScanTypeOK
  <2>6. SteadyHolds(r)'
    BY <2>2, <2>4, <2>5 DEF SteadyHolds
  <2> QED
    BY <1>0, <1>t, <2>1, <2>2, <2>3, <2>6, SteadyOne DEF ScanTypeOK, LoopTypeOK
<1>7. ASSUME NEW r \in Requests, FirstNode(r) \/ NextNode(r) PROVE SteadyInv'
  <2>0. PICK n \in Nodes \cup {NoNode} :
            /\ Returns(r, n)
            /\ \/ n = NoNode
               \/ pc' = [pc EXCEPT ![r] = "ready"] /\ UNCHANGED attempts
               \/ AfterAttempt(r, n)
            /\ \E label \in {"ready", "finish"} : pc' = [pc EXCEPT ![r] = label]
            /\ attempts' \in {attempts, [attempts EXCEPT ![r] = @ + 1]}
    BY <1>7 DEF FirstNode, NextNode, AfterAttempt, Goto
  <2>1. /\ UNCHANGED <<tried, ok, left, seen>> /\ left[r] = {} /\ seen[r] = NoNode
        /\ found' = [found EXCEPT ![r] = {}] /\ n \in Picks(r)
        /\ pc[r] \in {"arriving", "reselecting"}
    BY <1>7, <2>0 DEF FirstNode, NextNode, Returns
  <2>2. ScanTypeOK'
    BY <1>0, <1>t, <2>1 DEF ScanTypeOK
  <2>3. steady'[r] \subseteq steady[r] /\ steady'[r] \subseteq Usable(r)'
    BY <1>t, <2>1, SteadyShrinks
  <2>4. pc'[r] \in {"ready", "finish"}
    BY <1>0, <2>0 DEF LoopTypeOK
  <2>5. n = NoNode => steady[r] \subseteq tried[r]
    <3>1. steady[r] \subseteq tried[r] \cup found[r] \cup {NoNode} /\ NoNode \notin steady[r]
      BY <1>0, <2>1 DEF SteadyHolds, ScanTypeOK
    <3>2. n = NoNode => found[r] = {}
      BY <1>0, <2>1 DEF Picks, ScanTypeOK
    <3> QED
      BY <3>1, <3>2
  <2>6. n # NoNode /\ pc'[r] = "finish" => ~(attempts'[r] < MaxFailoverAttempts)
    <3>1. attempts[r] + 1 \in Nat /\ MaxFailoverAttempts \in Nat
      BY <1>0, FailoverAssumption DEF LoopTypeOK
    <3>2. AfterAttempt(r, n) /\ n # NoNode /\ pc'[r] = "finish"
             => attempts'[r] = attempts[r] + 1 /\ attempts'[r] >= MaxFailoverAttempts
      BY <1>0 DEF AfterAttempt, Goto, LoopTypeOK
    <3>3. pc' = [pc EXCEPT ![r] = "ready"] => pc'[r] # "finish"
      BY <1>0 DEF LoopTypeOK
    <3> QED
      BY <2>0, <3>1, <3>2, <3>3
  <2>7. SteadyHolds(r)'
    BY <2>1, <2>3, <2>4, <2>5, <2>6 DEF SteadyHolds
  <2> QED
    BY <1>0, <1>t, <2>0, <2>1, <2>2, <2>7, SteadyOne DEF ScanTypeOK, LoopTypeOK
<1>8. ASSUME NEW r \in Requests, RetryKey(r) PROVE SteadyInv'
  <2>0. PICK n \in Nodes \cup {NoNode} :
            /\ Returns(r, n)
            /\ \/ n = cand[r] /\ AfterAttempt(r, n)
               \/ pc' = [pc EXCEPT ![r] = "failing"] /\ UNCHANGED attempts
            /\ \E label \in {"ready", "finish", "failing"} : pc' = [pc EXCEPT ![r] = label]
            /\ attempts' \in {attempts, [attempts EXCEPT ![r] = @ + 1]}
    BY <1>8 DEF RetryKey, AfterAttempt, Goto
  <2>1. /\ UNCHANGED <<tried, ok, left, seen>> /\ pc[r] = "retrying" /\ cand[r] # NoNode
        /\ found' = [found EXCEPT ![r] = {}]
    BY <1>0, <1>8, <2>0 DEF RetryKey, Returns, LoopHolds
  <2>2. ScanTypeOK'
    BY <1>0, <1>t, <2>1 DEF ScanTypeOK
  <2>3. steady'[r] \subseteq Usable(r)'
    BY <1>t, SteadyShrinks
  <2>4. pc'[r] \in {"ready", "finish", "failing"}
    BY <1>0, <2>0 DEF LoopTypeOK
  <2>5. pc'[r] = "finish" => ~(attempts'[r] < MaxFailoverAttempts)
    <3>1. attempts[r] + 1 \in Nat /\ MaxFailoverAttempts \in Nat
      BY <1>0, FailoverAssumption DEF LoopTypeOK
    <3>2. AfterAttempt(r, n) /\ n # NoNode /\ pc'[r] = "finish"
             => attempts'[r] = attempts[r] + 1 /\ attempts'[r] >= MaxFailoverAttempts
      BY <1>0 DEF AfterAttempt, Goto, LoopTypeOK
    <3>3. pc' = [pc EXCEPT ![r] = "failing"] => pc'[r] # "finish"
      BY <1>0 DEF LoopTypeOK
    <3> QED
      BY <2>0, <2>1, <3>1, <3>2, <3>3
  <2>6. SteadyHolds(r)'
    BY <2>3, <2>4, <2>5 DEF SteadyHolds
  <2> QED
    BY <1>0, <1>t, <2>0, <2>1, <2>2, <2>6, SteadyOne DEF ScanTypeOK, LoopTypeOK
<1>9. ASSUME NEW r \in Requests, CheckKeys(r) PROVE SteadyInv'
  <2>1. /\ UNCHANGED <<tried, ok, attempts, seen>>
        /\ \/ pc' = [pc EXCEPT ![r] = "failing"] /\ UNCHANGED <<left, found>>
           \/ /\ pc' = [pc EXCEPT ![r] = "retrying"]
              /\ found' = [found EXCEPT ![r] = {}]
              /\ left' = [left EXCEPT ![r] = Considered[r] \ (tried[r] \ {cand[r]})]
    BY <1>9 DEF CheckKeys, Select, Goto, scanVars
  <2>2. ScanTypeOK'
    BY <1>0, <1>t, <2>1 DEF ScanTypeOK
  <2>3. steady'[r] \subseteq Usable(r)' /\ pc'[r] \in {"failing", "retrying"}
    BY <1>0, <1>t, <2>1, SteadyShrinks DEF LoopTypeOK
  <2>4. SteadyHolds(r)'
    BY <2>3 DEF SteadyHolds
  <2> QED
    BY <1>0, <1>t, <2>1, <2>2, <2>4, SteadyOne DEF ScanTypeOK, LoopTypeOK
<1>10. ASSUME NEW r \in Requests,
              \/ Send(r) \/ Resend(r) \/ Break(r) \/ Eject(r) \/ FailStatus(r) \/ QuotaStatus(r)
              \/ OkStatus(r) \/ ScoreSuccess(r) \/ StartRelay(r) \/ Refuse(r) \/ EndRelay(r)
       PROVE  SteadyInv'
  <2>1. UNCHANGED scanVars
    BY <1>10 DEF Send, Resend, Break, Eject, FailStatus, QuotaStatus, OkStatus, Answer,
                 ScoreSuccess, StartRelay, Refuse, EndRelay
  <2>2. \E label \in {"sent", "resent", "broken", "ejected", "failing", "cooled", "serving",
                      "finish", "relaying", "idle"} :
            /\ pc' = [pc EXCEPT ![r] = label]
            /\ label = "finish" => ok' = [ok EXCEPT ![r] = This(r)]
    BY <1>10 DEF Send, Resend, Break, Eject, FailStatus, QuotaStatus, OkStatus, Answer,
                 ScoreSuccess, StartRelay, Refuse, EndRelay, Goto
  <2>3. tried' \in {tried, [tried EXCEPT ![r] = @ \cup {cand[r]}], [tried EXCEPT ![r] = {}]}
    BY <1>10 DEF Send, Resend, Break, Eject, FailStatus, QuotaStatus, OkStatus, Answer,
                 ScoreSuccess, StartRelay, Refuse, EndRelay, Forget, loopVars
  <2>4. /\ attempts' \in {attempts, [attempts EXCEPT ![r] = 0]}
        /\ ok' \in {ok, [ok EXCEPT ![r] = This(r)], [ok EXCEPT ![r] = 0]}
    BY <1>10 DEF Send, Resend, Break, Eject, FailStatus, QuotaStatus, OkStatus, Answer,
                 ScoreSuccess, StartRelay, Refuse, EndRelay, Forget, loopVars
  <2>5. ScanTypeOK'
    BY <1>0, <1>t, <2>1, <2>3 DEF ScanTypeOK, scanVars, LoopTypeOK
  <2>6. steady'[r] \subseteq Usable(r)'
    BY <1>t, SteadyShrinks
  <2>7. /\ pc'[r] \notin {"arriving", "reselecting"}
        /\ pc'[r] = "finish" => ok'[r] # 0
    <3>1. This(r) # 0
      BY <1>0 DEF This, LoopTypeOK
    <3> QED
      BY <1>0, <2>2, <3>1 DEF LoopTypeOK
  <2>8. SteadyHolds(r)'
    BY <2>6, <2>7 DEF SteadyHolds
  <2>9. \A q \in Requests \ {r} : /\ pc'[q] = pc[q] /\ tried'[q] = tried[q]
                                  /\ ok'[q] = ok[q] /\ attempts'[q] = attempts[q]
    BY <1>0, <2>2, <2>3, <2>4 DEF LoopTypeOK, ScanTypeOK
  <2> QED
    BY <1>t, <2>1, <2>5, <2>8, <2>9, SteadyOne DEF scanVars
<1> QED
  BY <1>3, <1>4, <1>5, <1>6, <1>7, <1>8, <1>9, <1>10 DEF FailoverNext, Handle

\* A request gives up with attempts left only after it tried every node that was
\* healthy and admitted all along, although selectNodeFromSnapExcluding looks at
\* the nodes one by one while probes, outages and other requests change them.
THEOREM SteadyNodesAreTried == FailoverSpec => []SteadyNodesTried
<1>1. FailoverInit => SteadyInv
  <2> SUFFICES ASSUME FailoverInit PROVE SteadyInv
    OBVIOUS
  <2>1. ScanTypeOK
    BY DEF FailoverInit, ScanTypeOK
  <2>2. \A r \in Requests : SteadyHolds(r)
    BY DEF FailoverInit, SteadyHolds
  <2> QED
    BY <2>1, <2>2 DEF SteadyInv
<1>2. SteadyInv => SteadyNodesTried
  BY DEF SteadyInv, SteadyHolds, SteadyNodesTried
<1> QED
  BY <1>1, <1>2, LoopInvariant, NextSteadyInv, PTL DEF FailoverSpec
=============================================================================
