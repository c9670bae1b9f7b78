---------------------------- MODULE MCFailover ----------------------------
(* Instances of Failover for TLC: node a has two API keys.                *)
EXTENDS Failover, TLC

CONSTANTS a, b, r1, r2

AFirst == [n \in Nodes |-> IF n = a THEN 0 ELSE 1]
SamePriority == [n \in Nodes |-> 1]
Chain == [n \in Nodes |-> IF n = a THEN 1 ELSE 2]
NoKeys == [n \in Nodes |-> 0]
TwoKeysOnA == [n \in Nodes |-> IF n = a THEN 2 ELSE 0]
Symmetry == Permutations(Requests)
AllNodes == [r \in Requests |-> Nodes]
=============================================================================
