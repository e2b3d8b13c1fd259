---------------------------- MODULE MCBatchSync ----------------------------
(* Instances of BatchSync for TLC. *)
EXTENDS BatchSync, TLC

CONSTANTS q1, q2

OneQueue == [j \in Jobs |-> q1]
TwoQueues == [j \in Jobs |-> IF j = CHOOSE k \in Jobs : TRUE THEN q1 ELSE q2]
\* Jobs may be exchanged together with their queues.
Symmetry == {p \in Permutations(Jobs \cup Queues) :
               \A j \in Jobs : p[j] \in Jobs /\ QueueOf[p[j]] = p[QueueOf[j]]}
=============================================================================
