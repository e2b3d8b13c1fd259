---------------------------- MODULE MCScalerLoop ----------------------------
(* An instance of ScalerLoop for TLC: two queues that have the same        *)
(* environment first, one of them with a second one that has no role; a    *)
(* queue that has this one first, one with an unmanaged environment, and   *)
(* one without any.                                                        *)
EXTENDS ScalerLoop

CONSTANTS q1, q2, q3, q4, q5, c1, c2, c3, i1, i2

TwoShareOne == [q \in Queues |-> CASE q = q1 -> <<c1, c2>>
                                   [] q = q2 -> <<c1>>
                                   [] q = q3 -> <<c2>>
                                   [] q = q4 -> <<c3>>
                                   [] OTHER  -> <<>>]
Homes == [i \in Instances |-> IF i = i1 THEN c1 ELSE c2]
Maxima == [c \in Environments |-> 3]
=============================================================================
