--------------------------- MODULE InstanceRegistry ---------------------------
(***************************************************************************)
(* The table instances, which MonitorECSClusters keeps at the head of a    *)
(* round of the scaler's loop: what it sees of the instances behind the    *)
(* round's queues, and UpdateECSInstances.                                 *)
(***************************************************************************)
EXTENDS Sequences, SequencesExt

CONSTANTS
  Queues, Instances,
  Order,  \* the environments each queue is attached to, in order
  Home    \* the environment each instance belongs to

VARIABLES
  instance,   \* in AWS: "none" before, "up" while registered with ECS, "ended" after
  registered, \* instances: "absent", "alive" or, with a disappeared_at, "disappeared"
  pc, queues, \* the loop
  seen        \* ec2instances_info

registryVars == <<registered, seen>>

InitRegistry ==
  /\ instance = [i \in Instances |-> "none"]
  /\ registered = [i \in Instances |-> "absent"]
  /\ seen = {}

\* The instances of all environments of some queues.
Behind(Q) == {i \in Instances : \E q \in Q : Contains(Order[q], Home[i])}

\* Which queues AWS Batch describes when it is asked for those of the round: when
\* the list is empty it is AWS's choice whether that means none or all.
Answers == IF queues = {} THEN {{}, Queues} ELSE {queues}

\* From DescribeJobQueues to DescribeInstances.
ReadClusters ==
  /\ pc = "ecs"
  /\ \E Q \in Answers : seen' = {i \in Behind(Q) : instance[i] = "up"}
  /\ pc' = "write"
  /\ UNCHANGED <<instance, registered, queues>>

\* Faulty: an error leaves what was seen so far to be written.
ClustersFailPartly ==
  /\ pc = "ecs"
  /\ seen' = {} /\ pc' = "write"
  /\ UNCHANGED <<instance, registered, queues>>

\* Any of its calls fails, and it returns.
ClustersFail ==
  /\ pc = "ecs"
  /\ pc' = "estimate"
  /\ UNCHANGED <<instance, registered, queues, seen>>

\* UpdateECSInstances: the ones described are alive, also one that had disappeared;
\* of the others those that were alive have disappeared.
UpdateECSInstances ==
  /\ pc = "write"
  /\ registered' = [i \in Instances |->
       IF i \in seen THEN "alive"
       ELSE IF registered[i] = "alive" THEN "disappeared" ELSE registered[i]]
  /\ seen' = {} /\ pc' = "estimate"
  /\ UNCHANGED <<instance, queues>>

\* The transaction is rolled back, or its commit fails, which is only logged.
UpdateFails ==
  /\ pc = "write"
  /\ seen' = {} /\ pc' = "estimate"
  /\ UNCHANGED <<instance, registered, queues>>

RegistryStep == ReadClusters \/ UpdateECSInstances
RegistryFails == ClustersFail \/ UpdateFails

RegistryTypeOK ==
  /\ instance \in [Instances -> {"none", "up", "ended"}]
  /\ registered \in [Instances -> {"absent", "alive", "disappeared"}]
  /\ seen \subseteq Instances
=============================================================================
