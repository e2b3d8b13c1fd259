---------------------------- MODULE ComputeScaler ----------------------------
(***************************************************************************)
(* ScaleComputeEnvironments and MonitorComputeEnvironments, two stretches  *)
(* of a round of the scaler's loop: the minimum of vCPUs of a compute      *)
(* environment follows the load of the queues with forced scaling that     *)
(* have it first, and a log follows the environments.                      *)
(*                                                                         *)
(* The loop's position and its queues are those of the module that         *)
(* instantiates this one.                                                  *)
(***************************************************************************)
EXTENDS Naturals, Sequences, FiniteSetsExt

CONSTANTS
  Queues, Environments,
  Order,    \* the environments each queue is attached to, in order
  MaxvCpus, \* of each environment
  Managed,  \* the environments with ComputeResources: AWS scales no others
  WithRole, \* the environments with a ServiceRole
  NoEntry   \* nothing is logged of an environment

VARIABLES
  ce,       \* in AWS: Status (VALID or not), State (ENABLED or not), DesiredvCpus and
            \* MinvCpus of each environment
  load,     \* vCPUs of the live rows of each queue
  logged,   \* last entry of compute_environment_event_log of each environment
  pc, queues,  \* the loop
  todo,     \* environments still to scale
  wanted,   \* wanted_vcpus_by_ce
  doing,    \* the environment to update
  reading   \* what GetComputeEnvironments has returned

scalerVars == <<logged, todo, wanted, doing, reading>>

Nothing == [c \in Environments |-> NoEntry]
NoLoad == [c \in Environments |-> 0]

InitScaler ==
  /\ ce = [c \in Environments |-> [valid |-> TRUE, enabled |-> TRUE, desired |-> 0, min |-> 0]]
  /\ logged = Nothing /\ reading = Nothing
  /\ todo = {} /\ wanted = NoLoad /\ doing = {}

\* Faulty: the minimum is what the last queue of an environment wants.
FollowersLast(Q, c) ==
  LET first == {q \in Q : Order[q] # <<>> /\ Head(Order[q]) = c} IN
  IF first = {} THEN {} ELSE {CHOOSE q \in first : TRUE}

\* The queues among Q that scale an environment: those that have it first.
Followers(Q, c) == {q \in Q : Order[q] # <<>> /\ Head(Order[q]) = c}

\* EstimateRunningLoadByJobQueue, DescribeJobQueues, and the sums.  The orders never
\* change, so that it does not matter when the second call is made.
Estimate ==
  /\ pc = "estimate" /\ queues # {}
  /\ todo' = {c \in Environments : Followers(queues, c) # {}}
  /\ wanted' = [c \in Environments |-> MapThenSumSet(LAMBDA q : load[q], Followers(queues, c))]
  /\ pc' = "scale"
  /\ UNCHANGED <<ce, load, logged, queues, doing, reading>>

\* Without any queue the environments are neither scaled nor logged.
NothingToScale ==
  /\ pc = "estimate" /\ queues = {}
  /\ pc' = "kill"
  /\ UNCHANGED <<ce, load, queues, scalerVars>>

\* The database or DescribeJobQueues fails: no scaling in this round.
EstimateFails ==
  /\ pc = "estimate" /\ queues # {}
  /\ pc' = "read"
  /\ UNCHANGED <<ce, load, queues, scalerVars>>

Least(x, y) == IF x < y THEN x ELSE y

\* What the minimum should be: what is wanted, at most the maximum.
Target(c) == Least(wanted[c], MaxvCpus[c])

\* DescribeComputeEnvironments: only one that is VALID and ENABLED and has resources
\* is updated, and only if its minimum is not what it should be, more or less.
DescribeOne(c) ==
  /\ pc = "scale" /\ doing = {} /\ c \in todo
  /\ IF c \in Managed /\ ce[c].valid /\ ce[c].enabled /\ Target(c) # ce[c].min
       THEN doing' = {c} /\ todo' = todo
       ELSE doing' = {} /\ todo' = todo \ {c}
  /\ UNCHANGED <<ce, load, logged, pc, queues, wanted, reading>>

DescribeOneFails(c) ==
  /\ pc = "scale" /\ doing = {} /\ c \in todo
  /\ todo' = todo \ {c}
  /\ UNCHANGED <<ce, load, logged, pc, queues, wanted, doing, reading>>

\* UpdateComputeEnvironment, for whatever has happened since.
UpdateOne(c) ==
  /\ pc = "scale" /\ c \in doing
  /\ ce' = [ce EXCEPT ![c].min = Target(c)]
  /\ todo' = todo \ {c} /\ doing' = {}
  /\ UNCHANGED <<load, logged, pc, queues, wanted, reading>>

\* Faulty: an environment whose update has failed is still the one to update.
UpdateOneFailsHalfway(c) ==
  /\ pc = "scale" /\ c \in doing
  /\ todo' = todo \ {c}
  /\ UNCHANGED <<ce, load, logged, pc, queues, wanted, doing, reading>>

UpdateOneFails(c) ==
  /\ pc = "scale" /\ c \in doing
  /\ todo' = todo \ {c} /\ doing' = {}
  /\ UNCHANGED <<ce, load, logged, pc, queues, wanted, reading>>

Scaled ==
  /\ pc = "scale" /\ todo = {}
  /\ pc' = "read" /\ wanted' = NoLoad
  /\ UNCHANGED <<ce, load, logged, queues, todo, doing, reading>>

\* What GetComputeEnvironments keeps of an environment: the State, but not the Status.
Entry(c) == [enabled |-> ce[c].enabled, desired |-> ce[c].desired, min |-> ce[c].min]

\* The environments it keeps at all: those without resources or role are dropped.
Kept == Managed \cap WithRole

\* GetComputeEnvironments: all pages, of all environments.
ReadEnvironments ==
  /\ pc = "read"
  /\ reading' = [c \in Environments |-> IF c \in Kept THEN Entry(c) ELSE NoEntry]
  /\ pc' = "log"
  /\ UNCHANGED <<ce, load, logged, queues, todo, wanted, doing>>

\* Faulty: only the state is compared with the last entry.
ChangedState ==
  {c \in Environments : reading[c] # NoEntry /\ (logged[c] # NoEntry => reading[c].enabled # logged[c].enabled)}

\* The environments read that have no entry yet, or one that differs in a column.
Changed == {c \in Environments : reading[c] # NoEntry /\ reading[c] # logged[c]}

\* UpdateComputeEnvironmentsLog: an entry for each of these, in one transaction.
UpdateLog ==
  /\ pc = "log"
  /\ logged' = [c \in Environments |-> IF c \in Changed THEN reading[c] ELSE logged[c]]
  /\ reading' = Nothing /\ pc' = "kill"
  /\ UNCHANGED <<ce, load, queues, todo, wanted, doing>>

LogFails ==
  /\ pc \in {"read", "log"}
  /\ reading' = Nothing /\ pc' = "kill"
  /\ UNCHANGED <<ce, load, logged, queues, todo, wanted, doing>>

ScalerStep == \/ Estimate \/ NothingToScale \/ Scaled \/ ReadEnvironments \/ UpdateLog
              \/ \E c \in Environments : DescribeOne(c) \/ UpdateOne(c)

ScalerFails == \/ EstimateFails \/ LogFails
               \/ \E c \in Environments : DescribeOneFails(c) \/ UpdateOneFails(c)

\* The last entry of an environment says what AWS does.
InLog(c) == logged[c] = Entry(c)

\* The minimum of an environment is right, if any queue of Q scales it at all.
Follows(Q, c) ==
  LET first == {q \in Q : Len(Order[q]) > 0 /\ Order[q][1] = c}
      sum == MapThenSumSet(LAMBDA q : load[q], first)
  IN first # {} /\ c \in Managed /\ ce[c].valid /\ ce[c].enabled =>
       ce[c].min = Min({sum, MaxvCpus[c]})

Entries == [enabled : BOOLEAN, desired : Nat, min : Nat]

ScalerTypeOK ==
  /\ ce \in [Environments -> [valid : BOOLEAN, enabled : BOOLEAN, desired : Nat, min : Nat]]
  /\ load \in [Queues -> Nat]
  /\ logged \in [Environments -> Entries \cup {NoEntry}]
  /\ reading \in [Environments -> Entries \cup {NoEntry}]
  /\ todo \subseteq Environments /\ doing \subseteq todo
  /\ wanted \in [Environments -> Nat]
=============================================================================
