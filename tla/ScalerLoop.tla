------------------------------ MODULE ScalerLoop ------------------------------
(***************************************************************************)
(* RunPeriodicScaler: one goroutine that lists the queues with forced      *)
(* scaling, keeps the table of instances (InstanceRegistry), scales and    *)
(* logs the compute environments (ComputeScaler) and kills the jobs that   *)
(* have timed out (JobKiller, no more than a step here).  AWS, the users   *)
(* and the poller, who change what it reads while it runs, are the         *)
(* environment.                                                            *)
(***************************************************************************)
EXTENDS Naturals, Sequences, FiniteSetsExt

CONSTANTS
  Queues, Environments, Instances, Order, Home, MaxvCpus, Managed, WithRole, NoEntry,
  Loads,      \* bound: the loads of a queue, and what AWS desires of an environment
  MaxChanges  \* bound: changes of the environment, and failures, in a behaviour

ASSUME QueuesAreFinite == IsFiniteSet(Queues)
ASSUME OrderOfQueues == Order \in [Queues -> Seq(Environments)]
ASSUME HomeOfInstances == Home \in [Instances -> Environments]
ASSUME BoundsAreNat == Loads \subseteq Nat /\ 0 \in Loads /\ MaxChanges \in Nat
ASSUME MaximaAreNat == MaxvCpus \in [Environments -> Nat]
ASSUME NoEntryIsNone == NoEntry \notin [enabled : BOOLEAN, desired : Nat, min : Nat]
ASSUME TheseAreEnvironments == Managed \subseteq Environments /\ WithRole \subseteq Environments

VARIABLES
  ce, load, instance,   \* AWS and the jobs' rows
  forced,               \* activated_job_queues with forced_scaling
  logged, registered,   \* the other tables
  pc, queues,           \* the loop: its position, the round's queues
  todo, wanted, doing, reading, seen,
  changes,
  calm                  \* history: no change and no failure since the round began

Scaler == INSTANCE ComputeScaler WITH pc <- pc, queues <- queues
Registry == INSTANCE InstanceRegistry WITH pc <- pc, queues <- queues

scalerVars == <<logged, todo, wanted, doing, reading>>
registryVars == <<registered, seen>>
world == <<ce, load, instance, forced>>
loop == <<pc, queues, scalerVars, registryVars>>
vars == <<world, loop, changes, calm>>

Init ==
  /\ Scaler!InitScaler /\ Registry!InitRegistry
  /\ load = [q \in Queues |-> 0] /\ forced = Queues
  /\ pc = "sleep" /\ queues = {}
  /\ changes = 0 /\ calm = FALSE

-----------------------------------------------------------------------------
(***************************************************************************)
(* The environment, and failures.                                          *)
(***************************************************************************)
Disturbs == changes < MaxChanges /\ changes' = changes + 1 /\ calm' = FALSE

\* Jobs are submitted, end, or are polled.
LoadChanges(q) == /\ Disturbs
                  /\ \E n \in Loads \ {load[q]} : load' = [load EXCEPT ![q] = n]
                  /\ UNCHANGED <<ce, instance, forced, loop>>

\* A user sets forced_scaling of a queue, which only SQL by hand does.
SetForced(q) == /\ Disturbs /\ q \notin forced
                /\ forced' = forced \cup {q}
                /\ UNCHANGED <<ce, load, instance, loop>>

\* DeactivateJobQueue; when the queue is activated again forced_scaling is false.
Deactivate(q) == /\ Disturbs /\ q \in forced
                 /\ forced' = forced \ {q}
                 /\ UNCHANGED <<ce, load, instance, loop>>

\* AWS finds an environment INVALID or VALID again, a user disables or enables it,
\* or AWS Batch scales it.
EnvironmentChanges(c) ==
  /\ Disturbs
  /\ \/ ce' = [ce EXCEPT ![c].valid = ~@]
     \/ ce' = [ce EXCEPT ![c].enabled = ~@]
     \/ c \in Managed /\ \E n \in Loads \ {ce[c].desired} : ce' = [ce EXCEPT ![c].desired = n]
  /\ UNCHANGED <<load, instance, forced, loop>>

InstanceChanges(i) ==
  /\ Disturbs
  /\ \/ instance[i] = "none" /\ instance' = [instance EXCEPT ![i] = "up"]
     \/ instance[i] = "up" /\ instance' = [instance EXCEPT ![i] = "ended"]
  /\ UNCHANGED <<ce, load, forced, loop>>

World == \/ \E q \in Queues : LoadChanges(q) \/ SetForced(q) \/ Deactivate(q)
         \/ \E c \in Environments : EnvironmentChanges(c)
         \/ \E i \in Instances : InstanceChanges(i)

-----------------------------------------------------------------------------
(***************************************************************************)
(* The loop.                                                               *)
(***************************************************************************)
\* Faulty: the queues are listed once, when the loop starts.
ListQueuesOnce ==
  /\ pc = "sleep"
  /\ queues' = (IF queues = {} THEN forced ELSE queues)
  /\ pc' = "ecs" /\ calm' = TRUE
  /\ UNCHANGED <<world, scalerVars, registryVars, changes>>

\* ListForcedScalingJobQueues; when it fails the loop asks again at once.
ListQueues ==
  /\ pc = "sleep"
  /\ queues' = forced /\ pc' = "ecs" /\ calm' = TRUE
  /\ UNCHANGED <<world, scalerVars, registryVars, changes>>

\* KillTimedOutJobs, whatever it returns, and the sleep.
KillAndSleep ==
  /\ pc = "kill"
  /\ pc' = "sleep"
  /\ UNCHANGED <<world, queues, scalerVars, registryVars, changes, calm>>

Scale == Scaler!ScalerStep /\ UNCHANGED <<instance, forced, registryVars, changes, calm>>

Register == Registry!RegistryStep /\ UNCHANGED <<ce, load, forced, scalerVars, changes, calm>>

\* A failure ends a stretch, and the loop goes on with the next one.
Fails == /\ Disturbs
         /\ \/ Scaler!ScalerFails /\ UNCHANGED <<instance, forced, registryVars>>
            \/ Registry!RegistryFails /\ UNCHANGED <<ce, load, forced, scalerVars>>

\* The process ends and is started again.
Crash == /\ Disturbs
         /\ pc' = "sleep" /\ queues' = {} /\ seen' = {}
         /\ todo' = {} /\ wanted' = Scaler!NoLoad /\ doing' = {} /\ reading' = Scaler!Nothing
         /\ UNCHANGED <<world, logged, registered>>

Loop == ListQueues \/ Register \/ Scale \/ KillAndSleep

Next == World \/ Loop \/ Fails \/ Crash

Spec == Init /\ [][Next]_vars

\* The loop goes on: its calls return.
FairSpec == Spec /\ WF_vars(Loop)

-----------------------------------------------------------------------------
(***************************************************************************)
(* Properties.                                                             *)
(***************************************************************************)
TypeOK ==
  /\ Scaler!ScalerTypeOK /\ Registry!RegistryTypeOK
  /\ forced \subseteq Queues /\ queues \subseteq Queues
  /\ pc \in {"sleep", "ecs", "write", "estimate", "scale", "read", "log", "kill"}
  /\ changes \in 0..MaxChanges /\ calm \in BOOLEAN

\* After a round in which nothing changed and nothing failed the tables and the
\* minima agree with AWS.  The minimum of an environment is the load of the queues
\* with forced scaling that have it first, whether it was less or more before.  The
\* log ends with State, DesiredvCpus and MinvCpus of each environment that has
\* resources and a role; of a Status that is not VALID it says nothing.  The instances
\* alive are those behind these queues.  Without any such queue only the last is
\* so, for what AWS answers.
QuietRoundSettles ==
  pc = "sleep" /\ calm =>
    /\ queues # {} =>
         /\ \A c \in Environments : Scaler!Follows(queues, c)
         /\ \A c \in Managed \cap WithRole : Scaler!InLog(c)
    /\ \E Q \in Registry!Answers : \A i \in Instances :
         registered[i] = "alive" <=> i \in Registry!Behind(Q) /\ instance[i] = "up"

\* An instance only disappears from the database if it has ended or none of the
\* queues with forced scaling, as the round has listed them, is attached to its
\* environment: no failed call makes one disappear.
DisappearedHasGone ==
  [][\A i \in Instances : registered[i] = "alive" /\ registered'[i] = "disappeared" =>
       instance[i] = "ended" \/ i \notin Registry!Behind(queues)]_vars

\* The minimum follows the load up and down in the end, whatever failed on the way, as
\* long as some queue with forced scaling has the environment first and it is VALID
\* and ENABLED.
MinimumFollowsLoad ==
  \A c \in Environments : []<>Scaler!Follows(forced, c)

\* As long as any queue has forced scaling the log catches up with what AWS has of
\* the environments it keeps, whatever entries were lost to failures.
LogCatchesUp ==
  \A c \in Managed \cap WithRole : []<>(forced = {} \/ Scaler!InLog(c))
=============================================================================
