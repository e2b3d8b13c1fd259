------------------------------ MODULE Terminator ------------------------------
(***************************************************************************)
(* The terminator of instances whose jobs are stuck in STARTING, at the    *)
(* head of the poller's rounds, with what it relies on: the rows and their *)
(* last_updated, which the rest of the round refreshes, and the places of  *)
(* tasks, which the ECS monitor records in the scaler's loop.  AWS Batch,  *)
(* ECS and EC2 are external.                                               *)
(*                                                                         *)
(* Time goes by in ticks of 300 s.  A task is <<job, attempt>>.            *)
(***************************************************************************)
EXTENDS Naturals

CONSTANTS
  Jobs, Instances,
  Addressed,    \* the instances that have a public address while they run
  Nowhere,      \* where an attempt is that has not started
  MaxAttempts,  \* bound: attempts of a job
  MayFail       \* whether calls of AWS and of the database may fail

ASSUME AddressedAreInstances == Addressed \subseteq Instances
ASSUME MaxAttemptsPositive == MaxAttempts \in Nat \ {0}
ASSUME NowhereIsNoInstance == Nowhere \notin Instances
ASSUME MayFailIsBoolean == MayFail \in BOOLEAN

Attempts == 1..MaxAttempts
Overdue == 3              \* ticks that are more than 600 s
Ages == 0..Overdue        \* bound: nothing gets older than that
Live == {"RUNNABLE", "STARTING", "RUNNING"}  \* rows whose age anyone looks at
Older(a) == IF a < Overdue THEN a + 1 ELSE a

VARIABLES
  \* AWS
  status,      \* of each job
  ended,       \* how many of its attempts have ended
  place,       \* the instance of each attempt
  up,          \* the running instances
  \* the database
  row,         \* status, task, status_reason and age of last_updated of each row
  info,        \* task_arns_to_instance_info
  \* the poller
  pc, doomed,  \* instances to terminate
  todo,        \* jobs to synchronize in this round
  moved,       \* those of them that have moved while it lists them
  \* the scaler's loop
  mpc,
  unlisted,    \* instances whose tasks are still to be listed
  tasks,       \* what ECS has said of tasks ...
  seen,        \* ... and EC2 of each instance
  \* history
  stay,        \* ticks each attempt has been STARTING
  began,       \* ticks since this round began
  lag          \* ticks since the last complete round began

aws == <<status, ended, place, up>>
db == <<row, info>>
poller == <<pc, doomed, todo>>
monitor == <<mpc, unlisted, tasks, seen>>
history == <<stay, began, lag>>
vars == <<aws, db, poller, moved, monitor, history>>

Unasked == [i \in Instances |-> "unknown"]
Absent == [status |-> "absent", task |-> 0, reason |-> FALSE, age |-> 0]

Init ==
  /\ status = [j \in Jobs |-> "RUNNABLE"] /\ ended = [j \in Jobs |-> 0]
  /\ place = [j \in Jobs |-> [n \in Attempts |-> Nowhere]] /\ up = Instances
  /\ row = [j \in Jobs |-> Absent] /\ info = {}
  /\ pc = "head" /\ doomed = {} /\ todo = {} /\ moved = {}
  /\ mpc = "ecs" /\ unlisted = Instances /\ tasks = {} /\ seen = Unasked
  /\ stay = [j \in Jobs |-> [n \in Attempts |-> 0]] /\ began = 0 /\ lag = 0

-----------------------------------------------------------------------------
(***************************************************************************)
(* AWS, and time.                                                          *)
(***************************************************************************)
\* The current attempt of a job that has not ended.
Current(j) == ended[j] + 1

Moves(j) == moved' = moved \cup ({j} \cap todo)

Start(j, i) ==
  /\ status[j] = "RUNNABLE" /\ i \in up
  /\ status' = [status EXCEPT ![j] = "STARTING"]
  /\ place' = [place EXCEPT ![j][Current(j)] = i]
  /\ Moves(j)
  /\ UNCHANGED <<ended, up, db, poller, monitor, history>>

Run(j) ==
  /\ status[j] = "STARTING"
  /\ status' = [status EXCEPT ![j] = "RUNNING"]
  /\ Moves(j)
  /\ UNCHANGED <<ended, place, up, db, poller, monitor, history>>

\* An attempt ends, whether its instance has been terminated or not; the job is
\* finished, or is retried.
End(j) ==
  /\ status[j] \in {"STARTING", "RUNNING"}
  /\ \E s \in {"FAILED"} \cup (IF Current(j) < MaxAttempts THEN {"RUNNABLE"} ELSE {}) :
       status' = [status EXCEPT ![j] = s]
  /\ ended' = [ended EXCEPT ![j] = @ + 1]
  /\ Moves(j)
  /\ UNCHANGED <<place, up, db, poller, monitor, history>>

Tick ==
  /\ row' = [j \in Jobs |-> [row[j] EXCEPT !.age = IF row[j].status \in Live THEN Older(@) ELSE @]]
  /\ stay' = [j \in Jobs |-> [n \in Attempts |->
                IF status[j] = "STARTING" /\ n = Current(j) THEN Older(stay[j][n]) ELSE stay[j][n]]]
  /\ began' = IF pc = "sync" THEN Older(began) ELSE began
  /\ lag' = Older(lag)
  /\ UNCHANGED <<aws, info, poller, moved, monitor>>

-----------------------------------------------------------------------------
(***************************************************************************)
(* The poller.                                                             *)
(***************************************************************************)
\* GetStartingStateStuckEC2Instances joins the rows with the places of tasks.
StuckRow(j) == row[j].status = "STARTING" /\ row[j].age = Overdue /\ row[j].task # 0

\* Faulty: it does not look at the age.
StuckOrNot == {i \in Instances : \E j \in Jobs :
                 row[j].status = "STARTING" /\ <<j, row[j].task, i>> \in info}

\* Faulty: a left join, with NULL for the instance of a task that has none.
StuckLeftJoin == {i \in Instances \cup {Nowhere} : \E j \in Jobs :
                    StuckRow(j) /\ (i = Nowhere \/ <<j, row[j].task, i>> \in info)}

Stuck == {i \in Instances : \E j \in Jobs : StuckRow(j) /\ <<j, row[j].task, i>> \in info}

Query == /\ pc = "head"
         /\ doomed' = Stuck /\ pc' = "kill"
         /\ UNCHANGED <<aws, db, todo, moved, monitor, history>>

\* The error is logged, and there is nothing to terminate.
QueryFails == /\ MayFail /\ pc = "head"
              /\ doomed' = {} /\ pc' = "kill"
              /\ UNCHANGED <<aws, db, todo, moved, monitor, history>>

\* KillInstances terminates one after the other ...
Kill(i) == /\ pc = "kill" /\ i \in doomed
           /\ up' = up \ {i} /\ doomed' = doomed \ {i}
           /\ UNCHANGED <<status, ended, place, db, pc, todo, moved, monitor, history>>

\* ... and goes on after an error.
KillFails(i) == /\ MayFail /\ pc = "kill" /\ i \in doomed
                /\ doomed' = doomed \ {i}
                /\ UNCHANGED <<aws, db, pc, todo, moved, monitor, history>>

BeginRound == /\ pc = "kill" /\ doomed = {}
              /\ pc' = "sync" /\ todo' = Jobs
              /\ UNCHANGED <<aws, db, doomed, moved, monitor, history>>

\* The task of a description: that of the last ended attempt, or else that of
\* the container.
Task(j) == IF ended[j] > 0 THEN ended[j]
           ELSE IF status[j] \in {"STARTING", "RUNNING"} THEN Current(j) ELSE 0

Described(j) == [status |-> status[j], task |-> Task(j), reason |-> ended[j] > 0, age |-> 0]

\* Faulty: every poll writes, and makes last_updated new.
SyncJobAlways(j) ==
  /\ pc = "sync" /\ j \in todo
  /\ row' = [row EXCEPT ![j] = Described(j)]
  /\ todo' = todo \ {j} /\ moved' = moved \ {j}
  /\ UNCHANGED <<aws, info, pc, doomed, monitor, history>>

\* A job is described once in a round, and stored where a column differs: only
\* then is last_updated new.
SyncJob(j) ==
  /\ pc = "sync" /\ j \in todo
  /\ row' = [row EXCEPT ![j] = IF [@ EXCEPT !.age = 0] = Described(j) THEN @ ELSE Described(j)]
  /\ todo' = todo \ {j} /\ moved' = moved \ {j}
  /\ UNCHANGED <<aws, info, pc, doomed, monitor, history>>

\* The commit fails, which is only logged.  For the properties the round is then
\* no newer than the one before.
StoreLost(j) ==
  /\ MayFail /\ pc = "sync" /\ j \in todo
  /\ todo' = todo \ {j} /\ moved' = moved \ {j} /\ began' = lag
  /\ UNCHANGED <<aws, db, pc, doomed, monitor, stay, lag>>

\* A job that moves to a status that has been listed is missed, and its row GONE
\* if it is old enough.
Miss(j) ==
  /\ pc = "sync" /\ j \in moved
  /\ row' = [row EXCEPT ![j].status =
               IF @ \in Live /\ row[j].age > 0 THEN "GONE" ELSE @]
  /\ todo' = todo \ {j} /\ moved' = moved \ {j}
  /\ UNCHANGED <<aws, info, pc, doomed, monitor, history>>

RoundEnds == /\ pc = "sync" /\ todo = {}
             /\ pc' = "head" /\ lag' = began /\ began' = 0
             /\ UNCHANGED <<aws, db, doomed, todo, moved, monitor, stay>>

\* An error ends the round; the jobs done so far stay done.
RoundFails == /\ MayFail /\ pc = "sync"
              /\ pc' = "head" /\ todo' = {} /\ moved' = {} /\ began' = 0
              /\ UNCHANGED <<aws, db, doomed, monitor, stay, lag>>

-----------------------------------------------------------------------------
(***************************************************************************)
(* The ECS monitor.                                                        *)
(***************************************************************************)
\* The tasks ECS runs, each with its instance.
Running == {t \in Jobs \X Attempts \X Instances :
              /\ status[t[1]] \in {"STARTING", "RUNNING"} /\ t[2] = Current(t[1])
              /\ t[3] = place[t[1]][t[2]]}

\* MonitorECSClusters asks ECS for the tasks, cluster by cluster and page by page;
\* those of one instance are on one page ...
ReadTasks(i) == /\ mpc = "ecs" /\ i \in unlisted
                /\ tasks' = tasks \cup {t \in Running : t[3] = i}
                /\ unlisted' = unlisted \ {i}
                /\ mpc' = IF unlisted' = {} THEN "ec2" ELSE mpc
                /\ UNCHANGED <<aws, db, poller, moved, seen, history>>

\* ... and then ECS for the container instances and EC2 for the instances.  One that
\* has been terminated is described for a while, and has no address any more.  None
\* comes back, so that one ECS leaves out may be taken for one EC2 leaves out.
ReadInstances == /\ mpc = "ec2" /\ mpc' = "write"
                 /\ \E known \in SUBSET Instances :
                      /\ up \subseteq known
                      /\ seen' = [i \in Instances |->
                           IF i \in up \cap Addressed THEN "addressed"
                           ELSE IF i \in known THEN "bare" ELSE "unknown"]
                 /\ UNCHANGED <<aws, db, poller, moved, unlisted, tasks, history>>

\* The tasks whose instance EC2 has described.
Found == {t \in tasks : seen[t[3]] # "unknown"}

\* UpdateTaskArnsInstanceIDs never changes what is there.  The columns of the
\* addresses are NOT NULL: one task on an instance without them rolls back all.
WriteTasks == /\ mpc = "write"
              /\ info' = info \cup (IF \A t \in Found : seen[t[3]] = "addressed" THEN Found ELSE {})
              /\ mpc' = "ecs" /\ unlisted' = Instances /\ tasks' = {} /\ seen' = Unasked
              /\ UNCHANGED <<aws, row, poller, moved, history>>

\* A call fails, or the transaction is lost: nothing is written.  A listing that fails
\* is no different from a failure after the last one.
MonitorFails == /\ MayFail /\ mpc \in {"ec2", "write"}
                /\ mpc' = "ecs" /\ unlisted' = Instances /\ tasks' = {} /\ seen' = Unasked
                /\ UNCHANGED <<aws, db, poller, moved, history>>

-----------------------------------------------------------------------------
Next ==
  \/ \E j \in Jobs : Run(j) \/ End(j) \/ SyncJob(j) \/ StoreLost(j) \/ Miss(j)
  \/ \E j \in Jobs : \E i \in Instances : Start(j, i)
  \/ \E i \in Instances : Kill(i) \/ KillFails(i) \/ ReadTasks(i)
  \/ Tick \/ Query \/ QueryFails \/ BeginRound \/ RoundEnds \/ RoundFails
  \/ ReadInstances \/ WriteTasks \/ MonitorFails

Spec == Init /\ [][Next]_vars

\* The loops go on, time passes, and no call fails each time it is tried.
Fairness ==
  /\ WF_vars(Tick) /\ WF_vars(BeginRound) /\ WF_vars(RoundEnds \/ RoundFails)
  /\ SF_vars(Query) /\ \A i \in Instances : SF_vars(Kill(i))
  /\ \A j \in Jobs : SF_vars(SyncJob(j))
  /\ WF_vars(\E i \in Instances : ReadTasks(i))
  /\ SF_vars(ReadInstances) /\ SF_vars(WriteTasks)

FairSpec == Spec /\ Fairness

-----------------------------------------------------------------------------
(***************************************************************************)
(* Properties.                                                             *)
(***************************************************************************)
Places == Jobs \X Attempts \X Instances
RowStatuses == Live \cup {"absent", "FAILED", "GONE"}

TypeOK ==
  /\ status \in [Jobs -> Live \cup {"FAILED"}] /\ ended \in [Jobs -> 0..MaxAttempts]
  /\ place \in [Jobs -> [Attempts -> Instances \cup {Nowhere}]] /\ up \subseteq Instances
  /\ row \in [Jobs -> [status : RowStatuses, task : 0..MaxAttempts, reason : BOOLEAN, age : Ages]]
  /\ info \subseteq Places
  /\ pc \in {"head", "kill", "sync"} /\ doomed \subseteq Instances /\ todo \subseteq Jobs /\ moved \subseteq todo
  /\ mpc \in {"ecs", "ec2", "write"} /\ unlisted \subseteq Instances /\ tasks \subseteq Places
  /\ seen \in [Instances -> {"unknown", "bare", "addressed"}]
  /\ stay \in [Jobs -> [Attempts -> Ages]] /\ began \in Ages /\ lag \in Ages

\* An instance is terminated only if a job on it was STARTING for more than
\* 600 s, counting the time since the poller's last complete round as if the job
\* had stayed: the rows are no older than that.
TerminatedWasStuck ==
  [][\A i \in up \ up' : \E j \in Jobs, n \in Attempts :
       place[j][n] = i /\ stay[j][n] + lag >= Overdue]_vars

\* A task runs on an instance that has no address (any more).
SomeTaskIsBare == \E t \in Running : t[3] \notin up \cap Addressed

\* A job that is stuck in STARTING has its instance terminated in the end, unless
\* a task on an instance without a public address, be it another job's, keeps the
\* monitor from recording any.
StuckIsTerminated ==
  \A j \in Jobs : \A i \in Instances, n \in Attempts :
    (status[j] = "STARTING" /\ n = Current(j) /\ place[j][n] = i)
      ~> (status[j] # "STARTING" \/ n # Current(j) \/ SomeTaskIsBare)
=============================================================================
