--------------------------- MODULE TerminatorProofs ---------------------------
(***************************************************************************)
(* Proofs about Terminator, for any number of jobs, attempts and           *)
(* instances, whatever fails: types, and that as long as no job is retried *)
(* only the instances of jobs that were STARTING for long are terminated.  *)
(***************************************************************************)
EXTENDS Terminator, TLAPS

\* A job has no more attempts than it may, and one that has not begun is nowhere.
AttemptsInv ==
  \A j \in Jobs :
    /\ status[j] # "FAILED" => ended[j] < MaxAttempts
    /\ \A n \in Attempts : (status[j] = "RUNNABLE" /\ n > ended[j]) \/ n > Current(j) =>
         place[j][n] = Nowhere

IType == TypeOK /\ AttemptsInv

\* Tasks are where ECS has said they are: an attempt never changes its place.
PlacesInv == \A t \in tasks \cup info : place[t[1]][t[2]] = t[3]

\* No job is retried.
NoRetries == \A j \in Jobs : ended[j] > 0 => status[j] = "FAILED"

\* A row that says STARTING was so when it was written, and its job may have moved
\* on since, but then no later than the last complete round began, or, once this
\* round has been there, no later than it began.
Starts(j) == row[j].status = "STARTING"

AgesInv ==
  \A j \in Jobs : Starts(j) =>
    /\ row[j].task = 1 /\ status[j] # "RUNNABLE"
    /\ status[j] = "STARTING" => row[j].age <= stay[j][1]
    /\ row[j].age <= stay[j][1] + lag
    /\ pc = "sync" /\ j \notin todo => row[j].age <= stay[j][1] + began

\* What is to be terminated was stuck.
DoomedInv ==
  pc = "kill" => \A i \in doomed : \E j \in Jobs, n \in Attempts :
                   place[j][n] = i /\ stay[j][n] + lag >= Overdue

-----------------------------------------------------------------------------
(***************************************************************************)
(* Types.                                                                  *)
(***************************************************************************)
\* Ages only grow, up to the bound.
LEMMA OlderAge ==
  ASSUME NEW a \in Ages
  PROVE  Older(a) \in Ages /\ a <= Older(a) /\ (Older(a) = a + 1 \/ (a = Overdue /\ Older(a) = Overdue))
BY DEF Older, Ages, Overdue

\* Initially all variables are typed, and nothing has begun.
LEMMA InitIType == Init => IType
BY MaxAttemptsPositive
   DEF Init, IType, TypeOK, AttemptsInv, Attempts, RowStatuses, Live, Absent, Unasked, Ages, Overdue, Current

\* The steps of AWS keep the types: an attempt starts where none had, and ends
\* before the next.
LEMMA AWSIType ==
  ASSUME IType, NEW j \in Jobs, Run(j) \/ End(j) \/ \E i \in Instances : Start(j, i)
  PROVE  IType'
<1> USE MaxAttemptsPositive DEF db, poller, monitor, history
<1>1. CASE Run(j)
  BY <1>1 DEF Run, Moves, IType, TypeOK, AttemptsInv, Attempts, Live, Current
<1>2. CASE End(j)
  <2>1. ended[j] < MaxAttempts /\ ended[j] \in Nat /\ status[j] # "FAILED"
    BY <1>2 DEF End, IType, TypeOK, AttemptsInv
  <2>2. PICK s \in {"FAILED", "RUNNABLE"} :
          /\ status' = [status EXCEPT ![j] = s]
          /\ s = "RUNNABLE" => Current(j) < MaxAttempts
    BY <1>2 DEF End
  <2>3. ended' = [ended EXCEPT ![j] = ended[j] + 1]
    BY <1>2 DEF End
  <2>4. TypeOK'
    BY <1>2, <2>1, <2>2, <2>3 DEF End, Moves, IType, TypeOK, Live
  <2>5. AttemptsInv'
    <3> SUFFICES ASSUME NEW k \in Jobs
                 PROVE  /\ status'[k] # "FAILED" => ended'[k] < MaxAttempts
                        /\ \A n \in Attempts :
                             (status'[k] = "RUNNABLE" /\ n > ended'[k]) \/ n > ended'[k] + 1 =>
                               place'[k][n] = Nowhere
      BY DEF AttemptsInv, Current
    <3>1. CASE k # j
      BY <1>2, <2>2, <2>3, <3>1 DEF End, IType, TypeOK, AttemptsInv, Current
    <3>2. CASE k = j
      BY <1>2, <2>1, <2>2, <2>3, <3>2 DEF End, IType, TypeOK, AttemptsInv, Current, Attempts
    <3> QED BY <3>1, <3>2
  <2> QED BY <2>4, <2>5 DEF IType
<1>3. CASE \E i \in Instances : Start(j, i)
  <2> PICK i \in Instances : Start(j, i)
    BY <1>3
  <2>1. Current(j) \in Attempts /\ ended[j] \in Nat /\ status[j] = "RUNNABLE"
    BY DEF Start, IType, TypeOK, AttemptsInv, Attempts, Current
  <2>2. TypeOK'
    BY <2>1 DEF Start, Moves, IType, TypeOK, Live
  <2>3. AttemptsInv'
    BY <2>1 DEF Start, IType, TypeOK, AttemptsInv, Attempts, Current
  <2> QED BY <2>2, <2>3 DEF IType
<1> QED BY <1>1, <1>2, <1>3

\* What the poller stores of a job is a row.
LEMMA DescribedIsRow ==
  ASSUME IType, NEW j \in Jobs
  PROVE  Described(j) \in [status : RowStatuses, task : 0..MaxAttempts, reason : BOOLEAN, age : Ages]
BY MaxAttemptsPositive
   DEF IType, TypeOK, AttemptsInv, Described, Task, Current, Live, RowStatuses, Ages, Overdue

\* The steps of the poller, of the monitor and of time keep the types.
LEMMA ControlIType ==
  ASSUME IType,
         \/ Tick \/ Query \/ QueryFails \/ BeginRound \/ RoundEnds \/ RoundFails
         \/ \E i \in Instances : Kill(i) \/ KillFails(i)
         \/ \E j \in Jobs : SyncJob(j) \/ StoreLost(j) \/ Miss(j)
         \/ (\E i \in Instances : ReadTasks(i)) \/ ReadInstances \/ WriteTasks \/ MonitorFails
  PROVE  IType'
<1>1. status' = status /\ ended' = ended /\ place' = place
  BY DEF aws, db, poller, monitor, history, Tick, Query, QueryFails, BeginRound, RoundEnds, RoundFails,
         Kill, KillFails, SyncJob, StoreLost, Miss, ReadTasks, ReadInstances, WriteTasks, MonitorFails
<1>2. AttemptsInv'
  BY <1>1 DEF IType, AttemptsInv, Current
<1> SUFFICES TypeOK'
  BY <1>2 DEF IType
<1> USE DEF aws, db, poller, monitor, history, IType, TypeOK
<1>3. CASE Tick
  <2> USE DEF Tick
  <2>1. row' \in [Jobs -> [status : RowStatuses, task : 0..MaxAttempts, reason : BOOLEAN, age : Ages]]
    BY <1>3, OlderAge
  <2>2. stay' \in [Jobs -> [Attempts -> Ages]]
    BY <1>3, OlderAge
  <2>3. began' \in Ages /\ lag' \in Ages
    BY <1>3, OlderAge
  <2> QED BY <1>1, <1>3, <2>1, <2>2, <2>3
<1>4. CASE Query \/ QueryFails \/ BeginRound
  BY <1>4 DEF Query, QueryFails, BeginRound, Stuck
<1>5. CASE RoundEnds \/ RoundFails
  BY <1>5 DEF RoundEnds, RoundFails, Ages, Overdue
<1>6. ASSUME NEW i \in Instances, Kill(i) \/ KillFails(i)
      PROVE  TypeOK'
  BY <1>6 DEF Kill, KillFails
<1>7. ASSUME NEW j \in Jobs, SyncJob(j) \/ StoreLost(j) \/ Miss(j)
      PROVE  TypeOK'
  <2>1. CASE SyncJob(j)
    BY <1>7, <2>1, DescribedIsRow DEF SyncJob
  <2>2. CASE StoreLost(j)
    BY <1>7, <2>2 DEF StoreLost
  <2>3. CASE Miss(j)
    <3>1. PICK s \in RowStatuses : row' = [row EXCEPT ![j].status = s]
      BY <2>3 DEF Miss, RowStatuses
    <3>2. row' \in [Jobs -> [status : RowStatuses, task : 0..MaxAttempts, reason : BOOLEAN, age : Ages]]
      BY <3>1
    <3> QED BY <1>1, <2>3, <3>2 DEF Miss
  <2> QED BY <1>7, <2>1, <2>2, <2>3
<1>8. ASSUME NEW i \in Instances, ReadTasks(i)
      PROVE  TypeOK'
  BY <1>8 DEF ReadTasks, Running, Places
<1>9. CASE ReadInstances
  BY <1>9 DEF ReadInstances
<1>10. CASE WriteTasks
  BY <1>10 DEF WriteTasks, Found, Unasked
<1>11. CASE MonitorFails
  BY <1>11 DEF MonitorFails, Unasked
<1> QED BY <1>3, <1>4, <1>5, <1>6, <1>7, <1>8, <1>9, <1>10, <1>11

\* Every step keeps the types.
LEMMA NextIType == IType /\ [Next]_vars => IType'
<1> SUFFICES ASSUME IType, [Next]_vars PROVE IType'
  OBVIOUS
<1>1. CASE Next
  BY <1>1, AWSIType, ControlIType DEF Next
<1>2. CASE UNCHANGED vars
  BY <1>2 DEF vars, aws, db, poller, monitor, history, IType, TypeOK, AttemptsInv, Current
<1> QED BY <1>1, <1>2

\* The variables keep their types, and an attempt that has not begun is nowhere.
LEMMA ITypeAlways == Spec => []IType
BY InitIType, NextIType, PTL DEF Spec

\* The variables of the terminator, of the poller's rounds and of the monitor keep
\* their types.
THEOREM TypeCorrect == Spec => []TypeOK
<1>1. IType => TypeOK
  BY DEF IType
<1> QED BY <1>1, ITypeAlways, PTL

-----------------------------------------------------------------------------
(***************************************************************************)
(* Only what was stuck is terminated.                                      *)
(***************************************************************************)
\* A place once taken does not change: an attempt only starts where none had.
LEMMA PlacesStay ==
  ASSUME IType, [Next]_vars, NEW j \in Jobs, NEW n \in Attempts, place[j][n] # Nowhere
  PROVE  place'[j][n] = place[j][n]
<1>1. CASE \E k \in Jobs, i \in Instances : Start(k, i)
  <2> PICK k \in Jobs, i \in Instances : Start(k, i)
    BY <1>1
  <2>1. status[k] = "RUNNABLE" /\ place' = [place EXCEPT ![k][Current(k)] = i]
    BY DEF Start
  <2>2. ended[k] \in Nat /\ Current(k) > ended[k]
    BY DEF IType, TypeOK, Current
  <2>3. ~(k = j /\ n = Current(k))
    BY <2>1, <2>2 DEF IType, AttemptsInv
  <2> QED BY <2>1, <2>3 DEF IType, TypeOK
<1>2. CASE ~\E k \in Jobs, i \in Instances : Start(k, i)
  <2>1. place' = place
    BY <1>2 DEF Next, vars, aws, db, poller, monitor, history, Run, End, Tick, Query, QueryFails, BeginRound,
       RoundEnds, RoundFails, Kill, KillFails, SyncJob, StoreLost, Miss, ReadTasks, ReadInstances,
       WriteTasks, MonitorFails
  <2> QED BY <2>1
<1> QED BY <1>1, <1>2

\* What the monitor knows of tasks and what it has written of them grows by what
\* ECS says and by what it knows.
LEMMA TasksAreRunning ==
  ASSUME [Next]_vars
  PROVE  tasks' \cup info' \subseteq tasks \cup info \cup Running
BY DEF Next, vars, aws, db, poller, monitor, history, Start, Run, End, Tick, Query, QueryFails, BeginRound,
       RoundEnds, RoundFails, Kill, KillFails, SyncJob, StoreLost, Miss, ReadTasks, ReadInstances,
       WriteTasks, MonitorFails, Found

\* Every step keeps the tasks where ECS has said they are.
LEMMA NextPlacesInv == IType /\ PlacesInv /\ [Next]_vars => PlacesInv'
<1> SUFFICES ASSUME IType, PlacesInv, [Next]_vars, NEW t \in tasks' \cup info'
             PROVE  place'[t[1]][t[2]] = t[3]
  BY DEF PlacesInv
<1>1. t \in tasks \cup info \cup Running
  BY TasksAreRunning
<1>2. t \in Places /\ t[1] \in Jobs /\ t[2] \in Attempts /\ t[3] \in Instances
  BY <1>1 DEF IType, TypeOK, Places, Running
<1>3. place[t[1]][t[2]] = t[3]
  BY <1>1 DEF PlacesInv, Running
<1> QED BY <1>2, <1>3, PlacesStay, NowhereIsNoInstance

\* Tasks are where the monitor has recorded them.
LEMMA PlacesInvAlways == Spec => []PlacesInv
<1>1. Init => PlacesInv
  BY DEF Init, PlacesInv
<1> QED BY <1>1, ITypeAlways, NextPlacesInv, PTL DEF Spec

\* Rows and their ages, as AgesInv states them of one job.
LEMMA AgesOfJob ==
  ASSUME IType, NEW j \in Jobs
  PROVE  /\ row[j].age \in Ages /\ row[j].task \in Nat /\ stay[j][1] \in Ages /\ began \in Ages /\ lag \in Ages
         /\ 1 \in Attempts
BY MaxAttemptsPositive DEF IType, TypeOK, Attempts

\* AWS only moves a job on: one whose row says STARTING has started, and does not
\* begin again as long as it is not retried.
LEMMA AWSAgesInv ==
  ASSUME IType, AgesInv, NoRetries',
         NEW k \in Jobs, Run(k) \/ End(k) \/ \E i \in Instances : Start(k, i)
  PROVE  AgesInv'
<1>1. UNCHANGED <<row, stay, began, lag, pc, todo>>
  BY DEF Run, End, Start, db, poller, history
<1>2. \A j \in Jobs : Starts(j) =>
        status'[j] # "RUNNABLE" /\ (status'[j] = "STARTING" => status[j] = "STARTING")
  <2> SUFFICES ASSUME NEW j \in Jobs, Starts(j)
               PROVE  status'[j] # "RUNNABLE" /\ (status'[j] = "STARTING" => status[j] = "STARTING")
    OBVIOUS
  <2>1. status[j] # "RUNNABLE"
    BY DEF AgesInv
  <2>2. CASE Run(k)
    BY <2>1, <2>2 DEF Run, IType, TypeOK
  <2>3. CASE End(k)
    <3>1. PICK s \in {"FAILED", "RUNNABLE"} : status' = [status EXCEPT ![k] = s]
      BY <2>3 DEF End
    <3>2. ended'[k] = ended[k] + 1 /\ ended[k] \in Nat
      BY <2>3 DEF End, IType, TypeOK
    <3>3. s = "FAILED"
      BY <3>1, <3>2 DEF NoRetries, IType, TypeOK
    <3> QED BY <2>1, <3>1, <3>3 DEF IType, TypeOK
  <2>4. CASE \E i \in Instances : Start(k, i)
    BY <2>1, <2>4 DEF Start, IType, TypeOK
  <2> QED BY <2>2, <2>3, <2>4
<1> QED BY <1>1, <1>2 DEF AgesInv, Starts

\* Time makes the rows no older than what has gone by.
LEMMA TickAgesInv ==
  ASSUME IType, AgesInv, NoRetries, Tick
  PROVE  AgesInv'
<1>1. UNCHANGED <<status, pc, todo>>
  BY DEF Tick, aws, poller
<1> SUFFICES ASSUME NEW j \in Jobs, Starts(j)'
             PROVE  /\ row'[j].task = 1 /\ status'[j] # "RUNNABLE"
                    /\ status'[j] = "STARTING" => row'[j].age <= stay'[j][1]
                    /\ row'[j].age <= stay'[j][1] + lag'
                    /\ pc' = "sync" /\ j \notin todo' => row'[j].age <= stay'[j][1] + began'
  BY DEF AgesInv
<1>2. /\ row'[j].status = row[j].status /\ row'[j].task = row[j].task
      /\ row'[j].age = IF row[j].status \in Live THEN Older(row[j].age) ELSE row[j].age
  BY DEF Tick, IType, TypeOK
<1>3. Starts(j) /\ row'[j].age = Older(row[j].age)
  BY <1>2 DEF Starts, Live
<1>4. stay'[j][1] = IF status[j] = "STARTING" THEN Older(stay[j][1]) ELSE stay[j][1]
  <2>1. 1 \in Attempts /\ stay'[j][1] = IF status[j] = "STARTING" /\ 1 = Current(j)
                                          THEN Older(stay[j][1]) ELSE stay[j][1]
    BY AgesOfJob DEF Tick
  <2>2. status[j] = "STARTING" => Current(j) = 1
    BY DEF NoRetries, Current, IType, TypeOK
  <2> QED BY <2>1, <2>2
<1>5. lag' = Older(lag) /\ (pc = "sync" => began' = Older(began))
  BY DEF Tick
<1> QED BY <1>1, <1>2, <1>3, <1>4, <1>5, AgesOfJob DEF AgesInv, Older, Ages, Overdue

\* A job that is stored has just been STARTING, or its row keeps the age it had;
\* one that is missed is GONE or unchanged; a store that is lost leaves the round
\* no newer than the one before.
LEMMA SyncAgesInv ==
  ASSUME IType, AgesInv, NoRetries, NEW k \in Jobs, SyncJob(k) \/ StoreLost(k) \/ Miss(k)
  PROVE  AgesInv'
<1>1. UNCHANGED <<status, pc, stay, lag>> /\ pc = "sync"
  BY DEF SyncJob, StoreLost, Miss, aws, history
<1>2. todo' = todo \ {k} /\ (began' = began \/ began' = lag)
  BY DEF SyncJob, StoreLost, Miss, history
<1>3. \A j \in Jobs \ {k} : row'[j] = row[j]
  BY DEF SyncJob, StoreLost, Miss, IType, TypeOK, db
<1>4. \A j \in Jobs \ {k} : Starts(j)' <=> Starts(j)
  BY <1>3 DEF Starts
<1> SUFFICES ASSUME NEW j \in Jobs, Starts(j)'
             PROVE  /\ row'[j].task = 1 /\ status'[j] # "RUNNABLE"
                    /\ status'[j] = "STARTING" => row'[j].age <= stay'[j][1]
                    /\ row'[j].age <= stay'[j][1] + lag'
                    /\ pc' = "sync" /\ j \notin todo' => row'[j].age <= stay'[j][1] + began'
  BY DEF AgesInv
<1>5. CASE j # k
  BY <1>1, <1>2, <1>3, <1>4, <1>5, AgesOfJob DEF AgesInv
<1>6. CASE j = k /\ SyncJob(k)
  <2>1. row'[j] = (IF [row[j] EXCEPT !.age = 0] = Described(j) THEN row[j] ELSE Described(j)) /\ began' = began
    BY <1>6 DEF SyncJob, IType, TypeOK, history
  <2>2. row'[j].status = Described(j).status /\ row'[j].task = Described(j).task
    <3>1. [row[j] EXCEPT !.age = 0].status = row[j].status /\ [row[j] EXCEPT !.age = 0].task = row[j].task
      BY DEF IType, TypeOK
    <3> QED BY <2>1, <3>1
  <2>3. status[j] = "STARTING" /\ row'[j].task = 1
    BY <2>2 DEF Starts, Described, Task, NoRetries, Current, IType, TypeOK
  <2>4. row'[j].age <= stay[j][1]
    <3>1. CASE row'[j] = row[j]
      BY <2>3, <3>1 DEF AgesInv, Starts
    <3>2. CASE row'[j] = Described(j)
      BY <3>2, AgesOfJob DEF Described, Ages, Overdue
    <3> QED BY <2>1, <3>1, <3>2
  <2>5. row'[j].age \in Ages
    BY <2>1, AgesOfJob DEF Described, Ages, Overdue
  <2> QED BY <1>1, <2>1, <2>3, <2>4, <2>5, AgesOfJob DEF Ages, Overdue
<1>7. CASE j = k /\ StoreLost(k)
  <2>1. row' = row /\ began' = lag
    BY <1>7 DEF StoreLost, db
  <2> QED BY <1>1, <2>1 DEF AgesInv, Starts
<1>8. CASE j = k /\ Miss(k)
  <2> DEFINE s == IF row[j].status \in Live /\ row[j].age > 0 THEN "GONE" ELSE row[j].status
  <2>1. row' = [row EXCEPT ![j].status = s] /\ began' = began
    BY <1>8 DEF Miss, history
  <2>2. row'[j].status = s /\ row'[j].task = row[j].task /\ row'[j].age = row[j].age
    BY <2>1 DEF IType, TypeOK
  <2>3. Starts(j) /\ row[j].age = 0
    BY <2>2, AgesOfJob DEF Starts, Live, Ages, Overdue
  <2> QED BY <1>1, <2>1, <2>2, <2>3, AgesOfJob DEF AgesInv, Ages, Overdue
<1> QED BY <1>5, <1>6, <1>7, <1>8

\* The other steps leave the rows alone; a round that has been everywhere is the
\* last complete one, and each begins with all jobs to do.
LEMMA RoundAgesInv ==
  ASSUME IType, AgesInv,
         \/ Query \/ QueryFails \/ BeginRound \/ RoundEnds \/ RoundFails
         \/ \E i \in Instances : Kill(i) \/ KillFails(i)
         \/ (\E i \in Instances : ReadTasks(i)) \/ ReadInstances \/ WriteTasks \/ MonitorFails
         \/ UNCHANGED vars
  PROVE  AgesInv'
<1>1. UNCHANGED <<row, stay, status>>
  BY DEF vars, aws, db, poller, monitor, history, Query, QueryFails, BeginRound, RoundEnds, RoundFails,
         Kill, KillFails, ReadTasks, ReadInstances, WriteTasks, MonitorFails
<1>2. CASE RoundEnds
  BY <1>1, <1>2 DEF RoundEnds, AgesInv, Starts
<1>3. CASE ~RoundEnds
  <2>1. lag' = lag
    BY <1>3 DEF vars, history, Query, QueryFails, BeginRound, RoundEnds, RoundFails,
         Kill, KillFails, ReadTasks, ReadInstances, WriteTasks, MonitorFails
  <2>2. pc' # "sync" \/ todo' = Jobs \/ UNCHANGED <<pc, todo, began>>
    BY <1>3 DEF vars, poller, history, Query, QueryFails, BeginRound, RoundEnds, RoundFails,
         Kill, KillFails, ReadTasks, ReadInstances, WriteTasks, MonitorFails
  <2> QED BY <1>1, <2>1, <2>2 DEF AgesInv, Starts
<1> QED BY <1>2, <1>3

\* Every step keeps the ages of the rows, as long as no job is retried.
LEMMA NextAgesInv == IType /\ AgesInv /\ NoRetries /\ NoRetries' /\ [Next]_vars => AgesInv'
<1> SUFFICES ASSUME IType, AgesInv, NoRetries, NoRetries', [Next]_vars PROVE AgesInv'
  OBVIOUS
<1>1. CASE UNCHANGED vars
  BY <1>1, RoundAgesInv
<1>2. CASE Next
  BY <1>2, AWSAgesInv, TickAgesInv, SyncAgesInv, RoundAgesInv DEF Next
<1> QED BY <1>1, <1>2

\* What the poller finds to terminate has a job that was STARTING for long enough,
\* and that stays so: attempts stay where they are and grow older.
LEMMA NextDoomedInv ==
  ASSUME IType, PlacesInv, AgesInv, DoomedInv, [Next]_vars
  PROVE  DoomedInv'
<1> SUFFICES ASSUME pc' = "kill", NEW i \in doomed'
             PROVE  \E j \in Jobs, n \in Attempts : place'[j][n] = i /\ stay'[j][n] + lag' >= Overdue
  BY DEF DoomedInv
<1>1. CASE Query
  <2>1. PICK j \in Jobs : StuckRow(j) /\ <<j, row[j].task, i>> \in info /\ i \in Instances
    BY <1>1 DEF Query, Stuck
  <2>2. row[j].task = 1 /\ row[j].age <= stay[j][1] + lag /\ row[j].age = Overdue
    BY <2>1 DEF StuckRow, AgesInv, Starts
  <2>3. place[j][1] = i
    BY <2>1, <2>2 DEF PlacesInv
  <2>4. UNCHANGED <<place, stay, lag>>
    BY <1>1 DEF Query, aws, history
  <2> QED BY <2>2, <2>3, <2>4, AgesOfJob
<1>2. CASE ~Query
  <2>1. pc = "kill" /\ i \in doomed
    BY <1>2 DEF Next, vars, poller, Start, Run, End, Tick, QueryFails, BeginRound, RoundEnds, RoundFails,
       Kill, KillFails, SyncJob, StoreLost, Miss, ReadTasks, ReadInstances, WriteTasks, MonitorFails
  <2>2. PICK j \in Jobs, n \in Attempts : place[j][n] = i /\ stay[j][n] + lag >= Overdue
    BY <2>1 DEF DoomedInv
  <2>3. place'[j][n] = i
    BY <2>1, <2>2, PlacesStay, NowhereIsNoInstance DEF IType, TypeOK
  <2>4. stay[j][n] \in Ages /\ lag \in Ages
    BY DEF IType, TypeOK
  <2>5. CASE Tick
    <3>1. stay'[j][n] = stay[j][n] \/ stay'[j][n] = Older(stay[j][n])
      BY <2>5 DEF Tick
    <3>2. lag' = Older(lag)
      BY <2>5 DEF Tick
    <3> QED BY <2>2, <2>3, <2>4, <3>1, <3>2 DEF Older, Ages, Overdue
  <2>6. CASE ~Tick
    <3>1. UNCHANGED <<stay, lag>>
      BY <1>2, <2>1, <2>6 DEF Next, vars, history, poller, Start, Run, End, QueryFails, BeginRound, RoundEnds,
         RoundFails, Kill, KillFails, SyncJob, StoreLost, Miss, ReadTasks, ReadInstances, WriteTasks, MonitorFails
    <3> QED BY <2>2, <2>3, <3>1
  <2> QED BY <2>5, <2>6
<1> QED BY <1>1, <1>2

\* An instance only goes when it was to be terminated.
LEMMA TerminatedWasDoomed ==
  ASSUME [Next]_vars, NEW i \in up \ up'
  PROVE  pc = "kill" /\ i \in doomed
BY DEF Next, vars, aws, poller, Start, Run, End, Tick, Query, QueryFails, BeginRound, RoundEnds, RoundFails,
       Kill, KillFails, SyncJob, StoreLost, Miss, ReadTasks, ReadInstances, WriteTasks, MonitorFails

\* As long as no job is retried an instance is terminated only if a job on it was
\* STARTING for more than 600 s, counting the time since the poller's last complete
\* round, whatever calls fail.
THEOREM TerminatedWasAlwaysStuck == Spec /\ []NoRetries => TerminatedWasStuck
<1>1. Init => AgesInv /\ DoomedInv
  BY DEF Init, AgesInv, DoomedInv, Starts, Absent
<1>2. IType /\ PlacesInv /\ AgesInv /\ DoomedInv /\ NoRetries /\ NoRetries' /\ [Next]_vars =>
        (AgesInv /\ DoomedInv)'
  BY NextAgesInv, NextDoomedInv
<1>3. DoomedInv /\ [Next]_vars =>
        [\A i \in up \ up' : \E j \in Jobs, n \in Attempts :
           place[j][n] = i /\ stay[j][n] + lag >= Overdue]_vars
  BY TerminatedWasDoomed DEF DoomedInv
<1> QED BY <1>1, <1>2, <1>3, ITypeAlways, PlacesInvAlways, PTL DEF Spec, TerminatedWasStuck

\* With one attempt there are no retries, and it is so without further ado.
COROLLARY SingleAttemptWasStuck == MaxAttempts = 1 => (Spec => TerminatedWasStuck)
<1> SUFFICES ASSUME MaxAttempts = 1 PROVE Spec => TerminatedWasStuck
  OBVIOUS
<1>1. IType => NoRetries
  BY DEF IType, TypeOK, AttemptsInv, NoRetries, Live
<1> QED BY <1>1, ITypeAlways, TerminatedWasAlwaysStuck, PTL
=============================================================================
