------------------------------ MODULE BatchSync ------------------------------
(***************************************************************************)
(* Mirroring AWS Batch: the poller's rounds (RunPeriodicSynchronizer), the *)
(* webhook that stores one event, and the GONE mark for jobs a round has   *)
(* not seen.  AWS Batch is external: its jobs move, are listed page by     *)
(* page per queue and status, are described, and are forgotten in the end. *)
(*                                                                         *)
(* A job's row is its status; last_updated is whether it is more than 300  *)
(* seconds old.                                                            *)
(***************************************************************************)
EXTENDS Integers, Sequences, FiniteSets

CONSTANTS
  Jobs, Queues,
  QueueOf,    \* the queue each job was submitted to
  NoQueue,    \* no queue is being done
  PageSize,   \* jobs in a page of ListJobs (100 in AWS)
  MaxMoves,   \* bound: status changes of a job that can be observed
  Observed,   \* bound: the statuses AWS's jobs are observed in
  WebhookOn,  \* whether the AWS Lambda function calls the webhook
  MayFail     \* whether AWS and database calls may fail

ASSUME QueueOfJobs == QueueOf \in [Jobs -> Queues]
ASSUME NoQueueIsNone == NoQueue \notin Queues
ASSUME QueuesAreFinite == \A q \in Queues : IsFiniteSet({j \in Jobs : QueueOf[j] = q})
ASSUME PageSizePositive == PageSize \in Nat \ {0}
ASSUME MaxMovesIsNat == MaxMoves \in Nat
ASSUME ObservedAreStatuses == Observed \subseteq
  {"SUBMITTED", "PENDING", "RUNNABLE", "STARTING", "RUNNING", "SUCCEEDED", "FAILED"}
ASSUME FlagsAreBoolean == WebhookOn \in BOOLEAN /\ MayFail \in BOOLEAN

\* jobs.StatusList, in its order.
StatusList == <<"FAILED", "PENDING", "RUNNABLE", "RUNNING", "STARTING", "SUBMITTED", "SUCCEEDED">>

Statuses == {StatusList[i] : i \in 1..Len(StatusList)}
Terminal == {"SUCCEEDED", "FAILED"}
Counted == Statuses \ Terminal    \* the statuses a JobSummary counts
NoCount == [s \in Counted |-> 0]

\* Where AWS may take a job from a status, in one or several steps; a retried
\* job goes back to RUNNABLE.
Later ==
  [s \in Statuses \cup {"absent"} |->
     CASE s = "absent"    -> Statuses
       [] s = "SUBMITTED" -> Statuses \ {"SUBMITTED"}
       [] s = "PENDING"   -> Statuses \ {"SUBMITTED", "PENDING"}
       [] s \in Terminal  -> {"forgotten"}
       [] OTHER           -> Statuses \ {"SUBMITTED", "PENDING", s}]

VARIABLES
  \* AWS Batch
  aws,       \* status of each job, "absent" before and "forgotten" after
  moves,     \* how many times its status has changed
  mail,      \* events the webhook may be called with
  \* the database
  active,    \* activated_job_queues
  row,       \* status of each row, "absent" when there is none
  old,       \* whether last_updated is more than 300 s ago
  logged,    \* last entry of job_summary_event_log of each queue
  \* the poller
  phase,     \* where it is in the round
  queues,    \* the queues of this round
  si,        \* index in StatusList
  left,      \* queues still to do for that status, or to log the summary of
  cur,       \* the queue being done
  results,   \* job_results: every job listed
  page,      \* jobList.JobSummaryList: the last page listed
  described, \* job_description_results
  known,     \* known_job_ids
  summary,   \* job_summaries
  \* history
  still,     \* jobs whose AWS status has not changed since the round began
  calm,      \* since then nobody else has written, no write but a mark was lost, and
             \* the round has not failed
  heard      \* described jobs an event was stored of since they were described

awsVars == <<aws, moves, mail>>
dbVars == <<row, old>>
roundVars == <<queues, si, left, cur, results, page, described, known, summary>>
history == <<still, calm, heard>>
vars == <<awsVars, active, dbVars, logged, phase, roundVars, history>>

Readings == [job : Jobs, status : Statuses]

Init ==
  /\ aws = [j \in Jobs |-> "absent"] /\ moves = [j \in Jobs |-> 0] /\ mail = {}
  /\ active = Queues
  /\ row = [j \in Jobs |-> "absent"] /\ old = [j \in Jobs |-> FALSE]
  /\ logged = [q \in Queues |-> NoCount]
  /\ phase = "sleep" /\ queues = {} /\ si = 1 /\ left = {} /\ cur = NoQueue
  /\ results = {} /\ page = {} /\ described = {} /\ known = {}
  /\ summary = [q \in Queues |-> NoCount]
  /\ still = {} /\ calm = FALSE /\ heard = {}

-----------------------------------------------------------------------------
(***************************************************************************)
(* AWS Batch, the users and the clock.                                     *)
(***************************************************************************)
Move(j) ==
  /\ aws[j] # "forgotten" /\ moves[j] < MaxMoves
  /\ \E s \in Later[aws[j]] \cap (Observed \cup {"forgotten"}) :
       /\ aws' = [aws EXCEPT ![j] = s]
       /\ mail' = IF WebhookOn /\ s # "forgotten"
                    THEN mail \cup {[job |-> j, status |-> s]}
                    ELSE mail
  /\ moves' = [moves EXCEPT ![j] = @ + 1]
  /\ still' = still \ {j}
  /\ UNCHANGED <<active, dbVars, logged, phase, roundVars, calm, heard>>

\* ActivateJobQueue and DeactivateJobQueue.
ToggleQueue(q) ==
  /\ active' = IF q \in active THEN active \ {q} ELSE active \cup {q}
  /\ calm' = FALSE
  /\ UNCHANGED <<awsVars, dbVars, logged, phase, roundVars, still, heard>>

\* More than 300 seconds pass without an update of j's row.
Age(j) ==
  /\ row[j] # "absent" /\ ~old[j]
  /\ old' = [old EXCEPT ![j] = TRUE]
  /\ UNCHANGED <<awsVars, active, row, logged, phase, roundVars, history>>

-----------------------------------------------------------------------------
(***************************************************************************)
(* Store: one transaction of upserts.  A row is written when its status or *)
(* another compared column differs; the others are never told apart here,  *)
(* so a row whose status is the same may or may not be written.            *)
(***************************************************************************)
\* Faulty: a row that is GONE is left alone.
UpsertUnlessGone(readings) ==
  LET ids == {r.job : r \in readings}
      reading(j) == CHOOSE r \in readings : r.job = j
      written == {j \in ids : row[j] \notin {reading(j).status, "GONE"}}
  IN /\ row' = [j \in Jobs |-> IF j \in written THEN reading(j).status ELSE row[j]]
     /\ old' = [j \in Jobs |-> old[j] /\ j \notin written]

Upsert(readings) ==
  LET ids == {r.job : r \in readings}
      reading(j) == CHOOSE r \in readings : r.job = j
      differs == {j \in ids : row[j] # reading(j).status}
  IN \E written \in {W \in SUBSET ids : differs \subseteq W} :
       /\ row' = [j \in Jobs |-> IF j \in written THEN reading(j).status ELSE row[j]]
       /\ old' = [j \in Jobs |-> old[j] /\ j \notin written]

\* JobStatusNotification: an event is delivered, late or twice as it may be.
Webhook(m) ==
  /\ m \in mail
  /\ Upsert({m})
  /\ calm' = FALSE /\ heard' = heard \cup ({m.job} \cap {r.job : r \in described})
  /\ UNCHANGED <<awsVars, active, logged, phase, roundVars, still>>

-----------------------------------------------------------------------------
(***************************************************************************)
(* The poller's round.                                                     *)
(***************************************************************************)
\* Faulty: the round visits every queue, active or not.
StartRoundEverywhere ==
  /\ phase = "sleep"
  /\ queues' = active /\ left' = Queues
  /\ phase' = "next"
  /\ still' = Jobs /\ calm' = TRUE
  /\ UNCHANGED <<awsVars, active, dbVars, logged, si, cur, results, page, described, known,
                 summary, heard>>

\* ListActiveJobQueues, then RunSynchronizer starts.
StartRound ==
  /\ phase = "sleep"
  /\ queues' = active /\ left' = active
  /\ phase' = "next"
  /\ still' = Jobs /\ calm' = TRUE
  /\ UNCHANGED <<awsVars, active, dbVars, logged, si, cur, results, page, described, known,
                 summary, heard>>

\* The variables of the loop over the queues, and of the round, go out of scope.
QueueEnds == cur' = NoQueue /\ results' = {} /\ page' = {} /\ described' = {} /\ heard' = {}
RoundEnds == /\ phase' = "sleep"
             /\ si' = 1 /\ left' = {} /\ known' = {}
             /\ summary' = [q \in Queues |-> NoCount]
             /\ QueueEnds
             /\ UNCHANGED queues

\* The next queue of a status.
NextQueue ==
  /\ phase = "next"
  /\ \E q \in left : cur' = q /\ left' = left \ {q}
  /\ phase' = "list"
  /\ UNCHANGED <<awsVars, active, dbVars, logged, queues, si, results, page, described, known,
                 summary, history>>

\* Faulty: the queues are not visited again for the next status.
NextStatusWithoutQueues ==
  /\ phase = "next" /\ left = {}
  /\ IF si < Len(StatusList)
       THEN si' = si + 1 /\ phase' = phase /\ left' = left
       ELSE si' = si /\ phase' = "summary" /\ left' = queues
  /\ UNCHANGED <<awsVars, active, dbVars, logged, queues, cur, results, page, described,
                 known, summary, history>>

\* The next status, or the summaries when all are done.
NextStatus ==
  /\ phase = "next" /\ left = {}
  /\ left' = queues
  /\ IF si < Len(StatusList)
       THEN si' = si + 1 /\ phase' = phase
       ELSE si' = si /\ phase' = "summary"
  /\ UNCHANGED <<awsVars, active, dbVars, logged, queues, cur, results, page, described,
                 known, summary, history>>

\* One call of ListJobs: a page of the jobs of the queue that are in the status
\* now and were not listed yet.  A token comes with it when there are more.
ListPage ==
  LET listed == {j \in Jobs : QueueOf[j] = cur /\ aws[j] = StatusList[si]} \ results IN
  /\ phase = "list"
  /\ \E P \in SUBSET listed :
       /\ Cardinality(P) = PageSize \/ (P = listed /\ Cardinality(P) < PageSize)
       /\ page' = P
       /\ results' = results \cup P
       /\ phase' = IF P = listed THEN "describe" ELSE "list"
  /\ UNCHANGED <<awsVars, active, dbVars, logged, queues, si, left, cur, described, known,
                 summary, history>>

\* DescribeJobs of the last page, whatever was listed before it: the statuses of
\* the moment.  A forgotten job is not described.
Describe ==
  /\ phase = "describe"
  /\ described' = {[job |-> j, status |-> aws[j]] : j \in {i \in page : aws[i] # "forgotten"}}
  /\ phase' = "store"
  /\ UNCHANGED <<awsVars, active, dbVars, logged, queues, si, left, cur, results, page, known,
                 summary, history>>

\* Faulty: the job ids of one batch replace those of the batches before.
NotedLatest ==
  /\ known' = {r.job : r \in described}
  /\ summary' = [summary EXCEPT ![cur] =
       [s \in Counted |-> @[s] + Cardinality({r \in described : r.status = s})]]

\* What a described batch adds to known_job_ids and to the queue's summary.
Noted ==
  /\ known' = known \cup {r.job : r \in described}
  /\ summary' = [summary EXCEPT ![cur] =
       [s \in Counted |-> @[s] + Cardinality({r \in described : r.status = s})]]

StoreBatch ==
  /\ phase = "store"
  /\ Noted
  /\ Upsert(described)
  /\ phase' = "next"
  /\ QueueEnds
  /\ UNCHANGED <<awsVars, active, logged, queues, si, left, still, calm>>

\* The commit fails, which is only logged.
StoreLost ==
  /\ MayFail /\ phase = "store"
  /\ Noted
  /\ phase' = "next"
  /\ calm' = FALSE
  /\ QueueEnds
  /\ UNCHANGED <<awsVars, active, dbVars, logged, queues, si, left, still>>

\* UpdateJobSummaryLog, once per queue: logs a summary that differs from the last.
LogSummary(q) ==
  /\ phase = "summary" /\ q \in left
  /\ logged' = [logged EXCEPT ![q] = summary[q]]
  /\ left' = left \ {q}
  /\ UNCHANGED <<awsVars, active, dbVars, phase, queues, si, cur, results, page, described, known,
                 summary, history>>

\* Its commit fails, which is only logged.
LogLost(q) ==
  /\ MayFail /\ phase = "summary" /\ q \in left
  /\ left' = left \ {q}
  /\ calm' = FALSE
  /\ UNCHANGED <<awsVars, active, dbVars, logged, phase, queues, si, cur, results, page, described,
                 known, summary, still, heard>>

\* Faulty: finished rows are not spared.
StaleOldJobsFinished ==
  /\ phase = "summary" /\ left = {}
  /\ row' = [j \in Jobs |->
       IF row[j] # "absent" /\ j \notin known /\ old[j] THEN "GONE" ELSE row[j]]
  /\ RoundEnds
  /\ UNCHANGED <<awsVars, active, old, logged, still, calm>>

\* Faulty: only RUNNING and RUNNABLE rows are looked at.
StaleOldJobsRunning ==
  /\ phase = "summary" /\ left = {}
  /\ row' = [j \in Jobs |->
       IF row[j] \in {"RUNNING", "RUNNABLE"} /\ j \notin known /\ old[j] THEN "GONE" ELSE row[j]]
  /\ RoundEnds
  /\ UNCHANGED <<awsVars, active, old, logged, still, calm>>

\* StaleOldJobs: live rows the round does not know of become GONE, once they are
\* old; last_updated stays.  A failed commit is only logged.
Marked == [j \in Jobs |-> IF row[j] \in Counted /\ j \notin known /\ old[j] THEN "GONE" ELSE row[j]]
StaleOldJobs ==
  /\ phase = "summary" /\ left = {}
  /\ row' \in {Marked} \cup (IF MayFail THEN {row} ELSE {})
  /\ RoundEnds
  /\ UNCHANGED <<awsVars, active, old, logged, still, calm>>

\* Any call of the round fails, or the process dies: RunSynchronizer returns the
\* error and the poller sleeps.  A Store or StaleOldJobs whose flush fails has
\* committed its rows, though.
RoundFails ==
  /\ MayFail /\ phase # "sleep"
  /\ RoundEnds /\ calm' = FALSE
  /\ \/ phase = "store" /\ Upsert(described)
     \/ phase = "summary" /\ left = {} /\ row' = Marked /\ UNCHANGED old
     \/ UNCHANGED dbVars
  /\ UNCHANGED <<awsVars, active, logged, still>>

Poll == \/ StartRound \/ NextQueue \/ NextStatus \/ ListPage \/ Describe
        \/ StoreBatch \/ StoreLost \/ StaleOldJobs \/ RoundFails
        \/ \E q \in Queues : LogSummary(q) \/ LogLost(q)

Next == \/ \E j \in Jobs : Move(j) \/ Age(j)
        \/ \E q \in Queues : ToggleQueue(q)
        \/ \E m \in mail : Webhook(m)
        \/ Poll

Spec == Init /\ [][Next]_vars

\* The poller sleeps sync_period and goes on, and time passes.
FairSpec == Spec /\ WF_vars(Poll) /\ \A j \in Jobs : WF_vars(Age(j))

-----------------------------------------------------------------------------
(***************************************************************************)
(* Properties.                                                             *)
(***************************************************************************)
TypeOK ==
  /\ aws \in [Jobs -> Statuses \cup {"absent", "forgotten"}]
  /\ moves \in [Jobs -> 0..MaxMoves]
  /\ mail \subseteq Readings
  /\ active \subseteq Queues
  /\ row \in [Jobs -> Statuses \cup {"absent", "GONE"}]
  /\ old \in [Jobs -> BOOLEAN]
  /\ logged \in [Queues -> [Counted -> Nat]]
  /\ phase \in {"sleep", "next", "list", "describe", "store", "summary"}
  /\ queues \subseteq Queues /\ left \subseteq queues /\ cur \in Queues \cup {NoQueue}
  /\ si \in 1..Len(StatusList)
  /\ page \subseteq results /\ results \subseteq Jobs
  /\ described \subseteq Readings /\ {r.job : r \in described} \subseteq page
  /\ known \subseteq Jobs
  /\ summary \in [Queues -> [Counted -> Nat]]
  /\ still \subseteq Jobs /\ calm \in BOOLEAN /\ heard \subseteq Jobs

Listed(j) == aws[j] \in Statuses

\* A job that AWS has listed in one status all through the round, in a queue of
\* the round, is not marked GONE by it, whatever failed and whatever webhooks
\* came in between.
PresentIsNotGone ==
  [][\A j \in Jobs : row'[j] = "GONE" /\ row[j] # "GONE" =>
       ~(j \in still /\ Listed(j) /\ QueueOf[j] \in queues)]_vars

\* After a complete round in which nothing moved and nobody else wrote, the
\* rows and the summaries of the polled queues are what AWS has.
QuietRoundMirrors ==
  phase = "sleep" /\ calm /\ still = Jobs =>
    /\ \A j \in Jobs : Listed(j) /\ QueueOf[j] \in queues => row[j] = aws[j]
    /\ \A q \in queues, s \in Counted :
         logged[q][s] = Cardinality({j \in Jobs : QueueOf[j] = q /\ aws[j] = s})

\* A finished row only becomes live again, never GONE nor finished otherwise, and only
\* when an event is delivered late, or when the poller stores what it described
\* before an event overtook it: no failure, and no reading of its own, does it.
FinishedStays ==
  [][\A j \in Jobs : row[j] \in Terminal /\ row'[j] # row[j] =>
       /\ row'[j] \in Counted
       /\ j \in heard \/ \E m \in mail : m.job = j /\ Webhook(m)]_vars

\* A job that AWS lists and whose queue is active has its status in the
\* database again and again: a false GONE heals as well.
MirrorCatchesUp ==
  \A j \in Jobs : []<>(row[j] = aws[j] \/ ~Listed(j) \/ QueueOf[j] \notin active)

\* A live row whose job AWS has forgotten does not stay live for ever.
ForgottenIsMarked ==
  \A j \in Jobs : (row[j] \in Counted /\ aws[j] = "forgotten") ~> (row[j] \notin Counted)
=============================================================================
