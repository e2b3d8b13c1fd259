# Batchiepatchie in TLA+

Batchiepatchie mirrors the jobs of AWS Batch in a PostgreSQL database, serves
them to a web frontend and does a few things AWS Batch does not do itself. This
directory models its core, checks the models with TLC on small instances and
proves with TLAPS, for every instance, each safety property and action property that
a passing run checks.

Paths below are relative to the repository's root (`src/`).

## 1. The system

One Go process, one PostgreSQL database, AWS. The process runs, each in its own
goroutine: a *poller* (`RunPeriodicSynchronizer`), optionally a *scaler*
(`RunPeriodicScaler`) and a *cleaner* (`RunPeriodicCleaner`), and one goroutine
for every HTTP request, among them the *webhook* an AWS Lambda function calls
and the *websocket* handlers of open job pages. They share the database, and in
memory the map of subscribers under one mutex.

| component | state | operations | hard because |
|---|---|---|---|
| Job status notifications (`jobs/postgres_store.go`, `handlers/job_status_subscriptions.go`, migration 00018) | table `job_status_events`; `jobStatusSubscribers` under `jobStatusSubscribersLock`; a channel of 20 per websocket | triggers, `flushJobStatusSubscriptions`, `SubscribeToJobStatus` and its unsubscribe, `SubscribeToJobEvent` | several storers flush at once, a two-statement transaction, blocking sends under a lock, handlers that come and go, crashes |
| Poller (`syncer/batchsync.go`) | a round's listings, `known_job_ids`, summaries | list, describe, store per status and queue; log summaries; mark GONE | AWS moves on during a round; pages; calls fail half way |
| Job store (`jobs/postgres_store.go`) | table `jobs`, event logs | `Store`, `StaleOldJobs`, `UpdateJobSummaryLog`, `FindOne`, ... | silenced commit errors, comparisons with NULL, age of rows |
| Webhook (`handlers/job_status_notification.go`) | none | `Store` of one event | late, repeated, reordered events |
| Queue activation | `activated_job_queues` | activate, deactivate, list | changes during a round |
| Terminator (`jobs/killer_handler.go`) | none | terminate the instances of jobs stuck in STARTING | acts on rows that may be stale |
| Timeout killer (`jobs/timeout_killer.go`) | `termination_requested` | kill jobs past their timeout | runs only with the scaler; kill and note are two steps |
| ECS monitor (`jobs/monitor_ecs_clusters.go`) | `instances`, `task_arns_to_instance_info`, `instance_event_log` | record instances and tasks | several AWS calls that disagree |
| Scaler (`jobs/scaler.go`) | AWS `MinvCpus` | raise or lower the minimum | queues share environments |
| Compute environment monitor | `compute_environment_event_log` | log changes | isolation level left on the connection |
| Cleaner | `jobs`, `task_arns_to_instance_info` | delete rows not updated for 30 days | two statements, concurrent stores |
| S3 clients (`awsclients/`) | two maps under a mutex | find or create a client | lock released around calls |
| REST handlers, search, statistics | none | queries, `KillMany`, log fetching | paged listings, partial failures |
| Configuration, environment substitution | process start | parse | sequential |
| Frontend | redux store | fetch, show | overlapping requests |

What makes each correct:

- *Notifications*: no committed status change is lost on the way to a
  subscriber; nobody is shown a status that was never committed, or another
  job's; subscriptions do not leak; a storer always returns; a closed websocket
  is given up; order within a channel.
- *Poller*: after a quiet round the mirror is exact; a job that AWS lists is not
  marked GONE; nothing but a late event makes a finished job live again, and nothing
  makes it GONE; a forgotten job does not stay live for ever; false marks heal.
- *Terminator*: only instances of jobs that are STARTING for long are terminated,
  and those are.
- *Timeout killer*: every job past its timeout is told to terminate, is noted as such
  only if it was, and is not told again unless the note was lost.
- *Scaler*: the minimum is the load of all queues that have the environment first, at
  most the maximum, for enabled environments only; it follows the load in the end.
- *ECS monitor*: only instances that have ended, or that nobody watches any more,
  disappear from the database, whatever call fails.
- *Event logs*: the last entry catches up with what AWS has, and is it after a quiet
  round.
- *Cleaner*: only old rows are deleted.
- *S3 clients*: the lock is free whenever nobody is inside, one client per region
  in the end.

The hazards, each at its line and with the properties that watch it, are listed
in `PROJECT.json`.

## 2. Modules

| module | content |
|---|---|
| `StatusFeed` | abstract specification: what a watching client may be shown |
| `StatusNotify` | from a committed status to the browser, statement by statement; properties |
| `MCStatusNotify` | instances of it for TLC |
| `StatusNotifyProofs` | type correctness, subscriptions, sends, refinement of `StatusFeed` |
| `OneStorerProofs` | nothing is lost and order is kept, with one storer |
| `BatchSync` | AWS Batch, the poller's rounds, the webhook, GONE marks; properties |
| `MCBatchSync` | instances of it for TLC |
| `JobUpsert` | the columns of one row: poller, webhook and the WHERE clause of `Store`'s upsert; properties |
| `JobKiller` | extends `JobUpsert` with all others who work on the row: the timeout killer, kill requests of the UI, GONE marks, the cleaner, crashes; properties |
| `Terminator` | the terminator at the head of the poller's rounds, the ECS monitor it relies on, and time; properties |
| `ComputeScaler` | `ScaleComputeEnvironments` and the log of compute environments, a part of `ScalerLoop` |
| `InstanceRegistry` | the table `instances` as the ECS monitor keeps it, a part of `ScalerLoop` |
| `ScalerLoop` | the scaler's loop, which composes the two; properties |
| `MCScalerLoop` | an instance of it for TLC |
| `JobUpsertProofs` | what a poll makes of a row, for any number of attempts and children |
| `BatchSyncProofs` | finished rows stay, what AWS lists is not marked GONE, and a quiet round mirrors, for any number of queues and jobs |
| `TerminatorProofs` | types, and that without retries only instances with stuck jobs are terminated |
| `ScalerLoopProofs` | types, the sums of loads, that only what is gone disappears, and that a calm round settles |
| `JobKillerProofs` | types, the killer's notes, and that what holds of polls holds among kills, marks, removals and crashes |

`StatusNotify`, `BatchSync`, `JobUpsert` and `Terminator` look at the same upsert
from four sides: which changes of status it announces, which rows a round writes,
which columns of a row it compares and sets, and how old `last_updated` is.

`JobKiller` and `ScalerLoop` are compositions. `JobKiller` adds actors to the row of
`JobUpsert`: each action of that module becomes one that leaves the killers alone.
`ScalerLoop` instantiates its two parts on the loop's own position and queues
(`INSTANCE ... WITH pc <- pc, queues <- queues`): a part has the actions of its
stretch of the round, the loop says when and on what they run, and its environment
moves between any two of them. `StatusNotify` is shown to implement the abstract
`StatusFeed` (`Feed == INSTANCE StatusFeed WITH row <- row, watch <- watch, shown <-
shown`): by TLC as the property `FeedSpec`, and by TLAPS.

A definition whose comment starts with "Faulty:" is no part of the model. It is
a plausible bug in the definition that follows it, kept to show which property
would find it.

### 2.1 StatusNotify

| model | code |
|---|---|
| `row[j]` | the row of job j; its contents are a version number that grows with each status change |
| `events` | `job_status_events`: the triggers of migration 00018 put in a job on insert and on a status change |
| `Writers`, `pc` | goroutines that may be inside `Store` or `StaleOldJobs`: the poller, webhook requests |
| `StoreCommit(w, S)` | the transaction of `Store` or `StaleOldJobs` with its triggers. S is empty when no status differs or the commit failed (it is logged, and the flush follows) |
| `FlushSelect`, `FlushDelete`, `FlushCommit`, `FlushCommitFails`, `FlushFails` | the READ COMMITTED transaction of `flushJobStatusSubscriptions`; a `DELETE` has a snapshot of its own and waits for rows another transaction is deleting |
| `FlushFindOne`, `FlushSkips` | `FindOne` per job, outside the transaction; a failure skips the job |
| `FlushLock` ... `FlushUnlock` | the sends under `jobStatusSubscribersLock`; `FlushPush` waits while the channel is full |
| `Subscribe`, `Unsubscribe` | `SubscribeToJobStatus` and the deferred function it returns, each under the lock |
| `InitialFindOne`, `Receive`, `Keepalive`, `WriteOk`, `WriteFails` | `SubscribeToJobEvent` from its first `FindOne` to its return |
| `ReaderCloses` | the goroutine that reads the websocket only to see it close |
| `Crash` | the process ends and is started again: memory is lost, open transactions roll back |

The status of a job is abstracted to a version, so that a lost or reordered
change is told apart from one that happens to repeat a status. A flush sends in
any order of jobs and channels (`FlushPick`), which covers the order of the rows
the SELECT returns. `Keepalive` may be taken at any time the channel is empty;
its 5 seconds are not counted. After a failed `FindOne` the handler goes on
without a previous status, as for an unknown job.

In `StoreCommit` the transaction is one step. Its upsert of the event row waits
for a transaction that is deleting that row, which the guard on `doomed` states;
the rows a Store has locked before it commits, and the aborts PostgreSQL chooses
when two such waits form a cycle, are covered by an empty S and by `FlushFails`.

### 2.2 BatchSync

| model | code |
|---|---|
| `aws`, `Move` | AWS Batch (external): a job appears, moves on, is retried (back to RUNNABLE), finishes and is forgotten; `moves` counts the moves, which `MaxMoves` bounds |
| `mail`, `Webhook` | the events of the AWS Lambda function: each may be delivered never, late or repeatedly, in any order; `JobStatusNotification` stores it |
| `active`, `ToggleQueue` | `activated_job_queues` |
| `row`, `old`, `Age` | the status of the jobs row, and whether `last_updated` is more than 300 s ago |
| `Upsert` | the upserts of `Store` in one transaction: rows whose status differs are written. A row with the same status may be written or not, since other columns are compared as well |
| `StartRound`, `NextQueue`, `NextStatus` | `ListActiveJobQueues`, the two loops; the queues come in any order, the statuses in that of `StatusList` |
| `ListPage`, `Describe`, `StoreBatch` | `syncJobsStatus`: one `ListJobs` call per page, `DescribeJobs` of the *last* page (`jobList` is the last output), then summaries, `known_job_ids` and `Store` |
| `StoreLost`, `LogLost` | a commit that fails, which is only logged |
| `LogSummary`, `StaleOldJobs` | the end of `syncJobs`, and the GONE marks |
| `RoundFails` | an error at any call, or the end of the process: the round is given up. A write whose flush fails is there all the same |
| `still`, `calm`, `heard` | history, for the properties only: jobs AWS has not moved since the round began; whether nobody else has written, no write but a mark was lost and the round has not failed; the described jobs of which the webhook has stored an event since |

`logged[q]` is the last entry of `job_summary_event_log`, which is written when it
differs from the one before; before the first entry it is zero in all columns.

`FinishedStays` holds at every step, not only in calm rounds: a finished row that changes
becomes live (never GONE, never the other end), and only by an event of the job or by
storing a description that such an event has overtaken. Both really happen, since
nothing in the upsert compares times; the next round that describes the job heals it
(`MirrorCatchesUp`).

The flush at the end of `Store` and `StaleOldJobs` is what `StatusNotify` models;
here only its failure counts.

### 2.3 JobUpsert

| model | code |
|---|---|
| `job`, `Progress`, `ArrayProgress` | one job in AWS Batch (external): attempts that start, get a log stream, end with or without having run, and are retried; or an array whose children end |
| `Described` | `syncJobsStatus`, from a description to a `Job`: the last *ended* attempt first, then the container |
| `Notified` | `JobStatusNotification`, from an event to a `Job`: status and start; the other columns stay nil |
| `NotEqual`, `Missing`, `CountsDiffer`, `Differs` | the WHERE clause of the upsert in three-valued logic: `<>` with a NULL is not true, and `->>` of an absent key is NULL |
| `Upserted` | the insert, or the assignment of all columns where the clause is true; `stopped_at` only where the `Job` has it |
| `Describe`, `Store`, `StoreLost`, `Webhook` | the poller's reading and its storing as two steps, between which the job moves and events are stored; the commit that fails |
| `quiet` | history, for the properties: nothing has happened since the poller's last reading |

Values are reduced to what the clause can tell apart: log streams, task ARNs and
start times to the number of their attempt, exit codes and stop times to there
or not, the seven counts to three. Columns that are inserted once and never
updated (name, image, queue, ...) are left out. `GONE`, which `StaleOldJobs` writes, is
a status of rows only; nothing in this module writes it, `JobKiller` does.

### 2.4 Terminator

| model | code |
|---|---|
| `status`, `ended`, `place`, `up` | jobs with their attempts, the instances of these, the instances that run (external): a job may be RUNNABLE, STARTING, RUNNING and FAILED, which stands for finished |
| `Tick` | 300 s go by. `last_updated > 600 seconds` is three ticks: two ticks may be 600 s exactly |
| `StuckRow`, `Stuck` | `GetStartingStateStuckEC2Instances`: rows STARTING for long, joined by task with `task_arns_to_instance_info` |
| `Query`, `QueryFails`, `Kill`, `KillFails` | the head of a poller's round: the query, and `KillInstances` one instance after the other, whatever fails |
| `Task`, `Described`, `SyncJob` | the task of a description (the last ended attempt first) and the upsert, which renews `last_updated` only where something differs |
| `StoreLost`, `Miss`, `RoundFails` | a commit that fails and is only logged; a job that moves to a status listed before, with the GONE mark it may get; a round given up |
| `ReadTasks(i)`, `ReadInstances`, `MonitorFails` | `MonitorECSClusters` up to the descriptions of the instances. Tasks are listed instance by instance (`unlisted` are those still to come), which stands for clusters and pages, in any order, with everything else in between. EC2 describes a terminated instance for a while, without addresses |
| `Found`, `WriteTasks` | `UpdateTaskArnsInstanceIDs`, one transaction: `public_ip` and `private_ip` are NOT NULL (migration 00013), so that one task on an instance without them rolls back all |
| `stay`, `began`, `lag` | history, for the properties: how long an attempt has been STARTING, and when the last complete round began |

`StatusList` is alphabetical: RUNNING and FAILED are listed before STARTING, which
is how a job is missed. `Miss` puts the GONE mark where the job is missed rather
than at the end of the round; only the poller itself reads it in between. The container instances of a cluster are
not described by a step of their own: an instance never comes back, so one that ECS has
left out may be taken for one that EC2 leaves out later. A listing that fails writes
nothing, as a failure after the last one does.
`TerminatedWasStuck` allows for the time since the last complete round, since the
code cannot know better: after an outage rows that say STARTING are taken for stuck
before the first round has refreshed them (the terminator comes first).
`StuckIsTerminated` excepts the time a task runs on an instance without a public
address (`SomeTaskIsBare`): in a private subnet no task is ever recorded and nothing is
ever terminated. The model
assumes that `kill_stuck_jobs` is on, that the scaler runs and watches the job's
cluster (without it no task has an instance and nothing is ever terminated), that
listings are of one page, and that the queue stays activated; a restart is no more
than `RoundFails` and `MonitorFails`. The webhook, which sets `task_arn` to NULL, is
left to `JobUpsert`.

### 2.5 JobKiller

| model | code |
|---|---|
| `due`, `TimePasses` | `created_at + timeout` of the row: never, later or now |
| `TimedOut`, `FindTimedoutJobs` | the WHERE clause of `FindTimedoutJobs`: not finished, not GONE, not requested |
| `TerminateJob`, `TerminateFails`, `Note`, `NoteFails` | `KillOne`: AWS is told, then the row is marked; an error of the first returns |
| `UserTerminates`, `UserNotes`, `UserNoteFails` | `KillOne` on behalf of `KillMany`, at the same time |
| `JobTerminates` | AWS Batch (external): the job ends, in its status, or a moment later, or runs to its own end |
| `Sync`, `Read`, `SyncFails` | the storers of `JobUpsert`, who leave `termination_requested` alone |
| `MarkGone`, `Clean` | `StaleOldJobs`, when a round has missed the job; `CleanOldJobs`, after 30 days without an update |
| `Crash` | the process ends between any two steps: what was killed and not noted is forgotten |
| `calls`, `lost` | history, for the properties: how often AWS accepted the killer's call, and how often the database lost that it did |

Each part of this runs in a goroutine of its own, so that all interleave. Marks,
removals, failed calls and crashes count as faults, at most `MaxFaults` of them in a
behaviour. Without such a bound `TimedOutIsTold` would be lost for a plain reason: the
row may be removed each time before it is looked at. That the kill requests of the UI
are answered with OK whatever happened (`handlers.go:168`) is not modelled.

### 2.6 ScalerLoop

| model | code |
|---|---|
| `ListQueues`, `KillAndSleep`, `Crash` | `RunPeriodicScaler`: the round's list of queues, its end, and the end of the process |
| `load`, `forced`, `ce`, `instance` | what the loop reads: live vCPUs per queue, forced scaling, environments (Status, State, DesiredvCpus, MinvCpus), instances. `World` changes them at any point of a round |
| `SetForced`, `Deactivate` | forced scaling begins by SQL only (external) and ends with `DeactivateJobQueue`, after which an activation starts without it |
| `Managed`, `WithRole` | the environments with ComputeResources and with a ServiceRole, which the code asks for before it reads on |
| `Registry!ReadClusters`, `UpdateECSInstances`, their failures | `MonitorECSClusters` and the table `instances`. Which queues AWS describes for an empty list is left open (`Answers`) |
| `Scaler!Estimate`, `DescribeOne`, `UpdateOne`, `Scaled`, their failures | `ScaleComputeEnvironments`: loads added up per first environment, the minimum set where it differs and the environment is VALID and ENABLED; an error of one environment does not stop the others |
| `Scaler!Entry`, `Kept`, `ReadEnvironments` | `GetComputeEnvironments`: State, DesiredvCpus and MinvCpus of the environments that have resources and a role; the Status is not kept |
| `Scaler!Changed`, `UpdateLog`, `LogFails` | `UpdateComputeEnvironmentsLog`: an entry for each environment read that has none or differs from its last |
| `calm` | history, for the properties: no change and no failure since the round began |

The log has five columns to compare. The maximum and the role of an environment do not
change in the model, so that three are left. As the Status is none of them, an
environment that turns INVALID while it is ENABLED is no longer scaled and logs
nothing; the properties claim of the log only what it keeps. `Estimate` is one step
for the query of the loads and `DescribeJobQueues`: the orders of the queues are
constant, so that it does not matter when the second call is made.

A failure ends its stretch and the loop goes on with the next one. The reading of the
clusters is one step, since a failure of any of its calls returns before anything is
written. Timed out jobs are killed at the end of the round, which is `JobKiller`.

## 3. Runs

`tlc -config <cfg> <module>`. All of them check for deadlock as well.

| run | instance | shows |
|---|---|---|
| `notify_one_storer` | 1 job, 1 storer, 2 handlers, channels of 20, 2 changes, no failures, fairness | `EveryChangeAccountedFor`, `ChannelInOrder`, `SubscriberCatchesUp`, `ClosedIsReaped`, `FlushCompletes` |
| `notify_many_storers` | 2 jobs, 2 storers, 1 handler, channels of 1, 2 changes, any call may fail | `TypeOK`, `SubscriptionsMatchHandlers`, `SendsOnlyToRegistered`, and that it implements `StatusFeed` |
| `notify_lost_event` | 1 job, 2 storers, 1 handler | `EveryChangeAccountedFor` is **violated** |
| `notify_full_channel` | 1 job, 1 storer, 1 handler, channels of 20, 22 changes, fairness | `FlushCompletes` is **violated** |
| `sync_poll` | 2 jobs in 2 queues that are activated and deactivated, pages of 2, 2 statuses, 2 moves, webhooks, failures | `TypeOK`, `QuietRoundMirrors`, `PresentIsNotGone`, `FinishedStays` |
| `sync_live` | 1 job, all 7 statuses, 3 moves, fairness | `MirrorCatchesUp`, `ForgottenIsMarked` |
| `sync_pages` | 2 jobs, pages of 1 | `PresentIsNotGone` is **violated** |
| `upsert_job` | `JobKiller`: a job of 2 attempts or an array of 4, with or without a timeout; webhook, killers, 2 faults, fairness | `SystemTypeOK`, `PollMirrors`, `EndIsMirrored`, `RepeatedPollIsIdle`, `RequestedWasTold`, `ToldAgainOnlyAfterLoss`, `TimedOutIsTold` |
| `upsert_array` | an array of 2 | `CountsMirrored` is **violated** |
| `terminator_once` | 1 job, 1 attempt, 2 instances, one without a public address, any call may fail, fairness | `TypeOK`, `TerminatedWasStuck`, `StuckIsTerminated` |
| `scaler_rounds` | 5 queues, 3 environments (one without a role, one without resources), 2 instances, loads 0 and 2, 3 changes or failures, fairness | `TypeOK`, `QuietRoundSettles`, `DisappearedHasGone`, `MinimumFollowsLoad`, `LogCatchesUp` |
| `terminator_retry` | 1 job, 2 attempts, 2 instances, no failures | `TerminatedWasStuck` is **violated** |

Bounds. Two jobs are what an event of one job needs to be confused with
another's; two storers are what a race of two flushes needs; a channel of 1
is full after one change, so that blocked sends occur; two changes per
job let a newer version overtake an older one. In `notify_one_storer` channels have the
capacity of the code, and the changes are fewer than fill it: a full channel is
the subject of `notify_full_channel`. In the poller's runs two jobs with pages of
2 are one page, pages of 1 are two; `Observed` is the set of statuses jobs take,
chosen so that a job moves both with the order of `StatusList` and against it.
`MaxMoves` counts the moves including the first appearance and the forgetting.
In `upsert_job` two attempts are what a row of an earlier attempt and an event of a later
one need; an array of four children has several counts that add up to the same. Two
faults are what a lost note and a wrong mark, or a removal and a crash, need; the
theorems about `JobKiller` hold for any number of attempts, children and faults. In
`scaler_rounds` two queues have the same environment first, so that loads are added
up, and the maximum of 3 cuts the sum of 4 but not a single load of 2; one queue has an
environment without a role first, which is scaled and not logged, one an unmanaged
environment, which is neither, and one has none at all. Three changes are a change in
the middle of a round, a failure in it and one more after it; the theorems hold for any
number. In `sync_poll` a job is observed RUNNING and FAILED: that a row never takes the
other end is left to the proof of `FinishedStays`. In the terminator's runs ages stop at three ticks, the
first that counts; a second instance is what the wrong one to terminate needs, and one
without a public address what a rolled back mapping needs.
Symmetry is used for
jobs (with their queues), storers and handlers, in safety runs only.

### What the violations say

- `notify_lost_event`: storer A selects the events, storer B commits a change,
  A deletes all events including B's, B selects none. No subscriber hears of the
  change (`postgres_store.go:1269` and `:1286`). A's own lookup of the same job, if
  it has that job, comes later and repairs it; for a job A has not selected
  nothing does, until its next change. `DELETE ... RETURNING job_id` would do
  both in one statement.
- `notify_full_channel`: a handler that is stalled in its first `FindOne` for more
  changes than its channel takes, and then finds its socket closed, waits for the
  lock which the flush holds while it waits for room in that handler's channel.
- `sync_pages`: `batchsync.go:75` and `:77` use the last page instead of
  `job_results`. With more than 100 jobs of a queue in one status, those of the
  earlier pages are not stored, and rows they had are marked GONE.
- `upsert_array`: the WHERE clause compares the counts under the keys `STARTING`,
  `FAILED`, ... (`postgres_store.go:428-434`), but they are stored as `starting`,
  `failed`, ... (`jobs/jobs.go:91-97`). The comparison is NULL, so the row of a pending
  array keeps the counts of the first poll. A change of status brings new counts,
  which is why `EndIsMirrored` holds.
- `terminator_retry`: the row of a job whose retry is in STARTING has the task of
  the attempt before (`batchsync.go:163-187` prefers ended attempts), so the query
  finds the instance that one ran on. It is terminated, with whatever else runs
  there, and the stuck one never is.

### What the code does and its comments do not say

Two passing runs show a behaviour that a comment or document states differently:

- `scaler_rounds`: `scaler.go:25-31` and `:137` say that the scaler raises when what AWS
  *desires* is lower than wanted, and that AWS lowers later. The code (`:138`) compares
  the *minimum* and sets it whenever it differs, so it lowers it as well. `MinimumFollowsLoad`
  and `QuietRoundSettles` are about what the code does: nobody else lowers a minimum.
- `terminator_once`: `docs/docs/terminator.md:12-13` says that all jobs Batchiepatchie knows
  about are looked after. Only those are whose cluster the ECS monitor watches: the scaler
  has to run and the queue to have forced scaling (`batchsync.go:299`); and one task on an
  instance without a public address keeps the monitor from recording any
  (`postgres_store.go:965`).

## 4. Fairness

- `StatusNotify!FairSpec`: weak fairness of each storer's and each handler's own
  steps: goroutines are scheduled, and their database calls and websocket writes return.
  The writes and the flush's transaction have deadlines; `FindOne` has none, so that for
  it this is an assumption about the database. Strong fairness of `FlushLock` and `Unsubscribe`: they wait for
  a Go mutex, whose starvation mode hands it to a waiter in the end however often
  others take it. No fairness of changes, clients, closing and crashes. A handler
  whose channel is empty and whose socket is open always has its keepalive.
- `BatchSync!FairSpec`: weak fairness of the poller, which sleeps `sync_period` and
  starts again whatever happened, and of `Age`, the passing of time. None for AWS,
  users or the webhook. `MayFail` is off in the liveness runs: where every call may
  fail for ever nothing is ever mirrored.
- `JobKiller!FairSystem`: weak fairness of the poller's reading and storing and of the
  killer, two loops that start again whatever happened. Faults are finite. None for
  the job, the webhook, time or the UI.
- `ScalerLoop!FairSpec`: weak fairness of the loop: each of its calls returns. Changes
  and failures are finite, which is what `MinimumFollowsLoad` and `LogCatchesUp` need: a
  load that changes in every round is never met.
- `Terminator!FairSpec`: weak fairness of time and of both loops, which sleep and
  start again; strong fairness of each call, because a call that fails now and then
  is tried again in the next round: it is assumed not to fail every time.

## 5. Proofs

Each module of proofs rests on the assumptions that the module it is about names on its
constants, and TLC evaluates these in every run. For `StatusNotify` they are
`NoOneIsNoWriter`, `NobodyIsNoJob`, `ChanCapPositive` and `MaxChangesIsNat`; the sets of
jobs, storers and handlers may be of any size. Each invariant below was checked by TLC on
the instances of section 3 before it was proved.

`StatusNotifyProofs` proves `TypeCorrect`, `SubscriptionsCorrect`, `SendsCorrect`.
The inductive invariant `IInv` is their conjunction with three facts each of them
needs: `TargetInv` (a storer sends a message it still has), `LockInv` (the lock is
held exactly by the storer that sends, and only that storer has messages) and
`WatchInv` (running handlers are those that watch). `LockInv` is the point: because
subscriptions change only while nobody sends, a message cannot outlive the
handler it is for. `ImplementsFeed` then maps every step to a step of the abstract
feed or a stutter: commits to `Change`, a subscription to `Watch`, a successful
write to `Show`, the end of a handler and a crash to `Leave`. It rests on `NoFuture`:
no version anywhere (found, to be sent, in a channel, read, shown) is newer than
the row of its job, and all messages on the way to a handler are of its job.

`OneStorerProofs` proves, when there is at most one storer and no call fails, that
no change is lost (`OneStorerLosesNothing`) and that channels keep the order
(`OneStorerKeepsOrder`). `FlushInv` says that what a flush has read is what the
database has until it is sent. `Delivery` then has three parts per handler: its
newest version is current or the current one is on its way (`Accounted`); while it
is, everything in the channel is older (`Older`, which is why a send keeps the
order); and the channel is in order (`Ordered`). The hypothesis is needed:
`notify_lost_event` is the counterexample without it.

`JobUpsertProofs` proves `TypeCorrect`, `RepeatedPollNeverWrites`,
`EndAlwaysMirrored` and `PollAlwaysMirrors`, for jobs and arrays alike. Neither of the
last two is inductive. For `EndAlwaysMirrored` the invariant `IEnd` adds that a row, or
a reading, which says the job has ended and is not the webhook's *is* the final
description: after the end nothing moves. For `PollAlwaysMirrors` the WHERE clause is
not enough by itself: it does not look at `run_started_at`, nor at columns that
become NULL. `IMirror` says what a row read earlier can be (`Precedes`): if its task
is that of the last ended attempt, its exit code, start and log stream are that
attempt's too, so that the columns the clause does not see are right whenever
those it sees are. Assumptions: `BoundsAreNat`, `FlagsAreBoolean`, `NULLIsNoValue`.
The counts are left out of `PollMirrors` because of `upsert_array`.

`AttemptsInOrder`, a part of `IMirror`, leaves room for a job that ends between two
attempts, which a termination brings about.

`JobKillerProofs` proves the same about the whole system (`SystemTypeCorrect`,
`SystemRepeatedPollNeverWrites`, `SystemEndAlwaysMirrored`, `SystemPollAlwaysMirrors`): the
steps of `JobKiller` that reach the columns are either steps of `JobUpsert`, for which
its lemmas are cited, or a termination (`TerminatedIsJob`, `TerminationKeepsOrder`), a
mark, a removal or a crash, after each of which the row is not yet mirrored again and
the next quiet poll writes all of it. It also proves `RequestedWasAlwaysTold` and
`NeverToldAgainWithoutLoss`. `ToldAgainOnlyAfterLoss` is not inductive: `KillInv` adds
that while the killer is about to call, or nothing in the database keeps it from
doing so, every accepted call has been lost; one more is left for the call that is
noted, or about to be. Assumptions: those of `JobUpsert`, `NoRowIsNone` and
`MaxFaultsIsNat`.

`BatchSyncProofs` proves `TypeCorrect` and `FinishedAlwaysStays`, and, while no listing
has more than one page, `PresentIsNeverGone` and `QuietRoundAlwaysMirrors`. The last two
are of the form `Spec /\ []OnePage => ...`, where `OnePage` says that no queue has more jobs
in one status than a page takes; `sync_pages` is the counterexample without it, and
`FewJobsMirrored` draws the conclusion for queues that never have more jobs than that.
None of the properties is inductive:

- `FinalInv` and `EndsAgree`, for `FinishedStays`: every row, description and event in the
  mail that says a job has finished says what AWS has, or had when it forgot it; a row
  that is finished while the job is described, and of which no event was stored since,
  says what the description says; and the ends that row, descriptions and events tell of
  a job are the same, in the state before a step and the state after it.
- `KnownInv`, for `PresentIsNotGone`: a job that has not moved since the round began is
  known once its status was listed for its queue, page by page: in `page`, then in
  `described`, then in `known`.
- `MirrorInv` and `CountInv`, for `QuietRoundMirrors`: rows of such jobs agree with AWS
  once stored, if no write was lost and no event came in; and the summary of a
  status that is done counts what AWS has, the one being done what was described of
  it so far. With one page this is all of it at once.

Assumptions: those of `BatchSync`; `QueuesAreFinite` (each queue has finitely many jobs) is
what counting needs.

`TerminatorProofs` proves `TypeCorrect` and `TerminatedWasAlwaysStuck`, the latter as `Spec /\
[]NoRetries => TerminatedWasStuck`: `terminator_retry` is the counterexample with a
retry, and with `MaxAttempts = 1` nothing need be assumed (`SingleAttemptWasStuck`). Any
call may fail. `PlacesInv` says that what the monitor has heard and written of a
task is where the task is, because an attempt never changes its place. `AgesInv`
bounds the age of a row that says STARTING by the time its job has really been
STARTING, plus the time since the last complete round began (`lag`), or since this round
began once it has been there (`began`). `DoomedInv` carries what the query found
to the terminations, between which time passes and jobs move on.

`ScalerLoopProofs` proves `TypeCorrect`, `OnlyGoneDisappears` and `QuietRoundAlwaysSettles`,
whatever changes and fails. `BehindInv`, for the first property: what the monitor
has not seen behind the round's queues was not up when it looked, so that it has ended
if it ever was alive. It also covers an empty list of queues, for which AWS
may describe all. `RegistryInv` and `ScalerInv` follow a calm round from stretch to
stretch: what was seen is so, what is wanted is the sum of the loads, an
environment that is done has its target, what was read of an environment with resources
and a role is what AWS has (`Entry`), and the log ends with it: either there already or
among the entries written (`InLogSame`). The sums are folds
over sets, a recursion over data. The library's induction theorems cannot be
used for them, but `WFMin` on the strict subsets of a finite set can: `SumCounts`
shows that `MapThenSumSet` of natural numbers counts the units of all elements, so that the sum
exists and is a number. Assumptions: those of `ScalerLoop`, among them `QueuesAreFinite`, and `NoEntryIsNone`, by which an entry is told from none.

Only model-checked: the liveness properties (`SubscriberCatchesUp`, `ClosedIsReaped`,
`FlushCompletes`, `MirrorCatchesUp`, `ForgottenIsMarked`, `TimedOutIsTold`, `StuckIsTerminated`,
`MinimumFollowsLoad`, `LogCatchesUp`), because fairness and ENABLED are beyond the prover. The
properties of the violations are false as they stand; `CountsMirrored` is checked by one
of them only.

## 6. Not modelled, and the plan

In the order in which it is to be done:

1. What is true of the counts of a pending array, for which `CountsMirrored` fails: that
   they are right as soon as another column differs.
2. What the terminator guarantees with retries: that what it terminates held some attempt
   of a job whose row has been STARTING for long.

Not modelled, and why:

- *S3 clients*: the lock is released around network calls, but the only callers run
  once each, one after the other, when the process starts: nothing interleaves.
- *Configuration, environment substitution*: sequential, once, before anything else;
  the unit tests reach every branch.
- *Statistics, searches, log fetching*: SQL text and the rendering of answers, without
  state that several actors share. The paged listing of job queues
  (`handlers.go:388`) is sequential.
- *The webhook's times* are formatted without a zone (`job_status_notification.go:77`):
  right when the process runs in UTC, as its container does. Times are attempt numbers
  here.
- *`instance_event_log`* is only written. *The cleaner's* other deletions (places of tasks,
  events of instances) are of rows nobody reads any more; the removal of jobs is in
  `JobKiller`.
- *The connection pool*, where `SET SESSION CHARACTERISTICS` outlives its transaction:
  any call may fail in the models, which covers the aborts that follow.
- *The lengths of job ids*: migration 00020 widens `jobs.job_id` to 44 characters and leaves
  `job_status_events.job_id` at 36 (00018), so that the trigger of a longer id, such as
  that of an array's child, fails and rolls back its `Store`. Ids are without length here.
- *The frontend*: rendering; whether the answer of an earlier request overtakes that of a
  later one is up to the browser.
- HTTP routing, tracing, logging, process start: I/O.
