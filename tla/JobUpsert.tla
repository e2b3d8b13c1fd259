------------------------------ MODULE JobUpsert ------------------------------
(***************************************************************************)
(* One row of the table jobs, column by column: what the poller reads of a *)
(* job and what the webhook is told of it, the WHERE clause of Store's     *)
(* upsert with its NULLs, and the assignment.  AWS Batch is external.      *)
(*                                                                         *)
(* Log streams, task ARNs and start times are the number of the attempt    *)
(* they belong to.  Columns that no update changes are left out.           *)
(***************************************************************************)
EXTENDS Naturals

CONSTANTS
  NULL,         \* SQL's NULL, and Go's nil
  NoRow,        \* the row does not exist
  Sizes,        \* bound: the sizes of arrays; 0 is a job that is none
  MaxAttempts,  \* bound: attempts of the job
  WebhookOn,    \* whether the webhook is called
  MayFail       \* whether a commit may fail

ASSUME BoundsAreNat == Sizes \subseteq Nat /\ MaxAttempts \in Nat \ {0}
ASSUME FlagsAreBoolean == WebhookOn \in BOOLEAN /\ MayFail \in BOOLEAN

Attempts == 1..MaxAttempts
Counts == [succeeded : Nat, failed : Nat, pending : Nat]
\* An ended attempt, and whether its container ran.
Ended == [n : Attempts, ran : BOOLEAN]
Terminal == {"SUCCEEDED", "FAILED"}
Statuses == Terminal \cup {"PENDING", "RUNNABLE", "STARTING", "RUNNING"}
\* The columns of a row; GONE is a mark of the poller's.
Rows == [status : Statuses \cup {"GONE"}, reason : {"", "ended", NULL}, exit : {1, NULL},
         log : Attempts \cup {NULL}, arn : Attempts \cup {NULL}, started : Attempts \cup {NULL},
         stopped : {"stopped", NULL}, counts : Counts \cup {NULL}]

ASSUME NULLIsNoValue == /\ NULL \notin Nat \cup Statuses \cup {"GONE", "", "ended", "stopped"}
                        /\ NULL \notin Ended \cup Counts \cup Rows

VARIABLES
  job,      \* in AWS: size of the array, status, current attempt, whether it
            \* has a log stream, last ended attempt, children that have
            \* succeeded and failed
  mail,     \* events the webhook may be called with
  row,      \* the row
  reading,  \* what the poller has read and not stored yet
  quiet     \* history: no move, webhook or lost commit since the poller has read

vars == <<job, mail, row, reading, quiet>>

Init == /\ \E size \in Sizes :
             job = [size |-> size, status |-> IF size > 0 THEN "PENDING" ELSE "RUNNABLE",
                    attempt |-> 1, logs |-> FALSE, past |-> NULL, done |-> 0, failed |-> 0]
        /\ mail = {} /\ row = NoRow /\ reading = NULL /\ quiet = FALSE

-----------------------------------------------------------------------------
\* The task of the current attempt, once there is one.
Task(j) == IF j.status \in {"STARTING", "RUNNING"} THEN j.attempt ELSE NULL

\* The keys under which StatusSummary is stored, with three of its seven counts.
Summary(j) == [succeeded |-> j.done, failed |-> j.failed, pending |-> j.size - (j.done + j.failed)]

\* Faulty: an attempt without exit code has exited with 0.
DescribedZeroed(j) ==
  LET ran == j.past # NULL /\ j.past.ran IN
  [status  |-> j.status,
   reason  |-> IF j.past = NULL THEN "" ELSE "ended",
   exit    |-> IF ran THEN 1 ELSE 0,
   log     |-> IF ran THEN j.past.n ELSE IF j.logs THEN j.attempt ELSE NULL,
   arn     |-> IF j.past # NULL THEN j.past.n ELSE Task(j),
   started |-> IF ran THEN j.past.n ELSE NULL,
   stopped |-> IF j.status \in Terminal THEN "stopped" ELSE NULL,
   counts  |-> IF j.size > 0 THEN Summary(j) ELSE NULL]

\* What syncJobsStatus makes of a description: the last ended attempt comes
\* before the container.
Described(j) ==
  LET ran == j.past # NULL /\ j.past.ran IN
  [status  |-> j.status,
   reason  |-> IF j.past = NULL THEN "" ELSE "ended",
   exit    |-> IF ran THEN 1 ELSE NULL,
   log     |-> IF ran THEN j.past.n ELSE IF j.logs THEN j.attempt ELSE NULL,
   arn     |-> IF j.past # NULL THEN j.past.n ELSE Task(j),
   started |-> IF ran THEN j.past.n ELSE NULL,
   stopped |-> IF j.status \in Terminal THEN "stopped" ELSE NULL,
   counts  |-> IF j.size > 0 THEN Summary(j) ELSE NULL]

\* What JobStatusNotification makes of an event: the start is the only other
\* column it knows of the job's progress.
Notified(j) ==
  [status  |-> j.status,
   started |-> IF j.status = "RUNNING" THEN j.attempt
               ELSE IF j.status \in Terminal /\ j.past # NULL /\ j.past.ran THEN j.past.n
               ELSE NULL,
   reason  |-> NULL, exit |-> NULL, log |-> NULL, arn |-> NULL, stopped |-> NULL, counts |-> NULL]

-----------------------------------------------------------------------------
(***************************************************************************)
(* The upsert.                                                             *)
(***************************************************************************)
\* x <> y is true.
NotEqual(x, y) == x # NULL /\ y # NULL /\ x # y
\* (x is null and y is not null)
Missing(x, y) == x = NULL /\ y # NULL

\* The keys the WHERE clause reads, and the counts it compares them with.
CountOf == [SUCCEEDED |-> "succeeded", FAILED |-> "failed", PENDING |-> "pending"]
\* ->> of a key that is not there is NULL.
At(object, key) == IF key \in DOMAIN object THEN object[key] ELSE NULL

\* extra_where_check.
CountsDiffer(r, n) ==
  /\ n.counts # NULL
  /\ \/ r.counts = NULL
     \/ \E key \in DOMAIN CountOf : NotEqual(At(r.counts, key), n.counts[CountOf[key]])

\* Faulty: the columns are compared with <> alone.
DiffersWithoutNulls(r, n) ==
  \/ \E c \in {"status", "reason", "exit", "log", "arn"} : NotEqual(r[c], n[c])
  \/ CountsDiffer(r, n)

\* Faulty: a column that is null is written again and again.
DiffersWhenNull(r, n) ==
  \/ \E c \in {"status", "reason", "exit", "log", "arn"} : NotEqual(r[c], n[c])
  \/ \E c \in {"arn", "log", "reason", "exit"} : r[c] = NULL
  \/ CountsDiffer(r, n)

\* The WHERE clause: run_started_at and stopped_at are not looked at.
Differs(r, n) ==
  \/ \E c \in {"status", "reason", "exit", "log", "arn"} : NotEqual(r[c], n[c])
  \/ \E c \in {"arn", "log", "reason", "exit"} : Missing(r[c], n[c])
  \/ CountsDiffer(r, n)

\* Faulty: array_properties is not among the columns that are updated.
UpsertedWithoutCounts(r, n) ==
  IF r = NoRow THEN n
  ELSE IF Differs(r, n)
    THEN [n EXCEPT !.counts = r.counts, !.stopped = IF n.stopped = NULL THEN r.stopped ELSE n.stopped]
  ELSE r

\* The row after the upsert of n; stopped_at is only set when n has it.
Upserted(r, n) ==
  IF r = NoRow THEN n
  ELSE IF Differs(r, n) THEN [n EXCEPT !.stopped = IF n.stopped = NULL THEN r.stopped ELSE n.stopped]
  ELSE r

-----------------------------------------------------------------------------
(***************************************************************************)
(* AWS Batch.                                                              *)
(***************************************************************************)
Becomes(next) ==
  /\ job' = next
  /\ mail' = IF WebhookOn /\ next.status # job.status THEN mail \cup {Notified(next)} ELSE mail
  /\ quiet' = FALSE
  /\ UNCHANGED <<row, reading>>

\* An attempt ends: the job is finished, or is retried.
AttemptEnds(ran) ==
  LET past == [n |-> job.attempt, ran |-> ran] IN
  \/ \E s \in Terminal :
       /\ s = "SUCCEEDED" => ran
       /\ Becomes([job EXCEPT !.status = s, !.past = past, !.logs = ran])
  \/ /\ job.attempt < MaxAttempts
     /\ Becomes([job EXCEPT !.status = "RUNNABLE", !.past = past, !.logs = FALSE, !.attempt = @ + 1])

Progress ==
  \/ job.status = "RUNNABLE" /\ Becomes([job EXCEPT !.status = "STARTING"])
  \/ job.status = "STARTING" /\ (Becomes([job EXCEPT !.status = "RUNNING"]) \/ AttemptEnds(FALSE))
  \/ job.status = "RUNNING" /\ ~job.logs /\ Becomes([job EXCEPT !.logs = TRUE])
  \/ job.status = "RUNNING" /\ AttemptEnds(TRUE)

\* The children of an array end one after the other, and then the array does.
ArrayProgress ==
  LET left == job.size - (job.done + job.failed) IN
  /\ job.status = "PENDING"
  /\ \/ left > 0 /\ (Becomes([job EXCEPT !.done = @ + 1]) \/ Becomes([job EXCEPT !.failed = @ + 1]))
     \/ left = 0 /\ Becomes([job EXCEPT !.status = IF job.failed = 0 THEN "SUCCEEDED" ELSE "FAILED"])

-----------------------------------------------------------------------------
\* DescribeJobs returns, ...
Describe == /\ reading = NULL
            /\ reading' = Described(job) /\ quiet' = TRUE
            /\ UNCHANGED <<job, mail, row>>

\* ... and what it returned is stored.
Store == /\ reading # NULL
         /\ row' = Upserted(row, reading) /\ reading' = NULL
         /\ UNCHANGED <<job, mail, quiet>>

\* The round or the commit fails.
StoreLost == /\ MayFail /\ reading # NULL
             /\ reading' = NULL /\ quiet' = FALSE
             /\ UNCHANGED <<job, mail, row>>

\* The webhook stores an event, late or repeatedly as it may be.
Webhook(event) == /\ row' = Upserted(row, event) /\ quiet' = FALSE
                  /\ UNCHANGED <<job, mail, reading>>

Next == \/ Progress \/ ArrayProgress
        \/ Describe \/ Store \/ StoreLost
        \/ \E event \in mail : Webhook(event)

Spec == Init /\ [][Next]_vars

-----------------------------------------------------------------------------
(***************************************************************************)
(* Properties.                                                             *)
(***************************************************************************)
TypeOK == /\ row \in Rows \cup {NoRow} /\ reading \in Rows \cup {NULL}
          /\ mail \subseteq Rows /\ quiet \in BOOLEAN

\* A poll has just been stored, and nothing has happened since it read.
JustPolled == quiet /\ reading = NULL

SameButCounts(r, n) ==
  \A c \in {"status", "reason", "exit", "log", "arn", "started", "stopped"} : r[c] = n[c]

\* After such a poll each column of a job is what the poll has read, whatever
\* the webhook had emptied before and whatever attempt it was of; all but the
\* counts of an array.
PollMirrors == JustPolled => SameButCounts(row, Described(job))

\* The counts of an array are those the poll has read.
CountsMirrored == JustPolled => row.counts = Described(job).counts

\* Once a job, or an array, has ended, a poll brings its row to the final
\* state, counts included.
EndIsMirrored == JustPolled /\ job.status \in Terminal => row = Described(job)

\* The next poll then leaves the row and its last_updated alone: the age of a
\* row is the age of what it says.
RepeatedPollIsIdle == JustPolled => ~Differs(row, Described(job))
=============================================================================
