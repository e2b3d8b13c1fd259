--------------------------- MODULE JobUpsertProofs ---------------------------
(***************************************************************************)
(* Proofs about JobUpsert, for any number of attempts and any size of an   *)
(* array: types, that a repeated poll writes nothing, that a poll brings   *)
(* the columns of the row to what it has read, and the end of a job also   *)
(* the counts.                                                             *)
(***************************************************************************)
EXTENDS JobUpsert, TLAPS

IsJob(j) == /\ j \in [size : Nat, status : Statuses, attempt : Attempts, logs : BOOLEAN,
                       past : Ended \cup {NULL}, done : Nat, failed : Nat]
            /\ j.done + j.failed <= j.size

IType == TypeOK /\ IsJob(job)

\* While nothing has happened, what the poller holds is what AWS Batch says,
\* and what it has stored needs no further update.
QuietHolds == quiet => IF reading = NULL THEN ~Differs(row, Described(job))
                                         ELSE reading = Described(job)

-----------------------------------------------------------------------------
\* Attempts end one after the other, and only the one that runs or has run has
\* logs; an array has none of its own.  A job may also end between two attempts.
AttemptsInOrder(j) ==
  /\ IF j.size > 0 THEN j.past = NULL /\ j.status \notin {"RUNNABLE", "STARTING", "RUNNING"}
     ELSE j.status # "PENDING"
  /\ j.past = NULL => j.attempt = 1
  /\ j.past # NULL => j.past.n <= j.attempt /\ (j.status \notin Terminal => j.past.n < j.attempt)
  /\ j.logs => \/ j.status = "RUNNING"
               \/ j.status \in Terminal /\ j.past # NULL /\ j.past.ran

\* The columns d were read of an earlier state of the job j, or are the
\* webhook's.
Precedes(d, j) ==
  /\ d.stopped # NULL => j.status \in Terminal
  /\ d.reason # NULL /\ d.status \in Terminal => d.stopped # NULL
  /\ d.reason = "" =>
       /\ d.exit = NULL /\ d.started = NULL
       /\ j.past = NULL => /\ d.arn # NULL => j.status \in {"STARTING", "RUNNING"} /\ d.arn = 1
                           /\ d.log # NULL => j.logs /\ d.log = 1
  /\ d.reason = "ended" =>
       /\ j.past # NULL /\ d.arn # NULL /\ d.arn <= j.past.n
       /\ d.arn = j.past.n =>
            IF j.past.ran THEN d.exit = 1 /\ d.log = j.past.n /\ d.started = j.past.n
            ELSE /\ d.exit = NULL /\ d.started = NULL
                 /\ d.log # NULL => j.logs /\ d.log = j.attempt

OfTheWebhook(d) == d.reason = NULL /\ d.stopped = NULL

IMirror == /\ IType
           /\ AttemptsInOrder(job)
           /\ row # NoRow => Precedes(row, job)
           /\ reading # NULL => Precedes(reading, job)
           /\ \A event \in mail : OfTheWebhook(event)
           /\ quiet /\ reading # NULL => reading = Described(job)
           /\ PollMirrors
-----------------------------------------------------------------------------
(***************************************************************************)
(* What the poller and the webhook make of a job, and what Store makes of  *)
(* it.                                                                     *)
(***************************************************************************)
LEMMA DescribedIsRow ==
  ASSUME NEW j, IsJob(j)
  PROVE  Described(j) \in Rows
<1>1. Summary(j) \in Counts
  BY BoundsAreNat, SMT DEF IsJob, Summary, Counts
<1>2. Task(j) \in Attempts \cup {NULL}
  BY DEF IsJob, Task
<1> QED
  BY <1>1, <1>2, SMT DEF IsJob, Described, Rows, Ended, Terminal

LEMMA NotifiedIsRow ==
  ASSUME NEW j, IsJob(j)
  PROVE  Notified(j) \in Rows /\ OfTheWebhook(Notified(j))
BY SMT DEF IsJob, Notified, Rows, Ended, Terminal, OfTheWebhook

LEMMA UpsertedIsRow ==
  ASSUME NEW r \in Rows \cup {NoRow}, NEW n \in Rows
  PROVE  Upserted(r, n) \in Rows
<1>1. CASE r = NoRow \/ ~Differs(r, n)
  BY <1>1 DEF Upserted
<1>2. CASE r # NoRow /\ Differs(r, n)
  <2>1. r.stopped \in {"stopped", NULL} /\ n.stopped \in {"stopped", NULL}
    BY <1>2 DEF Rows
  <2> DEFINE stopped == IF n.stopped = NULL THEN r.stopped ELSE n.stopped
  <2>2. stopped \in {"stopped", NULL} /\ Upserted(r, n) = [n EXCEPT !.stopped = stopped]
    BY <1>2, <2>1 DEF Upserted
  <2> HIDE DEF stopped
  <2>3. [n EXCEPT !.stopped = stopped] \in Rows
    BY <2>2 DEF Rows
  <2> QED
    BY <2>2, <2>3
<1> QED
  BY <1>1, <1>2

\* No column differs from itself, and no key of the WHERE clause is one of
\* those the counts are stored under.
LEMMA SameColumnsDoNotDiffer ==
  ASSUME NEW r, NEW n \in Rows,
         r.status = n.status, r.reason = n.reason, r.exit = n.exit,
         r.log = n.log, r.arn = n.arn, r.counts = n.counts
  PROVE  ~Differs(r, n)
<1>1. ~CountsDiffer(r, n)
  <2>1. ASSUME n.counts # NULL, NEW key \in DOMAIN CountOf
        PROVE  ~NotEqual(At(r.counts, key), n.counts[CountOf[key]])
    <3>1. n.counts \in Counts
      BY <2>1 DEF Rows
    <3>2. key \notin DOMAIN r.counts
      BY <2>1, <3>1 DEF Counts, CountOf
    <3> QED
      BY <3>2 DEF At, NotEqual
  <2> QED
    BY <2>1 DEF CountsDiffer
<1>2. \A c \in {"status", "reason", "exit", "log", "arn"} : r[c] = n[c]
  OBVIOUS
<1> QED
  BY <1>1, <1>2 DEF Differs, NotEqual, Missing

LEMMA StoredDoesNotDiffer ==
  ASSUME NEW r, NEW n \in Rows
  PROVE  ~Differs(Upserted(r, n), n)
<1>1. CASE r = NoRow
  BY <1>1, SameColumnsDoNotDiffer DEF Upserted
<1>2. CASE r # NoRow /\ ~Differs(r, n)
  BY <1>2 DEF Upserted
<1>3. CASE r # NoRow /\ Differs(r, n)
  <2> DEFINE stored == [n EXCEPT !.stopped = IF n.stopped = NULL THEN r.stopped ELSE n.stopped]
  <2>1. /\ stored.status = n.status /\ stored.reason = n.reason /\ stored.exit = n.exit
        /\ stored.log = n.log /\ stored.arn = n.arn /\ stored.counts = n.counts
    BY DEF Rows
  <2> QED
    BY <1>3, <2>1, SameColumnsDoNotDiffer DEF Upserted
<1> QED
  BY <1>1, <1>2, <1>3

-----------------------------------------------------------------------------
(***************************************************************************)
(* Types.                                                                  *)
(***************************************************************************)
LEMMA MovesAreTyped ==
  ASSUME IsJob(job), Progress \/ ArrayProgress
  PROVE  \E next : IsJob(next) /\ Becomes(next)
<1>1. ASSUME NEW ran \in BOOLEAN, AttemptEnds(ran)
      PROVE  \E next : IsJob(next) /\ Becomes(next)
  <2>1. [n |-> job.attempt, ran |-> ran] \in Ended
    BY DEF IsJob, Ended
  <2>2. ASSUME NEW s \in Terminal,
               Becomes([job EXCEPT !.status = s, !.past = [n |-> job.attempt, ran |-> ran], !.logs = ran])
        PROVE  \E next : IsJob(next) /\ Becomes(next)
    <3>1. IsJob([job EXCEPT !.status = s, !.past = [n |-> job.attempt, ran |-> ran], !.logs = ran])
      BY <2>1 DEF IsJob, Statuses
    <3> QED
      BY <2>2, <3>1
  <2>3. ASSUME job.attempt < MaxAttempts,
               Becomes([job EXCEPT !.status = "RUNNABLE", !.past = [n |-> job.attempt, ran |-> ran],
                                   !.logs = FALSE, !.attempt = @ + 1])
        PROVE  \E next : IsJob(next) /\ Becomes(next)
    <3>1. job.attempt + 1 \in Attempts
      BY <2>3, BoundsAreNat DEF IsJob, Attempts
    <3>2. IsJob([job EXCEPT !.status = "RUNNABLE", !.past = [n |-> job.attempt, ran |-> ran],
                            !.logs = FALSE, !.attempt = @ + 1])
      BY <2>1, <3>1 DEF IsJob, Statuses
    <3> QED
      BY <2>3, <3>2
  <2> QED
    BY <1>1, <2>2, <2>3 DEF AttemptEnds
<1>2. CASE Progress
  <2>1. ASSUME NEW s \in {"STARTING", "RUNNING"}
        PROVE  IsJob([job EXCEPT !.status = s])
    BY DEF IsJob, Statuses
  <2>2. IsJob([job EXCEPT !.logs = TRUE])
    BY DEF IsJob
  <2> QED
    BY <1>1, <1>2, <2>1, <2>2 DEF Progress
<1>3. CASE ArrayProgress
  <2>1. ASSUME job.done + job.failed < job.size,
               NEW next \in {[job EXCEPT !.done = @ + 1], [job EXCEPT !.failed = @ + 1]}
        PROVE  IsJob(next)
    BY <2>1, BoundsAreNat DEF IsJob
  <2>2. ASSUME NEW s \in Terminal
        PROVE  IsJob([job EXCEPT !.status = s])
    BY DEF IsJob, Statuses
  <2>3. job.size - (job.done + job.failed) > 0 => job.done + job.failed < job.size
    BY BoundsAreNat DEF IsJob
  <2> QED
    BY <1>3, <2>1, <2>2, <2>3 DEF ArrayProgress, Terminal
<1> QED
  BY <1>2, <1>3

LEMMA InitIType == Init => IType
<1> SUFFICES ASSUME Init PROVE IType
  OBVIOUS
<1>1. 1 \in Attempts /\ Sizes \subseteq Nat
  BY BoundsAreNat DEF Attempts
<1>2. IsJob(job)
  BY <1>1, BoundsAreNat DEF Init, IsJob, Statuses
<1> QED
  BY <1>2 DEF Init, IType, TypeOK

LEMMA NextIType == IType /\ [Next]_vars => IType'
<1> SUFFICES ASSUME IType, [Next]_vars PROVE IType'
  OBVIOUS
<1>1. ASSUME NEW next, IsJob(next), Becomes(next)
      PROVE  IType'
  <2>1. IsJob(job)'
    BY <1>1 DEF Becomes, IsJob
  <2>2. mail' \subseteq Rows
    BY <1>1, NotifiedIsRow DEF Becomes, IType, TypeOK
  <2> QED
    BY <1>1, <2>1, <2>2 DEF Becomes, IType, TypeOK
<1>2. CASE Progress \/ ArrayProgress
  BY <1>1, <1>2, MovesAreTyped DEF IType
<1>3. CASE Describe
  BY <1>3, DescribedIsRow DEF Describe, IType, TypeOK
<1>4. CASE Store
  BY <1>4, UpsertedIsRow DEF Store, IType, TypeOK
<1>5. CASE StoreLost
  BY <1>5 DEF StoreLost, IType, TypeOK
<1>6. ASSUME NEW event \in mail, Webhook(event)
      PROVE  IType'
  BY <1>6, UpsertedIsRow DEF Webhook, IType, TypeOK
<1>7. CASE UNCHANGED vars
  BY <1>7 DEF vars, IType, TypeOK
<1> QED
  BY <1>2, <1>3, <1>4, <1>5, <1>6, <1>7 DEF Next

\* Every reachable state is type correct: what is read, mailed and stored has
\* the columns of a row, and attempts and children stay within their bounds.
THEOREM TypeCorrect == Spec => []TypeOK
<1>1. IType => TypeOK
  BY DEF IType
<1> QED
  BY <1>1, InitIType, NextIType, PTL DEF Spec

-----------------------------------------------------------------------------
(***************************************************************************)
(* A repeated poll writes nothing.                                         *)
(***************************************************************************)
LEMMA NextQuietHolds == IType /\ QuietHolds /\ [Next]_vars => QuietHolds'
<1> SUFFICES ASSUME IType, QuietHolds, [Next]_vars PROVE QuietHolds'
  OBVIOUS
<1>1. CASE Progress \/ ArrayProgress
  BY <1>1, MovesAreTyped DEF IType, Becomes, QuietHolds
<1>2. CASE Describe
  BY <1>2, DescribedIsRow, NULLIsNoValue DEF Describe, IType, QuietHolds
<1>3. CASE Store
  BY <1>3, DescribedIsRow, StoredDoesNotDiffer DEF Store, IType, QuietHolds
<1>4. CASE StoreLost
  BY <1>4 DEF StoreLost, QuietHolds
<1>5. ASSUME NEW event \in mail, Webhook(event)
      PROVE  QuietHolds'
  BY <1>5 DEF Webhook, QuietHolds
<1>6. CASE UNCHANGED vars
  BY <1>6 DEF vars, QuietHolds
<1> QED
  BY <1>1, <1>2, <1>3, <1>4, <1>5, <1>6 DEF Next

\* When a poll has been stored and nothing has happened, the next one leaves
\* the row and its last_updated alone, for jobs and arrays alike.
THEOREM RepeatedPollNeverWrites == Spec => []RepeatedPollIsIdle
<1>1. Init => QuietHolds
  BY DEF Init, QuietHolds
<1>2. QuietHolds => RepeatedPollIsIdle
  BY DEF QuietHolds, RepeatedPollIsIdle, JustPolled
<1> QED
  BY <1>1, <1>2, InitIType, NextIType, NextQuietHolds, PTL DEF Spec

-----------------------------------------------------------------------------
(***************************************************************************)
(* A poll brings all columns but the counts to what it has read.           *)
(***************************************************************************)
\* Moves of AWS Batch keep the attempts in order and leave what was read
\* behind.
LEMMA PastIsEnded ==
  ASSUME NEW j, IsJob(j), j.past # NULL
  PROVE  j.past \in Ended /\ j.past.n \in Attempts /\ j.past.ran \in BOOLEAN
<1>1. j.past \in Ended
  BY DEF IsJob
<1> QED
  BY <1>1 DEF Ended

LEMMA AttemptsAreNat == Attempts \subseteq Nat
BY BoundsAreNat DEF Attempts

LEMMA EndLeavesBehind ==
  ASSUME NEW j, NEW k, IsJob(j), IsJob(k), j.status \notin Terminal, k.past # NULL,
         j.past # NULL => j.past.n < k.past.n,
         NEW d \in Rows, Precedes(d, j)
  PROVE  Precedes(d, k)
<1>1. d.stopped = NULL
  BY DEF Precedes
<1>2. d.reason # NULL => d.status \notin Terminal
  BY <1>1 DEF Precedes
<1>3. ASSUME d.reason = "ended"
      PROVE  d.arn # NULL /\ d.arn < k.past.n
  <2>1. j.past # NULL /\ d.arn # NULL /\ d.arn <= j.past.n
    BY <1>3 DEF Precedes
  <2>2. j.past.n \in Nat /\ k.past.n \in Nat
    BY <2>1, PastIsEnded, AttemptsAreNat
  <2>3. d.arn \in Nat
    BY <2>1, AttemptsAreNat DEF Rows
  <2> QED
    BY <2>1, <2>2, <2>3
<1>4. d.reason = "ended" => d.arn <= k.past.n /\ d.arn # k.past.n
  <2>1. k.past.n \in Nat
    BY PastIsEnded, AttemptsAreNat
  <2>2. d.arn # NULL => d.arn \in Nat
    BY AttemptsAreNat DEF Rows
  <2> QED
    BY <1>3, <2>1, <2>2
<1>5. d.reason = "" => d.exit = NULL /\ d.started = NULL
  BY DEF Precedes
<1> QED
  BY <1>1, <1>2, <1>3, <1>4, <1>5 DEF Precedes

LEMMA MovesKeepOrder ==
  ASSUME IsJob(job), AttemptsInOrder(job), Progress \/ ArrayProgress
  PROVE  \E next : /\ IsJob(next) /\ Becomes(next) /\ AttemptsInOrder(next)
                   /\ \A d \in Rows : Precedes(d, job) => Precedes(d, next)
<1> DEFINE Kept(next) == /\ IsJob(next) /\ AttemptsInOrder(next)
                         /\ \A d \in Rows : Precedes(d, job) => Precedes(d, next)
<1>1. CASE job.status = "RUNNABLE" /\ Becomes([job EXCEPT !.status = "STARTING"])
  <2> DEFINE next == [job EXCEPT !.status = "STARTING"]
  <2>1. IsJob(next)
    BY DEF IsJob, Statuses
  <2>2. /\ next.size = job.size /\ next.attempt = job.attempt /\ next.logs = job.logs
        /\ next.past = job.past /\ next.status = "STARTING"
    BY DEF IsJob
  <2>3. AttemptsInOrder(next)
    BY <1>1, <2>2 DEF AttemptsInOrder, Terminal
  <2>4. ASSUME NEW d \in Rows, Precedes(d, job)
        PROVE  Precedes(d, next)
    BY <1>1, <2>2, <2>4 DEF Precedes, Terminal
  <2>5. Kept(next)
    BY <2>1, <2>3, <2>4
  <2> QED
    BY <1>1, <2>5
<1>2. CASE job.status = "STARTING" /\ Becomes([job EXCEPT !.status = "RUNNING"])
  <2> DEFINE next == [job EXCEPT !.status = "RUNNING"]
  <2>1. IsJob(next)
    BY DEF IsJob, Statuses
  <2>2. /\ next.size = job.size /\ next.attempt = job.attempt /\ next.logs = job.logs
        /\ next.past = job.past /\ next.status = "RUNNING"
    BY DEF IsJob
  <2>3. AttemptsInOrder(next)
    BY <1>2, <2>2 DEF AttemptsInOrder, Terminal
  <2>4. ASSUME NEW d \in Rows, Precedes(d, job)
        PROVE  Precedes(d, next)
    BY <1>2, <2>2, <2>4 DEF Precedes, Terminal
  <2>5. Kept(next)
    BY <2>1, <2>3, <2>4
  <2> QED
    BY <1>2, <2>5
<1>3. CASE job.status = "RUNNING" /\ ~job.logs /\ Becomes([job EXCEPT !.logs = TRUE])
  <2> DEFINE next == [job EXCEPT !.logs = TRUE]
  <2>1. IsJob(next)
    BY DEF IsJob, Statuses
  <2>2. /\ next.size = job.size /\ next.status = job.status /\ next.attempt = job.attempt
        /\ next.past = job.past /\ next.logs = TRUE
    BY DEF IsJob
  <2>3. AttemptsInOrder(next)
    BY <1>3, <2>2 DEF AttemptsInOrder, Terminal
  <2>4. ASSUME NEW d \in Rows, Precedes(d, job)
        PROVE  Precedes(d, next)
    BY <1>3, <2>2, <2>4 DEF Precedes, Terminal
  <2>5. Kept(next)
    BY <2>1, <2>3, <2>4
  <2> QED
    BY <1>3, <2>5
<1>4. ASSUME NEW ran \in BOOLEAN, AttemptEnds(ran),
             job.status = IF ran THEN "RUNNING" ELSE "STARTING"
      PROVE  \E next : Kept(next) /\ Becomes(next)
  <2> DEFINE past == [n |-> job.attempt, ran |-> ran]
  <2>0. past \in Ended
    BY DEF IsJob, Ended
  <2>1. past \in Ended /\ past # NULL
    BY <2>0, NULLIsNoValue
  <2>2. ~(job.size > 0) /\ (job.past # NULL => job.past.n < job.attempt)
    BY <1>4 DEF AttemptsInOrder, Terminal
  <2>5. job.attempt \in Nat /\ job.attempt <= job.attempt
    BY BoundsAreNat DEF IsJob, Attempts
  <2>3. ASSUME NEW s \in Terminal
        PROVE  Kept([job EXCEPT !.status = s, !.past = past, !.logs = ran])
    <3> DEFINE next == [job EXCEPT !.status = s, !.past = past, !.logs = ran]
    <3>1. IsJob(next) /\ AttemptsInOrder(next)
      BY <2>1, <2>2, <2>5 DEF IsJob, AttemptsInOrder, Statuses, Terminal
    <3>2. next.past = past /\ past.n = job.attempt /\ job.status \notin Terminal
      BY <1>4 DEF IsJob, Terminal
    <3>3. ASSUME NEW d \in Rows, Precedes(d, job)
          PROVE  Precedes(d, next)
      BY <2>1, <2>2, <3>1, <3>2, <3>3, EndLeavesBehind
    <3> QED
      BY <3>1, <3>3
  <2>4. ASSUME job.attempt < MaxAttempts
        PROVE  Kept([job EXCEPT !.status = "RUNNABLE", !.past = past, !.logs = FALSE, !.attempt = @ + 1])
    <3> DEFINE next == [job EXCEPT !.status = "RUNNABLE", !.past = past, !.logs = FALSE, !.attempt = @ + 1]
    <3>0. job.attempt + 1 \in Attempts /\ job.attempt < job.attempt + 1
      BY <2>4, BoundsAreNat DEF IsJob, Attempts
    <3>4. /\ next.size = job.size /\ next.attempt = job.attempt + 1 /\ next.logs = FALSE
          /\ next.past = past /\ next.status = "RUNNABLE"
      BY DEF IsJob
    <3>1. IsJob(next) /\ AttemptsInOrder(next)
      <4>1. IsJob(next)
        BY <2>1, <3>0 DEF IsJob, Statuses
      <4>2. job.attempt <= job.attempt + 1
        BY <2>5
      <4> QED
        BY <2>1, <2>2, <3>0, <3>4, <4>1, <4>2 DEF AttemptsInOrder, Terminal
    <3>2. next.past = past /\ past.n = job.attempt /\ job.status \notin Terminal
      BY <1>4 DEF IsJob, Terminal
    <3>3. ASSUME NEW d \in Rows, Precedes(d, job)
          PROVE  Precedes(d, next)
      BY <2>1, <2>2, <3>1, <3>2, <3>3, EndLeavesBehind
    <3> QED
      BY <3>1, <3>3
  <2> QED
    BY <1>4, <2>3, <2>4 DEF AttemptEnds
<1>5. CASE ArrayProgress
  <2>1. job.status = "PENDING" /\ job.size > 0
    BY <1>5 DEF ArrayProgress, AttemptsInOrder
  <2>2. ASSUME job.done + job.failed < job.size,
               NEW next \in {[job EXCEPT !.done = @ + 1], [job EXCEPT !.failed = @ + 1]}
        PROVE  Kept(next)
    <3>1. IsJob(next)
      BY <2>2 DEF IsJob
    <3>2. /\ next.size = job.size /\ next.status = job.status /\ next.attempt = job.attempt
          /\ next.logs = job.logs /\ next.past = job.past
      BY DEF IsJob
    <3>3. AttemptsInOrder(next)
      BY <3>2 DEF AttemptsInOrder
    <3>4. ASSUME NEW d \in Rows, Precedes(d, job)
          PROVE  Precedes(d, next)
      BY <3>2, <3>4 DEF Precedes
    <3> QED
      BY <3>1, <3>3, <3>4
  <2>3. ASSUME NEW s \in Terminal
        PROVE  Kept([job EXCEPT !.status = s])
    BY <2>1 DEF IsJob, Statuses, AttemptsInOrder, Precedes, Terminal
  <2>4. job.size - (job.done + job.failed) > 0 => job.done + job.failed < job.size
    BY DEF IsJob
  <2> QED
    BY <1>5, <2>2, <2>3, <2>4 DEF ArrayProgress, Terminal
<1> QED
  BY <1>1, <1>2, <1>3, <1>4, <1>5 DEF Progress

LEMMA DescribedColumns ==
  ASSUME NEW j
  PROVE  /\ Described(j).status = j.status
         /\ Described(j).reason = IF j.past = NULL THEN "" ELSE "ended"
         /\ Described(j).stopped = IF j.status \in Terminal THEN "stopped" ELSE NULL
         /\ j.past = NULL => /\ Described(j).arn = Task(j)
                             /\ Described(j).exit = NULL /\ Described(j).started = NULL
                             /\ Described(j).log = IF j.logs THEN j.attempt ELSE NULL
         /\ j.past # NULL => /\ Described(j).arn = j.past.n
                             /\ Described(j).exit = IF j.past.ran THEN 1 ELSE NULL
                             /\ Described(j).started = IF j.past.ran THEN j.past.n ELSE NULL
                             /\ Described(j).log = IF j.past.ran THEN j.past.n
                                                   ELSE IF j.logs THEN j.attempt ELSE NULL
BY DEF Described

LEMMA DescribedPrecedes ==
  ASSUME NEW j, IsJob(j), AttemptsInOrder(j)
  PROVE  Precedes(Described(j), j)
<1>1. CASE j.past = NULL
  BY <1>1, NULLIsNoValue DEF Described, Precedes, IsJob, AttemptsInOrder, Task, Terminal
<1>2. CASE j.past # NULL
  <2>1. j.past.n \in Nat /\ j.past.n # NULL
    BY <1>2, PastIsEnded, AttemptsAreNat, NULLIsNoValue
  <2>2. j.past.n <= j.past.n
    BY <2>1
  <2> QED
    BY <1>2, <2>1, <2>2, NULLIsNoValue, DescribedColumns DEF Precedes
<1> QED
  BY <1>1, <1>2

LEMMA EventPrecedes ==
  ASSUME NEW event, OfTheWebhook(event), NEW j
  PROVE  Precedes(event, j)
BY NULLIsNoValue DEF OfTheWebhook, Precedes

LEMMA UpsertedPrecedes ==
  ASSUME NEW j, NEW r \in Rows \cup {NoRow}, r # NoRow => Precedes(r, j),
         NEW n \in Rows, Precedes(n, j)
  PROVE  Precedes(Upserted(r, n), j)
<1>1. CASE r = NoRow \/ ~Differs(r, n)
  BY <1>1 DEF Upserted
<1>2. CASE r # NoRow /\ Differs(r, n)
  BY <1>2 DEF Upserted, Precedes, Rows
<1> QED
  BY <1>1, <1>2

\* An update sets all columns; no update is needed when they are all the same.
LEMMA StoredMirrors ==
  ASSUME NEW j, IsJob(j), AttemptsInOrder(j),
         NEW r \in Rows \cup {NoRow}, r # NoRow => Precedes(r, j)
  PROVE  SameButCounts(Upserted(r, Described(j)), Described(j))
<1> DEFINE n == Described(j)
<1>1. n \in Rows /\ Precedes(n, j)
  BY DescribedIsRow, DescribedPrecedes
<1>2. n.stopped = IF j.status \in Terminal THEN "stopped" ELSE NULL
  BY DescribedColumns
<1>3. CASE r # NoRow /\ Differs(r, n)
  <2>1. (IF n.stopped = NULL THEN r.stopped ELSE n.stopped) = n.stopped
    BY <1>2, <1>3, NULLIsNoValue DEF Precedes
  <2>2. [n EXCEPT !.stopped = n.stopped] = n
    BY <1>1 DEF Rows
  <2> QED
    BY <1>3, <2>1, <2>2 DEF Upserted, SameButCounts
<1>4. CASE r # NoRow /\ ~Differs(r, n)
  <2>1. /\ r.status = n.status
        /\ r.reason = n.reason
        /\ n.exit # NULL => r.exit = n.exit
        /\ n.log # NULL => r.log = n.log
        /\ n.arn # NULL => r.arn = n.arn
        /\ r.arn # NULL /\ n.arn # NULL => r.arn = n.arn
    <3>1. /\ \A c \in {"status", "reason", "exit", "log", "arn"} : ~NotEqual(r[c], n[c])
          /\ \A c \in {"arn", "log", "reason", "exit"} : ~Missing(r[c], n[c])
      BY <1>4 DEF Differs
    <3>2. n.status # NULL /\ n.reason # NULL /\ r.status # NULL
      <4>1. n.status \in Statuses \cup {"GONE"} /\ r.status \in Statuses \cup {"GONE"}
        BY <1>1, <1>4 DEF Rows
      <4>2. n.reason \in {"", "ended"}
        BY DescribedColumns
      <4> QED
        BY <4>1, <4>2, NULLIsNoValue
    <3> QED
      BY <3>1, <3>2 DEF NotEqual, Missing
  <2>2. r.stopped = n.stopped
    <3>1. r.stopped \in {"stopped", NULL} /\ r.reason # NULL
      BY <1>4, <2>1, NULLIsNoValue, DescribedColumns DEF Rows
    <3>2. r.stopped # NULL <=> j.status \in Terminal
      BY <1>4, <2>1, <3>1, DescribedColumns DEF Precedes
    <3> QED
      BY <1>2, <3>1, <3>2
  <2>3. r.exit = n.exit /\ r.log = n.log /\ r.arn = n.arn /\ r.started = n.started
    <3>1. CASE j.past = NULL
      <4>1. /\ r.exit = NULL /\ r.started = NULL
            /\ r.arn # NULL => j.status \in {"STARTING", "RUNNING"} /\ r.arn = 1
            /\ r.log # NULL => j.logs /\ r.log = 1
        BY <1>4, <2>1, <3>1, DescribedColumns DEF Precedes
      <4>2. j.attempt = 1
        BY <3>1 DEF AttemptsInOrder
      <4> QED
        BY <2>1, <3>1, <4>1, <4>2, DescribedColumns DEF Task
    <3>2. CASE j.past # NULL
      <4>1. n.arn = j.past.n /\ n.arn # NULL
        BY <3>2, PastIsEnded, AttemptsAreNat, NULLIsNoValue, DescribedColumns
      <4>2. r.arn = j.past.n
        BY <2>1, <4>1
      <4>3. IF j.past.ran THEN r.exit = 1 /\ r.log = j.past.n /\ r.started = j.past.n
            ELSE /\ r.exit = NULL /\ r.started = NULL
                 /\ r.log # NULL => j.logs /\ r.log = j.attempt
        BY <1>4, <2>1, <3>2, <4>2, DescribedColumns DEF Precedes
      <4> QED
        BY <2>1, <3>2, <4>1, <4>2, <4>3, DescribedColumns
    <3> QED
      BY <3>1, <3>2
  <2> QED
    BY <1>4, <2>1, <2>2, <2>3 DEF Upserted, SameButCounts
<1>5. CASE r = NoRow
  BY <1>5 DEF Upserted, SameButCounts
<1> QED
  BY <1>3, <1>4, <1>5

LEMMA InitIMirror == Init => IMirror
<1> SUFFICES ASSUME Init PROVE IMirror
  OBVIOUS
<1>1. AttemptsInOrder(job)
  BY DEF Init, AttemptsInOrder, Terminal
<1> QED
  BY <1>1, InitIType DEF Init, IMirror, PollMirrors, JustPolled

\* What remains to be shown of a step that AWS Batch does not take.
LEMMA StillMirrors ==
  ASSUME IMirror, IType', job' = job, mail' = mail,
         row' # NoRow => Precedes(row', job),
         reading' # NULL => Precedes(reading', job),
         quiet' /\ reading' # NULL => reading' = Described(job),
         quiet' /\ reading' = NULL => SameButCounts(row', Described(job))
  PROVE  IMirror'
<1>1. Described(job)' = Described(job)
  BY DEF Described, Task, Summary
<1>2. AttemptsInOrder(job)'
  BY DEF IMirror, AttemptsInOrder
<1>3. (row # NoRow => Precedes(row, job))'
  BY DEF Precedes
<1>4. (reading # NULL => Precedes(reading, job))'
  BY DEF Precedes
<1>5. (\A event \in mail : OfTheWebhook(event))'
  BY DEF IMirror, OfTheWebhook
<1>6. PollMirrors'
  BY <1>1 DEF PollMirrors, JustPolled
<1>7. (quiet /\ reading # NULL => reading = Described(job))'
  BY <1>1
<1> QED
  BY <1>2, <1>3, <1>4, <1>5, <1>6, <1>7 DEF IMirror

\* What remains to be shown of a move of AWS Batch.
LEMMA MoveMirrors ==
  ASSUME IMirror, IType', NEW next, IsJob(next), Becomes(next), AttemptsInOrder(next),
         \A d \in Rows : Precedes(d, job) => Precedes(d, next)
  PROVE  IMirror'
<1>1. job' = next /\ row' = row /\ reading' = reading /\ quiet' = FALSE
  BY DEF Becomes
<1>2. AttemptsInOrder(job)'
  BY <1>1 DEF AttemptsInOrder
<1>3. row # NoRow => Precedes(row, next)
  BY DEF IMirror, IType, TypeOK
<1>4. reading # NULL => Precedes(reading, next)
  BY DEF IMirror, IType, TypeOK
<1>5. \A event \in mail' : OfTheWebhook(event)
  BY NotifiedIsRow DEF Becomes, IMirror
<1>6. (row # NoRow => Precedes(row, job))' /\ (reading # NULL => Precedes(reading, job))'
  BY <1>1, <1>3, <1>4 DEF Precedes
<1>7. PollMirrors'
  BY <1>1 DEF PollMirrors, JustPolled
<1> QED
  BY <1>1, <1>2, <1>5, <1>6, <1>7 DEF IMirror

LEMMA NextIMirror == IMirror /\ [Next]_vars => IMirror'
<1> SUFFICES ASSUME IMirror, [Next]_vars PROVE IMirror'
  OBVIOUS
<1>1. IType /\ TypeOK /\ IsJob(job) /\ AttemptsInOrder(job)
  BY DEF IMirror, IType
<1>2. IType'
  BY <1>1, NextIType
<1>3. CASE Progress \/ ArrayProgress
  <2>1. PICK next : /\ IsJob(next) /\ Becomes(next) /\ AttemptsInOrder(next)
                    /\ \A d \in Rows : Precedes(d, job) => Precedes(d, next)
    BY <1>1, <1>3, MovesKeepOrder
  <2> QED
    BY <1>2, <2>1, MoveMirrors
<1>4. CASE Describe
  <2>1. Described(job) # NULL
    BY <1>1, DescribedIsRow, NULLIsNoValue
  <2>2. reading' = Described(job) /\ UNCHANGED <<job, mail, row>>
    BY <1>4 DEF Describe
  <2>3. Precedes(reading', job)
    BY <1>1, <2>2, DescribedPrecedes
  <2> QED
    BY <1>2, <2>1, <2>2, <2>3, StillMirrors DEF IMirror
<1>5. CASE Store
  <2>1. /\ reading # NULL /\ reading' = NULL /\ row' = Upserted(row, reading)
        /\ UNCHANGED <<job, mail, quiet>>
    BY <1>5 DEF Store
  <2>2. Precedes(row', job)
    BY <1>1, <2>1, UpsertedPrecedes DEF IMirror, TypeOK
  <2>3. quiet => SameButCounts(row', Described(job))
    BY <1>1, <2>1, StoredMirrors DEF IMirror, TypeOK
  <2> QED
    BY <1>2, <2>1, <2>2, <2>3, StillMirrors
<1>6. CASE StoreLost
  <2>1. reading' = NULL /\ quiet' = FALSE /\ UNCHANGED <<job, mail, row>>
    BY <1>6 DEF StoreLost
  <2> QED
    BY <1>2, <2>1, StillMirrors DEF IMirror
<1>7. ASSUME NEW event \in mail, Webhook(event)
      PROVE  IMirror'
  <2>1. row' = Upserted(row, event) /\ quiet' = FALSE /\ UNCHANGED <<job, mail, reading>>
    BY <1>7 DEF Webhook
  <2>2. Precedes(event, job)
    BY <1>7, EventPrecedes DEF IMirror
  <2>3. Precedes(row', job)
    BY <1>1, <1>7, <2>1, <2>2, UpsertedPrecedes DEF IMirror, TypeOK
  <2> QED
    BY <1>2, <2>1, <2>3, StillMirrors DEF IMirror
<1>8. CASE UNCHANGED vars
  <2>1. UNCHANGED <<job, mail, row, reading, quiet>>
    BY <1>8 DEF vars
  <2> QED
    BY <1>2, <2>1, StillMirrors DEF IMirror, PollMirrors, JustPolled
<1> QED
  BY <1>3, <1>4, <1>5, <1>6, <1>7, <1>8 DEF Next

\* After a poll in which nothing happened each column of the row, but for the
\* counts of an array, is what the poll has read, whatever webhook events came
\* late, twice or out of order before, for any number of attempts.
THEOREM PollAlwaysMirrors == Spec => []PollMirrors
<1>1. Init => IMirror
  BY InitIMirror
<1>2. IMirror /\ [Next]_vars => IMirror'
  BY NextIMirror
<1>3. IMirror => PollMirrors
  BY DEF IMirror
<1> QED
  BY <1>1, <1>2, <1>3, PTL DEF Spec

-----------------------------------------------------------------------------
(***************************************************************************)
(* The end of a job, or of an array, reaches its row: nothing moves any    *)
(* more, so that a poll which has found the end has read the final state.  *)
(***************************************************************************)
HasEnded(d) == d.reason # NULL /\ d.status \in Terminal

IEnd == /\ IType
        /\ \A event \in mail : OfTheWebhook(event)
        /\ row # NoRow /\ HasEnded(row) => row = Described(job)
        /\ reading # NULL /\ HasEnded(reading) => reading = Described(job)
        /\ quiet /\ reading # NULL => reading = Described(job)
        /\ EndIsMirrored

LEMMA EndIsFinal ==
  ASSUME Progress \/ ArrayProgress
  PROVE  job.status \notin Terminal
BY DEF Progress, ArrayProgress, Terminal

LEMMA DescribedStatus ==
  ASSUME NEW j
  PROVE  /\ Described(j).status = j.status /\ Described(j).reason \in {"", "ended"}
         /\ j.status \in Terminal => Described(j).stopped = "stopped"
BY DEF Described

LEMMA StoredEnd ==
  ASSUME NEW j, IsJob(j), j.status \in Terminal, NEW r \in Rows \cup {NoRow},
         r # NoRow /\ HasEnded(r) => r = Described(j)
  PROVE  Upserted(r, Described(j)) = Described(j)
<1> DEFINE n == Described(j)
<1>1. n \in Rows /\ n.status = j.status /\ n.reason # NULL /\ n.stopped = "stopped" /\ n.stopped # NULL
  BY DescribedIsRow, DescribedStatus, NULLIsNoValue
<1>2. CASE r # NoRow /\ Differs(r, n)
  <2>1. [n EXCEPT !.stopped = n.stopped] = n
    BY <1>1 DEF Rows
  <2> QED
    BY <1>1, <1>2, <2>1 DEF Upserted
<1>3. CASE r # NoRow /\ ~Differs(r, n)
  <2>1. ~NotEqual(r.status, n.status) /\ ~Missing(r.reason, n.reason)
    BY <1>3 DEF Differs
  <2>2. r.status # NULL /\ n.status # NULL
    <3>1. r.status \in Statuses \cup {"GONE"} /\ n.status \in Statuses \cup {"GONE"}
      BY <1>1, <1>3 DEF Rows
    <3> QED
      BY <3>1, NULLIsNoValue
  <2>3. HasEnded(r)
    BY <1>1, <2>1, <2>2 DEF HasEnded, NotEqual, Missing
  <2> QED
    BY <1>3, <2>3 DEF Upserted
<1> QED
  BY <1>2, <1>3 DEF Upserted

LEMMA InitIEnd == Init => IEnd
BY InitIType DEF Init, IEnd, EndIsMirrored, JustPolled

LEMMA NextIEnd == IEnd /\ [Next]_vars => IEnd'
<1> SUFFICES ASSUME IEnd, [Next]_vars PROVE IEnd'
  OBVIOUS
<1>1. IType /\ TypeOK /\ IsJob(job)
  BY DEF IEnd, IType
<1>2. IType'
  BY <1>1, NextIType
<1>3. CASE Progress \/ ArrayProgress
  <2>1. PICK next : IsJob(next) /\ Becomes(next)
    BY <1>1, <1>3, MovesAreTyped
  <2>2. row' = row /\ reading' = reading /\ quiet' = FALSE
    BY <2>1 DEF Becomes
  <2>3. Described(job).status \notin Terminal
    BY <1>3, EndIsFinal, DescribedStatus
  <2>4. ~(row # NoRow /\ HasEnded(row)) /\ ~(reading # NULL /\ HasEnded(reading))
    BY <2>3 DEF IEnd, HasEnded
  <2>5. \A event \in mail' : OfTheWebhook(event)
    BY <2>1, NotifiedIsRow DEF Becomes, IEnd
  <2>6. (~(row # NoRow /\ HasEnded(row)))' /\ (~(reading # NULL /\ HasEnded(reading)))'
    BY <2>2, <2>4 DEF HasEnded
  <2> QED
    BY <1>2, <2>2, <2>5, <2>6 DEF IEnd, EndIsMirrored, JustPolled
<1>4. CASE ~(Progress \/ ArrayProgress)
  <2>1. job' = job /\ mail' = mail
    BY <1>4 DEF Next, vars, Describe, Store, StoreLost, Webhook
  <2>2. Described(job)' = Described(job)
    BY <2>1 DEF Described, Task, Summary
  <2>3. CASE Describe
    <3>1. reading' = Described(job) /\ row' = row /\ Described(job) # NULL
      BY <1>1, <2>3, DescribedIsRow, NULLIsNoValue DEF Describe
    <3> QED
      BY <1>2, <2>1, <2>2, <3>1 DEF IEnd, EndIsMirrored, JustPolled, HasEnded
  <2>4. CASE Store
    <3>1. /\ reading # NULL /\ reading' = NULL /\ row' = Upserted(row, reading)
          /\ quiet' = quiet /\ reading \in Rows
      BY <1>1, <2>4 DEF Store, TypeOK
    <3>2. ASSUME HasEnded(row')
          PROVE  row' = Described(job)
      <4>1. CASE HasEnded(reading)
        <5>1. reading = Described(job)
          BY <3>1, <4>1 DEF IEnd
        <5>2. job.status \in Terminal
          BY <4>1, <5>1, DescribedStatus DEF HasEnded
        <5> QED
          BY <1>1, <3>1, <5>1, <5>2, StoredEnd DEF IEnd, TypeOK
      <4>2. CASE ~HasEnded(reading)
        <5>1. row # NoRow /\ ~Differs(row, reading)
          BY <3>1, <3>2, <4>2 DEF Upserted, HasEnded, Rows
        <5> QED
          BY <3>1, <3>2, <5>1 DEF IEnd, Upserted
      <4> QED
        BY <4>1, <4>2
    <3>3. quiet /\ job.status \in Terminal => row' = Described(job)
      BY <1>1, <3>1, StoredEnd DEF IEnd, TypeOK
    <3> QED
      BY <1>2, <2>1, <2>2, <3>1, <3>2, <3>3 DEF IEnd, EndIsMirrored, JustPolled, HasEnded
  <2>5. CASE StoreLost
    BY <1>2, <2>1, <2>2, <2>5 DEF StoreLost, IEnd, EndIsMirrored, JustPolled, HasEnded
  <2>6. ASSUME NEW event \in mail, Webhook(event)
        PROVE  IEnd'
    <3>1. row' = Upserted(row, event) /\ quiet' = FALSE /\ reading' = reading
      BY <2>6 DEF Webhook
    <3>2. event \in Rows /\ event.reason = NULL
      BY <1>1, <2>6 DEF IEnd, TypeOK, OfTheWebhook
    <3>3. ASSUME HasEnded(row')
          PROVE  row # NoRow /\ row' = row
      BY <3>1, <3>2, <3>3 DEF Upserted, HasEnded, Rows
    <3> QED
      BY <1>2, <2>1, <2>2, <3>1, <3>3 DEF IEnd, EndIsMirrored, JustPolled, HasEnded
  <2>7. CASE UNCHANGED vars
    <3>1. UNCHANGED <<row, reading, quiet>>
      BY <2>7 DEF vars
    <3> QED
      BY <1>2, <2>1, <2>2, <3>1 DEF IEnd, EndIsMirrored, JustPolled, HasEnded
  <2> QED
    BY <1>4, <2>3, <2>4, <2>5, <2>6, <2>7 DEF Next
<1> QED
  BY <1>3, <1>4

\* Once a job, or an array, has ended, a poll brings its row to the final
\* state, whatever late events the webhook is called with before.
THEOREM EndAlwaysMirrored == Spec => []EndIsMirrored
<1>1. IEnd => EndIsMirrored
  BY DEF IEnd
<1> QED
  BY <1>1, InitIEnd, NextIEnd, PTL DEF Spec

=============================================================================
