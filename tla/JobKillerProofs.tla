--------------------------- MODULE JobKillerProofs ---------------------------
(***************************************************************************)
(* Proofs about JobKiller, for any number of faults, attempts and children *)
(* of an array: types, who has been told to terminate, that only a loss    *)
(* makes the killer tell AWS again, and that what JobUpsert promises of    *)
(* repeated polls and of ends also holds among kills, marks, removals and  *)
(* crashes.                                                                *)
(***************************************************************************)
EXTENDS JobKiller, JobUpsertProofs

SystemIType == IType /\ SystemTypeOK

\* What told, requested and the two counts have to do with each other: at most
\* one accepted TerminateJob is neither lost nor kept from being repeated, by
\* the row or by the killer that is about to note it.
KillInv ==
  /\ requested \/ kpc = "note" \/ upc = "note" => told
  /\ calls <= 1 + lost
  /\ kpc = "kill" \/ (kpc = "rest" /\ ~requested) => calls <= lost

-----------------------------------------------------------------------------
(***************************************************************************)
(* Types, and which steps reach the columns.                               *)
(***************************************************************************)
\* A job that terminates is still one, and is mailed as one.
LEMMA TerminatedIsJob ==
  ASSUME IsJob(job), JobTerminates
  PROVE  \E next : IsJob(next) /\ Becomes(next) /\ next.status = "FAILED"
                   /\ next.size = job.size /\ next.attempt = job.attempt
                   /\ IF job.status \in {"STARTING", "RUNNING"}
                        THEN /\ next.past = [n |-> job.attempt, ran |-> job.status = "RUNNING"]
                             /\ next.logs = (job.status = "RUNNING")
                        ELSE next.past = job.past /\ next.logs = job.logs
<1> DEFINE begun == job.status \in {"STARTING", "RUNNING"}
           ran == job.status = "RUNNING"
           ended == [n |-> job.attempt, ran |-> ran]
           past == IF begun THEN ended ELSE job.past
           logs == IF begun THEN ran ELSE job.logs
           left == job.size - (job.done + job.failed)
           next == [job EXCEPT !.status = "FAILED", !.failed = @ + (job.size - (job.done + @)),
                               !.past = IF begun THEN [n |-> job.attempt, ran |-> ran] ELSE @,
                               !.logs = IF begun THEN ran ELSE @]
<1>1. Becomes(next)
  BY DEF JobTerminates
<1>2. ended \in Ended /\ past \in Ended \cup {NULL} /\ logs \in BOOLEAN
  BY DEF IsJob, Ended
<1>3. job.failed + left \in Nat /\ job.done + (job.failed + left) = job.size
  BY DEF IsJob
<1>4. next = [job EXCEPT !.status = "FAILED", !.failed = job.failed + left, !.past = past, !.logs = logs]
  BY DEF IsJob
<1>5. next \in [size : Nat, status : Statuses, attempt : Attempts, logs : BOOLEAN,
                past : Ended \cup {NULL}, done : Nat, failed : Nat]
  <2> HIDE DEF past, logs, left
  <2> QED
    BY <1>2, <1>3, <1>4 DEF IsJob, Statuses, Terminal
<1>6. /\ next.status = "FAILED" /\ next.size = job.size /\ next.done = job.done
      /\ next.failed = job.failed + left /\ next.attempt = job.attempt
      /\ next.past = past /\ next.logs = logs
  BY <1>4 DEF IsJob
<1>7. IsJob(next)
  BY <1>3, <1>5, <1>6 DEF IsJob
<1> QED
  BY <1>1, <1>6, <1>7

\* A step is one of JobUpsert for the job, the mail, the row and the reading,
\* or one of the few others that change them.
LEMMA StepsOfTheRow ==
  ASSUME [SystemNext]_allVars
  PROVE  [Next]_vars \/ JobTerminates \/ MarkGone \/ Clean \/ Crash
BY DEF SystemNext, allVars, added, killers, vars, Next, JobMoves, TimePasses, Read, Sync, Stores, SyncFails,
       Killer, FindTimedoutJobs, TerminateJob, TerminateFails, Note, NoteFails,
       UserTerminates, UserNotes, UserNoteFails

LEMMA SystemNextIType == IType /\ [SystemNext]_allVars => IType'
<1> SUFFICES ASSUME IType, [SystemNext]_allVars PROVE IType'
  OBVIOUS
<1>1. CASE [Next]_vars
  BY <1>1, NextIType
<1>2. CASE JobTerminates
  <2>1. PICK next : IsJob(next) /\ Becomes(next)
    BY <1>2, TerminatedIsJob DEF IType
  <2>2. IsJob(job)'
    BY <2>1 DEF Becomes, IsJob
  <2>3. mail' \subseteq Rows
    BY <2>1, NotifiedIsRow DEF Becomes, IType, TypeOK
  <2> QED
    BY <2>1, <2>2, <2>3 DEF Becomes, IType, TypeOK
<1>3. CASE MarkGone
  <2>1. row \in Rows
    BY <1>3 DEF MarkGone, IType, TypeOK
  <2>2. row' \in Rows
    BY <1>3, <2>1 DEF MarkGone, Rows
  <2>3. IsJob(job)'
    BY <1>3 DEF MarkGone, IType, IsJob
  <2> QED
    BY <1>3, <2>2, <2>3 DEF MarkGone, IType, TypeOK
<1>4. CASE Clean \/ Crash
  <2>1. IsJob(job)'
    BY <1>4 DEF Clean, Crash, IType, IsJob
  <2> QED
    BY <1>4, <2>1 DEF Clean, Crash, IType, TypeOK
<1> QED
  BY <1>1, <1>2, <1>3, <1>4, StepsOfTheRow

\* Only the cleaner removes a row.
LEMMA OnlyCleanRemoves ==
  ASSUME IType, [SystemNext]_allVars, row # NoRow, row' = NoRow
  PROVE  Clean
<1>1. row \in Rows
  BY DEF IType, TypeOK
<1>2. CASE [Next]_vars
  <2>1. ASSUME NEW n \in Rows, row' = Upserted(row, n)
        PROVE  FALSE
    BY <2>1, UpsertedIsRow, NoRowIsNone, <1>1
  <2>2. CASE Store
    BY <2>1, <2>2 DEF Store, IType, TypeOK
  <2>3. ASSUME NEW event \in mail, Webhook(event)
        PROVE  FALSE
    BY <2>1, <2>3 DEF Webhook, IType, TypeOK
  <2>4. CASE Progress \/ ArrayProgress
    BY <2>4, MovesAreTyped DEF IType, Becomes
  <2> QED
    BY <1>2, <2>2, <2>3, <2>4 DEF Next, vars, Describe, StoreLost
<1>3. ~JobTerminates
  BY TerminatedIsJob DEF IType, Becomes
<1>4. ~MarkGone
  BY <1>1, NoRowIsNone DEF MarkGone, Rows
<1> QED
  BY <1>2, <1>3, <1>4, StepsOfTheRow DEF Crash

\* What SystemTypeOK says of the variables JobUpsert does not have.
WorkersType == /\ due \in {"never", "later", "now"} /\ told \in BOOLEAN
               /\ requested \in BOOLEAN /\ (requested => row # NoRow)
               /\ kpc \in {"rest", "kill", "note"} /\ upc \in {"rest", "note"}
               /\ faults \in 0..MaxFaults /\ calls \in Nat /\ lost \in Nat

LEMMA TypeIsOfBoth == SystemIType <=> IType /\ WorkersType
BY DEF SystemIType, SystemTypeOK, IType, WorkersType

LEMMA InitSystemIType == SystemInit => SystemIType
<1> SUFFICES ASSUME SystemInit PROVE IType /\ WorkersType
  BY TypeIsOfBoth
<1>1. IType
  BY InitIType DEF SystemInit
<1>2. 0 \in 0..MaxFaults
  BY MaxFaultsIsNat
<1> QED
  BY <1>1, <1>2 DEF SystemInit, WorkersType

LEMMA NextWorkersType == IType /\ WorkersType /\ [SystemNext]_allVars => WorkersType'
<1> SUFFICES ASSUME IType, WorkersType, [SystemNext]_allVars PROVE WorkersType'
  OBVIOUS
<1>1. ASSUME Fault
      PROVE  faults' \in 0..MaxFaults
  BY <1>1, MaxFaultsIsNat DEF Fault, WorkersType
<1>2. ASSUME ~Clean, row # NoRow
      PROVE  row' # NoRow
  BY <1>2, OnlyCleanRemoves
<1>3. ASSUME UNCHANGED <<due, killers>>, ~Clean, Fault \/ UNCHANGED faults
      PROVE  WorkersType'
  BY <1>1, <1>2, <1>3 DEF killers, WorkersType
<1>4. CASE Clean
  <2>1. requested' \in BOOLEAN /\ (requested' => row' # NoRow)
    BY <1>4, Zenon DEF Clean
  <2>2. lost' \in Nat /\ faults' \in 0..MaxFaults
    BY <1>1, <1>4 DEF Clean, WorkersType
  <2>3. UNCHANGED <<due, told, kpc, upc, calls>>
    BY <1>4 DEF Clean
  <2> QED
    BY <2>1, <2>2, <2>3 DEF WorkersType
<1>5. CASE JobMoves \/ JobTerminates \/ Read \/ Sync \/ UNCHANGED allVars
  BY <1>3, <1>4, <1>5 DEF JobMoves, JobTerminates, Read, Sync, added, allVars
<1>6. CASE SyncFails \/ MarkGone
  BY <1>3, <1>4, <1>6 DEF SyncFails, MarkGone
<1>7. CASE TimePasses
  BY <1>7 DEF TimePasses, vars, killers, WorkersType
<1>8. CASE FindTimedoutJobs \/ TerminateJob
  <2>1. kpc' \in {"rest", "kill", "note"} /\ told' \in BOOLEAN
    BY <1>8, Zenon DEF FindTimedoutJobs, TerminateJob, WorkersType
  <2>2. calls' \in Nat
    BY <1>8 DEF FindTimedoutJobs, TerminateJob, WorkersType
  <2>3. UNCHANGED <<row, due, requested, upc, faults, lost>>
    BY <1>8 DEF FindTimedoutJobs, TerminateJob, vars
  <2> QED
    BY <2>1, <2>2, <2>3 DEF WorkersType
<1>9. CASE TerminateFails \/ NoteFails \/ UserNoteFails
  BY <1>1, <1>9 DEF TerminateFails, NoteFails, UserNoteFails, vars, WorkersType
<1>10. CASE UserTerminates
  BY <1>10 DEF UserTerminates, vars, WorkersType
<1>11. ASSUME requested' = (row # NoRow), row' = row
       PROVE  requested' \in BOOLEAN /\ (requested' => row' # NoRow)
  BY <1>11
<1>12. CASE Note
  <2>1. /\ due' = due /\ told' = told /\ upc' = upc /\ faults' = faults /\ calls' = calls
        /\ kpc' = "rest" /\ lost' \in {lost, lost + 1}
    BY <1>12 DEF Note
  <2>2. requested' \in BOOLEAN /\ (requested' => row' # NoRow)
    BY <1>11, <1>12 DEF Note, vars
  <2> QED
    BY <2>1, <2>2 DEF WorkersType
<1>13. CASE UserNotes
  <2>1. /\ due' = due /\ told' = told /\ kpc' = kpc /\ faults' = faults /\ calls' = calls
        /\ upc' = "rest" /\ lost' = lost
    BY <1>13 DEF UserNotes
  <2>2. requested' \in BOOLEAN /\ (requested' => row' # NoRow)
    BY <1>11, <1>13 DEF UserNotes, vars
  <2> QED
    BY <2>1, <2>2 DEF WorkersType
<1>14. CASE Crash
  BY <1>1, <1>14 DEF Crash, WorkersType
<1> QED
  BY <1>4, <1>5, <1>6, <1>7, <1>8, <1>9, <1>10, <1>12, <1>13, <1>14 DEF SystemNext, Killer

LEMMA NextSystemIType == SystemIType /\ [SystemNext]_allVars => SystemIType'
<1>1. SystemIType' <=> IType' /\ WorkersType'
  BY DEF SystemIType, SystemTypeOK, IType, WorkersType
<1> QED
  BY <1>1, TypeIsOfBoth, SystemNextIType, NextWorkersType

\* Every reachable state of a job, its row and whoever works on it is type
\* correct, and a job without row is not marked as told to terminate.
THEOREM SystemTypeCorrect == SystemSpec => []SystemTypeOK
<1>1. SystemIType => SystemTypeOK
  BY DEF SystemIType
<1> QED
  BY <1>1, InitSystemIType, NextSystemIType, PTL DEF SystemSpec

-----------------------------------------------------------------------------
(***************************************************************************)
(* Who has been told to terminate, and how often.                          *)
(***************************************************************************)
LEMMA NextKillInv == SystemIType /\ KillInv /\ [SystemNext]_allVars => KillInv'
<1> SUFFICES ASSUME SystemIType, KillInv, [SystemNext]_allVars PROVE KillInv'
  OBVIOUS
<1>1. /\ calls \in Nat /\ lost \in Nat /\ kpc \in {"rest", "kill", "note"} /\ upc \in {"rest", "note"}
      /\ requested \in BOOLEAN /\ (requested => row # NoRow)
  BY TypeIsOfBoth DEF WorkersType
<1>2. CASE UNCHANGED killers
  BY <1>2 DEF killers, KillInv
<1>3. CASE Clean
  BY <1>1, <1>3 DEF Clean, KillInv
<1>4. CASE Killer
  <2>1. CASE FindTimedoutJobs
    BY <1>1, <2>1 DEF FindTimedoutJobs, TimedOut, KillInv
  <2>2. CASE TerminateJob
    BY <1>1, <2>2 DEF TerminateJob, KillInv
  <2>3. CASE TerminateFails
    BY <1>1, <2>3 DEF TerminateFails, KillInv
  <2>4. CASE Note
    <3>1. told /\ told' = told /\ upc' = upc /\ calls' = calls /\ kpc' = "rest"
      BY <2>4 DEF Note, KillInv
    <3>2. CASE row = NoRow
      BY <1>1, <2>4, <3>1, <3>2 DEF Note, KillInv
    <3>3. CASE row # NoRow
      <4>1. requested' /\ lost' = lost
        BY <2>4, <3>3 DEF Note
      <4> QED
        BY <1>1, <3>1, <4>1 DEF KillInv
    <3> QED
      BY <3>2, <3>3
  <2>5. CASE NoteFails
    BY <1>1, <2>5 DEF NoteFails, KillInv
  <2> QED
    BY <1>4, <2>1, <2>2, <2>3, <2>4, <2>5 DEF Killer
<1>5. CASE UserTerminates
  BY <1>1, <1>5 DEF UserTerminates, KillInv
<1>6. CASE UserNotes
  BY <1>1, <1>6 DEF UserNotes, KillInv
<1>7. CASE UserNoteFails
  BY <1>1, <1>7 DEF UserNoteFails, KillInv
<1>8. CASE Crash
  BY <1>1, <1>8 DEF Crash, KillInv
<1> QED
  BY <1>2, <1>3, <1>4, <1>5, <1>6, <1>7, <1>8
  DEF SystemNext, allVars, added, JobMoves, JobTerminates, TimePasses, Read, Sync, SyncFails, MarkGone,
      killers

LEMMA InitKillInv == SystemInit => KillInv
BY DEF SystemInit, KillInv

\* A row says that the termination of its job was requested only if AWS Batch
\* has accepted a TerminateJob of it, by the killer or from the UI, whatever
\* fails in between.
THEOREM RequestedWasAlwaysTold == SystemSpec => []RequestedWasTold
<1>1. KillInv => RequestedWasTold
  BY DEF KillInv, RequestedWasTold
<1> QED
  BY <1>1, InitSystemIType, NextSystemIType, InitKillInv, NextKillInv, PTL DEF SystemSpec

\* The killer's TerminateJob is accepted at most once more than the database
\* has lost that it was, however many readings, events and marks come between.
THEOREM NeverToldAgainWithoutLoss == SystemSpec => []ToldAgainOnlyAfterLoss
<1>1. KillInv => ToldAgainOnlyAfterLoss
  BY DEF KillInv, ToldAgainOnlyAfterLoss
<1> QED
  BY <1>1, InitSystemIType, NextSystemIType, InitKillInv, NextKillInv, PTL DEF SystemSpec

-----------------------------------------------------------------------------
(***************************************************************************)
(* What JobUpsert promises also holds among kills, marks and removals.     *)
(***************************************************************************)
LEMMA SystemNextQuietHolds == IType /\ QuietHolds /\ [SystemNext]_allVars => QuietHolds'
<1> SUFFICES ASSUME IType, QuietHolds, [SystemNext]_allVars PROVE QuietHolds'
  OBVIOUS
<1>1. CASE [Next]_vars
  BY <1>1, NextQuietHolds
<1>2. CASE JobTerminates \/ MarkGone \/ Clean \/ Crash
  <2>1. quiet' = FALSE
    BY <1>2, TerminatedIsJob DEF Becomes, IType, MarkGone, Clean, Crash
  <2> QED
    BY <2>1 DEF QuietHolds
<1> QED
  BY <1>1, <1>2, StepsOfTheRow

\* A repeated poll writes nothing also when killers, marks, removals and crashes
\* come in between.
THEOREM SystemRepeatedPollNeverWrites == SystemSpec => []RepeatedPollIsIdle
<1>1. SystemInit => QuietHolds
  BY DEF SystemInit, Init, QuietHolds
<1>2. QuietHolds => RepeatedPollIsIdle
  BY DEF QuietHolds, RepeatedPollIsIdle, JustPolled
<1>3. SystemInit => IType
  BY InitIType DEF SystemInit
<1> QED
  BY <1>1, <1>2, <1>3, SystemNextIType, SystemNextQuietHolds, PTL DEF SystemSpec

LEMMA SystemNextIEnd == IEnd /\ [SystemNext]_allVars => IEnd'
<1> SUFFICES ASSUME IEnd, [SystemNext]_allVars PROVE IEnd'
  OBVIOUS
<1>1. IType /\ IsJob(job) /\ IType'
  BY SystemNextIType DEF IEnd, IType
<1>2. CASE [Next]_vars
  BY <1>2, NextIEnd
<1>3. CASE JobTerminates
  <2>1. PICK next : IsJob(next) /\ Becomes(next)
    BY <1>1, <1>3, TerminatedIsJob
  <2>2. row' = row /\ reading' = reading /\ quiet' = FALSE
    BY <2>1 DEF Becomes
  <2>3. Described(job).status \notin Terminal
    BY <1>3, DescribedStatus DEF JobTerminates
  <2>4. ~(row # NoRow /\ HasEnded(row)) /\ ~(reading # NULL /\ HasEnded(reading))
    BY <2>3 DEF IEnd, HasEnded
  <2>5. \A event \in mail' : OfTheWebhook(event)
    BY <2>1, NotifiedIsRow DEF Becomes, IEnd
  <2>6. (~(row # NoRow /\ HasEnded(row)))' /\ (~(reading # NULL /\ HasEnded(reading)))'
    BY <2>2, <2>4 DEF HasEnded
  <2> QED
    BY <1>1, <2>2, <2>5, <2>6 DEF IEnd, EndIsMirrored, JustPolled
<1>4. CASE MarkGone \/ Clean \/ Crash
  <2>1. UNCHANGED <<job, mail>> /\ quiet' = FALSE /\ reading' \in {reading, NULL}
    BY <1>4 DEF MarkGone, Clean, Crash
  <2>2. Described(job)' = Described(job)
    BY <2>1 DEF Described, Task, Summary
  <2>3. ASSUME row' # NoRow, HasEnded(row)'
        PROVE  row # NoRow /\ row' = row /\ HasEnded(row)
    <3>1. ASSUME MarkGone
          PROVE  row'.status = "GONE"
      BY <1>1, <3>1 DEF MarkGone, IType, TypeOK, Rows
    <3>2. ~MarkGone
      BY <2>3, <3>1 DEF HasEnded, Terminal
    <3> QED
      BY <1>4, <2>3, <3>2 DEF Clean, Crash, HasEnded
  <2>4. reading' # NULL /\ HasEnded(reading)' => reading' = Described(job)'
    BY <2>1, <2>2 DEF IEnd, HasEnded
  <2>5. row' # NoRow /\ HasEnded(row)' => row' = Described(job)'
    BY <2>2, <2>3 DEF IEnd
  <2>6. (\A event \in mail : OfTheWebhook(event))'
    BY <2>1 DEF IEnd, OfTheWebhook
  <2> QED
    BY <1>1, <2>1, <2>4, <2>5, <2>6 DEF IEnd, EndIsMirrored, JustPolled
<1> QED
  BY <1>2, <1>3, <1>4, StepsOfTheRow

\* The end of a job reaches its row with a poll, also that of a job that was
\* told to terminate before it ran, between two attempts or as an array.
THEOREM SystemEndAlwaysMirrored == SystemSpec => []EndIsMirrored
<1>1. SystemInit => IEnd
  BY InitIEnd DEF SystemInit
<1>2. IEnd => EndIsMirrored
  BY DEF IEnd
<1> QED
  BY <1>1, <1>2, SystemNextIEnd, PTL DEF SystemSpec

\* A termination keeps the attempts in order and leaves what was read behind.
LEMMA TerminationKeepsOrder ==
  ASSUME IsJob(job), AttemptsInOrder(job), JobTerminates
  PROVE  \E next : /\ IsJob(next) /\ Becomes(next) /\ AttemptsInOrder(next)
                   /\ \A d \in Rows : Precedes(d, job) => Precedes(d, next)
<1>1. PICK next : IsJob(next) /\ Becomes(next) /\ next.status = "FAILED"
                  /\ next.size = job.size /\ next.attempt = job.attempt
                  /\ IF job.status \in {"STARTING", "RUNNING"}
                       THEN /\ next.past = [n |-> job.attempt, ran |-> job.status = "RUNNING"]
                            /\ next.logs = (job.status = "RUNNING")
                       ELSE next.past = job.past /\ next.logs = job.logs
  BY TerminatedIsJob
<1>2. job.attempt \in Nat /\ job.attempt <= job.attempt
  BY BoundsAreNat DEF IsJob, Attempts
<1>3. job.status \notin Terminal
  BY DEF JobTerminates
<1>4. CASE job.status \in {"STARTING", "RUNNING"}
  <2> DEFINE ended == [n |-> job.attempt, ran |-> job.status = "RUNNING"]
  <2>6. ended \in Ended /\ ended.n = job.attempt
    BY DEF IsJob, Ended
  <2>7. next.past = ended
    BY <1>1, <1>4
  <2> HIDE DEF ended
  <2>1. next.past \in Ended /\ next.past # NULL /\ next.past.n = job.attempt
    BY <2>6, <2>7, NULLIsNoValue
  <2>2. ~(job.size > 0) /\ (job.past # NULL => job.past.n < job.attempt)
    BY <1>3, <1>4 DEF AttemptsInOrder
  <2>3. next.past.ran = (job.status = "RUNNING")
    BY <1>1, <1>4
  <2>4. AttemptsInOrder(next)
    BY <1>1, <1>2, <1>4, <2>1, <2>2, <2>3 DEF AttemptsInOrder, Terminal
  <2>5. \A d \in Rows : Precedes(d, job) => Precedes(d, next)
    BY <1>1, <1>3, <2>1, <2>2, EndLeavesBehind
  <2> QED
    BY <1>1, <2>4, <2>5
<1>5. CASE job.status \notin {"STARTING", "RUNNING"}
  <2>1. next.past = job.past /\ next.logs = job.logs /\ ~job.logs
    BY <1>1, <1>3, <1>5 DEF AttemptsInOrder
  <2>2. job.past # NULL => job.past.n <= job.attempt
    BY DEF AttemptsInOrder
  <2>3. AttemptsInOrder(next)
    BY <1>1, <2>1, <2>2 DEF AttemptsInOrder, Terminal
  <2>4. ASSUME NEW d \in Rows, Precedes(d, job)
        PROVE  Precedes(d, next)
    BY <1>1, <1>3, <1>5, <2>1, <2>4 DEF Precedes, Terminal
  <2> QED
    BY <1>1, <2>3, <2>4
<1> QED
  BY <1>4, <1>5

LEMMA SystemNextIMirror == IMirror /\ [SystemNext]_allVars => IMirror'
<1> SUFFICES ASSUME IMirror, [SystemNext]_allVars PROVE IMirror'
  OBVIOUS
<1>1. IType /\ TypeOK /\ IsJob(job) /\ AttemptsInOrder(job) /\ IType'
  BY SystemNextIType DEF IMirror, IType
<1>2. CASE [Next]_vars
  BY <1>2, NextIMirror
<1>3. CASE JobTerminates
  <2>1. PICK next : /\ IsJob(next) /\ Becomes(next) /\ AttemptsInOrder(next)
                    /\ \A d \in Rows : Precedes(d, job) => Precedes(d, next)
    BY <1>1, <1>3, TerminationKeepsOrder
  <2> QED
    BY <1>1, <2>1, MoveMirrors
<1>4. CASE MarkGone
  <2>1. /\ row \in Rows /\ row.status \notin Terminal /\ row' = [row EXCEPT !.status = "GONE"]
        /\ quiet' = FALSE /\ UNCHANGED <<job, mail, reading>>
    BY <1>1, <1>4 DEF MarkGone, TypeOK
  <2>2. /\ row'.stopped = row.stopped /\ row'.reason = row.reason /\ row'.exit = row.exit
        /\ row'.started = row.started /\ row'.arn = row.arn /\ row'.log = row.log
        /\ row'.status \notin Terminal
    BY <2>1 DEF Rows, Terminal
  <2>3. Precedes(row, job)
    BY <1>4 DEF MarkGone, IMirror
  <2>4. Precedes(row', job)
    BY <2>2, <2>3 DEF Precedes
  <2> QED
    BY <1>1, <2>1, <2>4, StillMirrors DEF IMirror
<1>5. CASE Clean \/ Crash
  <2>1. /\ row' \in {row, NoRow} /\ reading' \in {reading, NULL} /\ quiet' = FALSE
        /\ UNCHANGED <<job, mail>>
    BY <1>5 DEF Clean, Crash
  <2> QED
    BY <1>1, <2>1, StillMirrors DEF IMirror
<1> QED
  BY <1>2, <1>3, <1>4, <1>5, StepsOfTheRow

\* A poll brings all columns of the row, but for the counts of an array, to what
\* it has read, also after a kill, a wrong mark or a removal of the row.
THEOREM SystemPollAlwaysMirrors == SystemSpec => []PollMirrors
<1>1. SystemInit => IMirror
  BY InitIMirror DEF SystemInit
<1>2. IMirror => PollMirrors
  BY DEF IMirror
<1> QED
  BY <1>1, <1>2, SystemNextIMirror, PTL DEF SystemSpec
=============================================================================
