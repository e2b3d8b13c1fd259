------------------------------ MODULE JobKiller ------------------------------
(***************************************************************************)
(* Who else works on the row of JobUpsert: the killer of jobs that have    *)
(* timed out, at the end of the scaler's rounds, the kill requests of the  *)
(* UI, StaleOldJobs and the cleaner, each in a goroutine of its own.       *)
(*                                                                         *)
(* A failed call, a mark, a removal and a crash are faults; MaxFaults      *)
(* bounds how many of them come together.                                  *)
(***************************************************************************)
EXTENDS JobUpsert

CONSTANT MaxFaults  \* bound: faults of any kind

ASSUME MaxFaultsIsNat == MaxFaults \in Nat
ASSUME NoRowIsNone == NoRow \notin Rows

VARIABLES
  due,        \* of the job: "never" without PYBATCH_TIMEOUT, "later", or "now" when it is over
  told,       \* AWS Batch has accepted a TerminateJob of it
  requested,  \* termination_requested of the row
  kpc,        \* the killer: "rest", "kill" with the job in its list, "note" after TerminateJob
  upc,        \* a request of the UI: "rest" or "note"
  faults,
  calls,      \* history: how often the killer's TerminateJob was accepted ...
  lost        \* ... and how often the database has lost that it was

killers == <<told, requested, kpc, upc, calls, lost>>
added == <<due, killers, faults>>
allVars == <<vars, added>>

SystemInit ==
  /\ Init
  /\ due \in {"never", "later"} /\ told = FALSE /\ requested = FALSE
  /\ kpc = "rest" /\ upc = "rest" /\ faults = 0 /\ calls = 0 /\ lost = 0

Fault == faults < MaxFaults /\ faults' = faults + 1

-----------------------------------------------------------------------------
(***************************************************************************)
(* AWS Batch and time.                                                     *)
(***************************************************************************)
JobMoves == (Progress \/ ArrayProgress) /\ UNCHANGED added

\* A job that is told to terminate may do so, or go on as if nothing was.
JobTerminates ==
  /\ told /\ job.status \notin Terminal
  /\ LET begun == job.status \in {"STARTING", "RUNNING"}
         ran == job.status = "RUNNING"
     IN Becomes([job EXCEPT !.status = "FAILED", !.failed = @ + (job.size - (job.done + @)),
                            !.past = IF begun THEN [n |-> job.attempt, ran |-> ran] ELSE @,
                            !.logs = IF begun THEN ran ELSE @])
  /\ UNCHANGED added

\* created_at + timeout passes.
TimePasses == /\ due = "later" /\ due' = "now"
              /\ UNCHANGED <<vars, killers, faults>>

-----------------------------------------------------------------------------
(***************************************************************************)
(* Storers, the poller's mark and the cleaner.                             *)
(***************************************************************************)
Stores == Store \/ \E event \in mail : Webhook(event)

\* Faulty: an upsert that writes the row writes all of its columns.
SyncForgets == /\ Stores
               /\ requested' = (requested /\ row' = row)
               /\ UNCHANGED <<due, told, kpc, upc, faults, calls, lost>>

\* An upsert leaves termination_requested, timeout and created_at alone; a row it
\* inserts has not been requested.
Sync == Stores /\ UNCHANGED added

Read == Describe /\ UNCHANGED added

SyncFails == StoreLost /\ Fault /\ UNCHANGED <<due, killers>>

\* StaleOldJobs, at the end of a round that has missed the job.
MarkGone ==
  /\ Fault /\ reading = NULL
  /\ row # NoRow /\ row.status \notin Terminal \cup {"GONE"}
  /\ row' = [row EXCEPT !.status = "GONE"] /\ quiet' = FALSE
  /\ UNCHANGED <<job, mail, reading, due, killers>>

\* CleanOldJobs: the row has not been updated for 30 days.
Clean ==
  /\ Fault /\ row # NoRow
  /\ row' = NoRow /\ requested' = FALSE /\ quiet' = FALSE
  /\ lost' = IF requested THEN lost + 1 ELSE lost
  /\ UNCHANGED <<job, mail, reading, due, told, kpc, upc, calls>>

-----------------------------------------------------------------------------
(***************************************************************************)
(* KillTimedOutJobs.                                                       *)
(***************************************************************************)
\* Faulty: only jobs that run are looked at.
TimedOutRunning == row # NoRow /\ row.status = "RUNNING" /\ due = "now" /\ ~requested

\* Faulty: jobs that were told to terminate before are told again.
TimedOutAgain == row # NoRow /\ row.status \notin Terminal \cup {"GONE"} /\ due = "now"

\* The WHERE clause of FindTimedoutJobs.
TimedOut == row # NoRow /\ row.status \notin Terminal \cup {"GONE"} /\ due = "now" /\ ~requested

\* A job that is not found changes nothing.
FindTimedoutJobs == /\ kpc = "rest" /\ TimedOut
                    /\ kpc' = "kill"
                    /\ UNCHANGED <<vars, due, told, requested, upc, faults, calls, lost>>

\* KillOne tells AWS Batch to terminate the job ...
TerminateJob == /\ kpc = "kill"
                /\ told' = TRUE /\ kpc' = "note" /\ calls' = calls + 1
                /\ UNCHANGED <<vars, due, requested, upc, faults, lost>>

\* Faulty: the termination is noted although it was refused.
TerminateFailsButNoted ==
  /\ kpc = "kill" /\ ((job.status \in Terminal /\ UNCHANGED faults) \/ Fault)
  /\ kpc' = "note"
  /\ UNCHANGED <<vars, due, told, requested, upc, calls, lost>>

\* ... and returns when that fails, as it may for a job that has ended.
TerminateFails ==
  /\ kpc = "kill" /\ ((job.status \in Terminal /\ UNCHANGED faults) \/ Fault)
  /\ kpc' = "rest"
  /\ UNCHANGED <<vars, due, told, requested, upc, calls, lost>>

\* UpdateJobLogTerminationRequested, of the row if there is one.
Note == /\ kpc = "note"
        /\ kpc' = "rest" /\ requested' = (row # NoRow)
        /\ lost' = IF row = NoRow THEN lost + 1 ELSE lost
        /\ UNCHANGED <<vars, due, told, upc, faults, calls>>

NoteFails == /\ Fault /\ kpc = "note"
             /\ kpc' = "rest" /\ lost' = lost + 1
             /\ UNCHANGED <<vars, due, told, requested, upc, calls>>

-----------------------------------------------------------------------------
(***************************************************************************)
(* KillOne and KillMany of the UI, for a job it has seen in the database.  *)
(* A request that fails changes nothing.                                   *)
(***************************************************************************)
UserTerminates == /\ upc = "rest" /\ row # NoRow
                  /\ told' = TRUE /\ upc' = "note"
                  /\ UNCHANGED <<vars, due, requested, kpc, faults, calls, lost>>

UserNotes == /\ upc = "note"
             /\ upc' = "rest" /\ requested' = (row # NoRow)
             /\ UNCHANGED <<vars, due, told, kpc, faults, calls, lost>>

UserNoteFails == /\ Fault /\ upc = "note"
                 /\ upc' = "rest"
                 /\ UNCHANGED <<vars, due, told, requested, kpc, calls, lost>>

\* The process ends and is started again.
Crash == /\ Fault
         /\ kpc' = "rest" /\ upc' = "rest" /\ reading' = NULL /\ quiet' = FALSE
         /\ lost' = IF kpc = "note" THEN lost + 1 ELSE lost
         /\ UNCHANGED <<job, mail, row, due, told, requested, calls>>

Killer == FindTimedoutJobs \/ TerminateJob \/ TerminateFails \/ Note \/ NoteFails

SystemNext ==
  \/ JobMoves \/ JobTerminates \/ TimePasses
  \/ Read \/ Sync \/ SyncFails \/ MarkGone \/ Clean
  \/ Killer
  \/ UserTerminates \/ UserNotes \/ UserNoteFails
  \/ Crash

SystemSpec == SystemInit /\ [][SystemNext]_allVars

\* The poller's and the scaler's loops go on.
FairSystem == /\ SystemSpec
              /\ WF_allVars(Read) /\ WF_allVars(Store /\ UNCHANGED added)
              /\ WF_allVars(Killer)

-----------------------------------------------------------------------------
(***************************************************************************)
(* Properties.                                                             *)
(***************************************************************************)
SystemTypeOK ==
  /\ TypeOK
  /\ due \in {"never", "later", "now"} /\ told \in BOOLEAN
  /\ requested \in BOOLEAN /\ (requested => row # NoRow)
  /\ kpc \in {"rest", "kill", "note"} /\ upc \in {"rest", "note"}
  /\ faults \in 0..MaxFaults /\ calls \in Nat /\ lost \in Nat

\* Only a job that AWS has been told to terminate is marked so in the database,
\* whoever asked and whatever failed.
RequestedWasTold == requested => told

\* The killer tells AWS again only after the database has lost that it did:
\* no reading of the poller, event or mark makes it forget.
ToldAgainOnlyAfterLoss == calls <= 1 + lost

\* A job in the database that lives past its timeout is told to terminate, also
\* when its row is wrongly GONE for a while, is removed or was inserted by an event.
TimedOutIsTold ==
  (row # NoRow /\ due = "now" /\ job.status \notin Terminal) ~> (told \/ job.status \in Terminal)
=============================================================================
