----------------------------- MODULE StatusFeed -----------------------------
(***************************************************************************)
(* What the job status notifications promise, without saying how: jobs go  *)
(* through versions (one version per status the database has committed),   *)
(* and a watcher of a job is shown versions that were committed, never one *)
(* that was not.  A watcher may miss versions and may be shown an older    *)
(* one after a newer one; what brings it up to date is stated as liveness  *)
(* in the implementing module.                                             *)
(***************************************************************************)
EXTENDS Naturals

CONSTANTS Jobs,      \* job ids
          Handlers,  \* the websocket connections a process can serve
          Nobody     \* "watches no job", and is none

VARIABLES row,    \* row[j]: number of statuses committed for j, 0 before the first
          watch,  \* watch[h]: the job h watches, or Nobody
          shown   \* shown[h]: the version last shown to h, 0 before the first

vars == <<row, watch, shown>>

Init == /\ row = [j \in Jobs |-> 0]
        /\ watch = [h \in Handlers |-> Nobody]
        /\ shown = [h \in Handlers |-> 0]

\* The database commits a next status for every job of S.
Change(S) == /\ row' = [j \in Jobs |-> IF j \in S THEN row[j] + 1 ELSE row[j]]
             /\ UNCHANGED <<watch, shown>>

Watch(h, j) == /\ watch[h] = Nobody
               /\ watch' = [watch EXCEPT ![h] = j]
               /\ UNCHANGED <<row, shown>>

\* A watcher is shown some version that has been committed.
Show(h) == /\ watch[h] # Nobody
           /\ \E v \in 1..row[watch[h]] : shown' = [shown EXCEPT ![h] = v]
           /\ UNCHANGED <<row, watch>>

\* Watchers go away: one of them, or all of them when the process dies.
Leave(H) == /\ watch' = [h \in Handlers |-> IF h \in H THEN Nobody ELSE watch[h]]
            /\ shown' = [h \in Handlers |-> IF h \in H THEN 0 ELSE shown[h]]
            /\ UNCHANGED row

Next == \/ \E S \in SUBSET Jobs : Change(S)
        \/ \E h \in Handlers, j \in Jobs : Watch(h, j)
        \/ \E h \in Handlers : Show(h)
        \/ \E H \in SUBSET Handlers : Leave(H)

Spec == Init /\ [][Next]_vars
=============================================================================
