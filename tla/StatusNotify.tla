---------------------------- MODULE StatusNotify ----------------------------
(***************************************************************************)
(* From a committed status change to the browser: the storers (the poller  *)
(* and the webhook requests) commit job statuses and then flush the table  *)
(* job_status_events into the channels of the subscribed websocket         *)
(* handlers.                                                               *)
(*                                                                         *)
(* A job's contents are its version: row[j] counts the statuses committed  *)
(* for j, so two versions of a job are two readings of its status.         *)
(***************************************************************************)
EXTENDS Naturals, Sequences, SequencesExt

CONSTANTS
  Jobs,        \* job ids
  Writers,     \* goroutines that may be inside Store or StaleOldJobs at once
  Handlers,    \* goroutines that may be inside SubscribeToJobEvent at once
  NoOne,       \* nobody holds the lock, nothing is being sent
  Nobody,      \* watched job of a handler that does not run
  ChanCap,     \* capacity of a subscriber's channel (20 in the code)
  MaxChanges,  \* bound: statuses a job goes through
  MayFail      \* whether database calls of a flush or a handler may fail

ASSUME NoOneIsNoWriter == NoOne \notin Writers
ASSUME NobodyIsNoJob == Nobody \notin Jobs
ASSUME ChanCapPositive == ChanCap \in Nat \ {0}
ASSUME MaxChangesIsNat == MaxChanges \in Nat
ASSUME MayFailIsBoolean == MayFail \in BOOLEAN

VARIABLES
  \* in the database
  row,          \* row[j]: version of the jobs row, 0 when there is none
  events,       \* job ids in job_status_events, as committed
  \* of a storer
  pc,           \* where it is in flushJobStatusSubscriptions
  ids,          \* job_ids it has read and not looked up yet
  doomed,       \* events its open transaction has deleted
  found,        \* job_statuses: what FindOne returned
  outbox,       \* messages it has still to send while it holds the lock
  target,       \* the message it is sending
  \* of the process
  lock,         \* holder of jobStatusSubscribersLock
  subscribers,  \* jobStatusSubscribers: job id -> subscribed handlers
  \* of a websocket handler
  chan,         \* its status_channel
  hpc,          \* where it is in SubscribeToJobEvent
  watch,        \* the job it was asked for
  open,         \* whether its websocket still is open
  prev,         \* previous_status, 0 for nil
  shown         \* the version its client last received, 0 for none

dbVars == <<row, events>>
flushVars == <<ids, doomed, found, outbox, target>>
mapVars == <<lock, subscribers>>
handlerVars == <<hpc, watch, open, prev, shown>>
vars == <<dbVars, pc, flushVars, mapVars, chan, handlerVars>>

Messages == [to : Handlers, job : Jobs, ver : Nat]

-----------------------------------------------------------------------------
Idle == [w \in Writers |-> "idle"]
Nothing == [w \in Writers |-> {}]

Init ==
  /\ row = [j \in Jobs |-> 0] /\ events = {}
  /\ pc = Idle
  /\ ids = Nothing /\ doomed = Nothing /\ found = Nothing /\ outbox = Nothing
  /\ target = [w \in Writers |-> NoOne]
  /\ lock = NoOne
  /\ subscribers = [j \in Jobs |-> {}]
  /\ chan = [h \in Handlers |-> <<>>]
  /\ hpc = [h \in Handlers |-> "closed"]
  /\ watch = [h \in Handlers |-> Nobody]
  /\ open = [h \in Handlers |-> FALSE]
  /\ prev = [h \in Handlers |-> 0]
  /\ shown = [h \in Handlers |-> 0]

Goto(w, label) == pc' = [pc EXCEPT ![w] = label]

-----------------------------------------------------------------------------
(***************************************************************************)
(* Store and StaleOldJobs: one transaction, whose triggers record the jobs *)
(* with a new status in job_status_events, then the flush.  S is empty     *)
(* when no status differs, and when the commit failed: that error is only  *)
(* logged and the flush follows all the same.  The upsert into             *)
(* job_status_events waits for a transaction that is deleting its row.     *)
(***************************************************************************)
\* Faulty: an insert records no event, only an update does.
StoreCommitUntriggeredInsert(w, S) ==
  /\ pc[w] = "idle"
  /\ \A j \in S : row[j] < MaxChanges
  /\ \A v \in Writers : S \cap doomed[v] = {}
  /\ row' = [j \in Jobs |-> IF j \in S THEN row[j] + 1 ELSE row[j]]
  /\ events' = events \cup {j \in S : row[j] > 0}
  /\ Goto(w, "select")
  /\ UNCHANGED <<flushVars, mapVars, chan, handlerVars>>

\* Faulty: Store leaves the flush to the next one.
StoreCommitWithoutFlush(w, S) ==
  /\ pc[w] = "idle"
  /\ \A j \in S : row[j] < MaxChanges
  /\ row' = [j \in Jobs |-> IF j \in S THEN row[j] + 1 ELSE row[j]]
  /\ events' = events \cup S
  /\ Goto(w, IF S = {} THEN "select" ELSE "idle")
  /\ UNCHANGED <<flushVars, mapVars, chan, handlerVars>>

StoreCommit(w, S) ==
  /\ pc[w] = "idle"
  /\ \A j \in S : row[j] < MaxChanges
  /\ \A v \in Writers : S \cap doomed[v] = {}
  /\ row' = [j \in Jobs |-> IF j \in S THEN row[j] + 1 ELSE row[j]]
  /\ events' = events \cup S
  /\ Goto(w, "select")
  /\ UNCHANGED <<flushVars, mapVars, chan, handlerVars>>

-----------------------------------------------------------------------------
(***************************************************************************)
(* flushJobStatusSubscriptions: a READ COMMITTED transaction that selects  *)
(* and then deletes the events, one query per job, then the sends under    *)
(* the lock.                                                               *)
(***************************************************************************)
\* SELECT job_id FROM job_status_events: sees what is committed, hence also
\* the events another transaction is deleting.
FlushSelect(w) ==
  /\ pc[w] = "select"
  /\ ids' = [ids EXCEPT ![w] = events]
  /\ Goto(w, "delete")
  /\ UNCHANGED <<dbVars, doomed, found, outbox, target, mapVars, chan, handlerVars>>

\* DELETE FROM job_status_events: a statement with a snapshot of its own.  It
\* waits for the rows another transaction is deleting; an event that commits
\* while it waits may or may not be in its snapshot.
FlushDelete(w) ==
  /\ pc[w] = "delete"
  /\ \A v \in Writers \ {w} : doomed[v] = {}
  /\ \E D \in SUBSET events :
       /\ ids[w] \cap events \subseteq D
       /\ doomed' = [doomed EXCEPT ![w] = D]
  /\ Goto(w, "commit")
  /\ UNCHANGED <<dbVars, ids, found, outbox, target, mapVars, chan, handlerVars>>

\* Faulty: the events are read but not deleted.
FlushCommitKeepsEvents(w) ==
  /\ pc[w] = "commit"
  /\ doomed' = [doomed EXCEPT ![w] = {}]
  /\ Goto(w, "find")
  /\ UNCHANGED <<dbVars, ids, found, outbox, target, mapVars, chan, handlerVars>>

FlushCommit(w) ==
  /\ pc[w] = "commit"
  /\ events' = events \ doomed[w]
  /\ doomed' = [doomed EXCEPT ![w] = {}]
  /\ Goto(w, "find")
  /\ UNCHANGED <<row, ids, found, outbox, target, mapVars, chan, handlerVars>>

\* A failed commit is logged by the deferred finalizer and changes nothing else.
FlushCommitFails(w) ==
  /\ MayFail
  /\ pc[w] = "commit"
  /\ doomed' = [doomed EXCEPT ![w] = {}]
  /\ Goto(w, "find")
  /\ UNCHANGED <<dbVars, ids, found, outbox, target, mapVars, chan, handlerVars>>

\* The select or the delete fails, or the 10 s context expires: Store returns
\* the error.
FlushFails(w) ==
  /\ MayFail
  /\ pc[w] \in {"select", "delete"}
  /\ ids' = [ids EXCEPT ![w] = {}]
  /\ Goto(w, "idle")
  /\ UNCHANGED <<dbVars, doomed, found, outbox, target, mapVars, chan, handlerVars>>

\* FindOne(j), a query outside the transaction.
FlushFindOne(w, j) ==
  /\ pc[w] = "find"
  /\ j \in ids[w]
  /\ found' = [found EXCEPT ![w] = @ \cup {[job |-> j, ver |-> row[j]]}]
  /\ ids' = [ids EXCEPT ![w] = @ \ {j}]
  /\ UNCHANGED <<dbVars, pc, doomed, outbox, target, mapVars, chan, handlerVars>>

\* FindOne fails: the job is skipped.
FlushSkips(w, j) ==
  /\ MayFail
  /\ pc[w] = "find"
  /\ j \in ids[w]
  /\ ids' = [ids EXCEPT ![w] = @ \ {j}]
  /\ UNCHANGED <<dbVars, pc, doomed, found, outbox, target, mapVars, chan, handlerVars>>

\* Faulty: every subscriber is sent every job.
AddressedToAll(statuses) ==
  {m \in [to : Handlers, job : {r.job : r \in statuses}, ver : {r.ver : r \in statuses}] :
      m.to \in UNION {subscribers[j] : j \in Jobs} /\ [job |-> m.job, ver |-> m.ver] \in statuses}

\* One message per job found and channel subscribed to it.
Addressed(statuses) ==
  {m \in [to : Handlers, job : {r.job : r \in statuses}, ver : {r.ver : r \in statuses}] :
      m.to \in subscribers[m.job] /\ [job |-> m.job, ver |-> m.ver] \in statuses}

\* The lock is taken for the whole loop of sends.
FlushLock(w) ==
  /\ pc[w] = "find" /\ ids[w] = {}
  /\ lock = NoOne
  /\ lock' = w
  /\ outbox' = [outbox EXCEPT ![w] = Addressed(found[w])]
  /\ found' = [found EXCEPT ![w] = {}]
  /\ Goto(w, "pick")
  /\ UNCHANGED <<dbVars, ids, doomed, target, subscribers, chan, handlerVars>>

FlushPick(w) ==
  /\ pc[w] = "pick"
  /\ \E m \in outbox[w] : target' = [target EXCEPT ![w] = m]
  /\ Goto(w, "push")
  /\ UNCHANGED <<dbVars, ids, doomed, found, outbox, mapVars, chan, handlerVars>>

\* Faulty: the channel takes one more than its capacity.
FlushPushOverfull(w) ==
  LET m == target[w] IN
  /\ pc[w] = "push"
  /\ Len(chan[m.to]) <= ChanCap
  /\ chan' = [chan EXCEPT ![m.to] = Append(@, m.ver)]
  /\ outbox' = [outbox EXCEPT ![w] = @ \ {m}]
  /\ target' = [target EXCEPT ![w] = NoOne]
  /\ Goto(w, "pick")
  /\ UNCHANGED <<dbVars, ids, doomed, found, mapVars, handlerVars>>

\* channel <- job_status blocks while the buffer is full.
FlushPush(w) ==
  LET m == target[w] IN
  /\ pc[w] = "push"
  /\ Len(chan[m.to]) < ChanCap
  /\ chan' = [chan EXCEPT ![m.to] = Append(@, m.ver)]
  /\ outbox' = [outbox EXCEPT ![w] = @ \ {m}]
  /\ target' = [target EXCEPT ![w] = NoOne]
  /\ Goto(w, "pick")
  /\ UNCHANGED <<dbVars, ids, doomed, found, mapVars, handlerVars>>

\* Faulty: the flush returns without unlocking when it has sent nothing.
FlushUnlockForgotten(w) ==
  /\ pc[w] = "pick" /\ outbox[w] = {}
  /\ lock' = IF \E h \in Handlers : chan[h] # <<>> THEN NoOne ELSE lock
  /\ Goto(w, "idle")
  /\ UNCHANGED <<dbVars, flushVars, subscribers, chan, handlerVars>>

FlushUnlock(w) ==
  /\ pc[w] = "pick" /\ outbox[w] = {}
  /\ lock' = NoOne
  /\ Goto(w, "idle")
  /\ UNCHANGED <<dbVars, flushVars, subscribers, chan, handlerVars>>

-----------------------------------------------------------------------------
(***************************************************************************)
(* SubscribeToJobEvent, the websocket handler.                             *)
(***************************************************************************)
\* SubscribeToJobStatus: a new empty channel is registered under the lock.
Subscribe(h, j) ==
  /\ hpc[h] = "closed"
  /\ lock = NoOne
  /\ subscribers' = [subscribers EXCEPT ![j] = @ \cup {h}]
  /\ hpc' = [hpc EXCEPT ![h] = "find"]
  /\ watch' = [watch EXCEPT ![h] = j]
  /\ open' = [open EXCEPT ![h] = TRUE]
  /\ UNCHANGED <<dbVars, pc, flushVars, lock, chan, prev, shown>>

\* The initial FindOne: its status is sent at once, if there is one.
InitialFindOne(h) ==
  /\ hpc[h] = "find"
  /\ \E v \in {row[watch[h]]} \cup (IF MayFail THEN {0} ELSE {}) :
       /\ prev' = [prev EXCEPT ![h] = v]
       /\ hpc' = [hpc EXCEPT ![h] = IF v = 0 THEN "loop" ELSE "write"]
  /\ UNCHANGED <<dbVars, pc, flushVars, mapVars, chan, watch, open, shown>>

\* The select takes an event from the channel ...
Receive(h) ==
  /\ hpc[h] = "loop"
  /\ chan[h] # <<>>
  /\ prev' = [prev EXCEPT ![h] = Head(chan[h])]
  /\ chan' = [chan EXCEPT ![h] = Tail(@)]
  /\ hpc' = [hpc EXCEPT ![h] = "write"]
  /\ UNCHANGED <<dbVars, pc, flushVars, mapVars, watch, open, shown>>

\* Faulty: nothing is sent while the job is unknown.
KeepaliveOfKnownJob(h) ==
  /\ hpc[h] = "loop"
  /\ chan[h] = <<>> /\ prev[h] # 0
  /\ hpc' = [hpc EXCEPT ![h] = "write"]
  /\ UNCHANGED <<dbVars, pc, flushVars, mapVars, chan, watch, open, prev, shown>>

\* ... or, after 5 s without one, sends the previous status again.
Keepalive(h) ==
  /\ hpc[h] = "loop"
  /\ chan[h] = <<>>
  /\ hpc' = [hpc EXCEPT ![h] = "write"]
  /\ UNCHANGED <<dbVars, pc, flushVars, mapVars, chan, watch, open, prev, shown>>

\* WriteMessage of previous_status; of an empty text when that is nil.
WriteOk(h) ==
  /\ hpc[h] = "write"
  /\ open[h]
  /\ shown' = [shown EXCEPT ![h] = IF prev[h] = 0 THEN @ ELSE prev[h]]
  /\ hpc' = [hpc EXCEPT ![h] = "loop"]
  /\ UNCHANGED <<dbVars, pc, flushVars, mapVars, chan, watch, open, prev>>

\* The socket is closed, or the client does not take the message in 5 s: the
\* handler returns.
WriteFails(h) ==
  /\ hpc[h] = "write"
  /\ hpc' = [hpc EXCEPT ![h] = "exit"]
  /\ UNCHANGED <<dbVars, pc, flushVars, mapVars, chan, watch, open, prev, shown>>

\* The reader goroutine's ReadMessage returns, and it closes the websocket.
ReaderCloses(h) ==
  /\ hpc[h] # "closed" /\ open[h]
  /\ open' = [open EXCEPT ![h] = FALSE]
  /\ UNCHANGED <<dbVars, pc, flushVars, mapVars, chan, hpc, watch, prev, shown>>

\* A handler that returns takes its channel and its websocket with it.
Ended(h) ==
  /\ hpc' = [hpc EXCEPT ![h] = "closed"]
  /\ watch' = [watch EXCEPT ![h] = Nobody]
  /\ open' = [open EXCEPT ![h] = FALSE]
  /\ chan' = [chan EXCEPT ![h] = <<>>]
  /\ prev' = [prev EXCEPT ![h] = 0]
  /\ shown' = [shown EXCEPT ![h] = 0]

\* Faulty: the handler returns and its channel stays in the map.
UnsubscribeLeaks(h) ==
  /\ hpc[h] = "exit"
  /\ Ended(h)
  /\ UNCHANGED <<dbVars, pc, flushVars, mapVars>>

\* Faulty: the subscription is removed without taking the lock.
UnsubscribeUnlocked(h) ==
  /\ hpc[h] = "exit"
  /\ subscribers' = [subscribers EXCEPT ![watch[h]] = @ \ {h}]
  /\ Ended(h)
  /\ UNCHANGED <<dbVars, pc, flushVars, lock>>

\* The deferred unsubscribe, which needs the lock, and the end of the handler.
Unsubscribe(h) ==
  /\ hpc[h] = "exit"
  /\ lock = NoOne
  /\ subscribers' = [subscribers EXCEPT ![watch[h]] = @ \ {h}]
  /\ Ended(h)
  /\ UNCHANGED <<dbVars, pc, flushVars, lock>>

-----------------------------------------------------------------------------
\* The process dies and is started again; open transactions are rolled back.
Crash ==
  /\ pc' = Idle
  /\ ids' = Nothing /\ doomed' = Nothing /\ found' = Nothing /\ outbox' = Nothing
  /\ target' = [w \in Writers |-> NoOne]
  /\ lock' = NoOne
  /\ subscribers' = [j \in Jobs |-> {}]
  /\ chan' = [h \in Handlers |-> <<>>]
  /\ hpc' = [h \in Handlers |-> "closed"]
  /\ watch' = [h \in Handlers |-> Nobody]
  /\ open' = [h \in Handlers |-> FALSE]
  /\ prev' = [h \in Handlers |-> 0]
  /\ shown' = [h \in Handlers |-> 0]
  /\ UNCHANGED dbVars

FlushStep(w) ==
  \/ FlushSelect(w) \/ FlushDelete(w)
  \/ FlushCommit(w) \/ FlushCommitFails(w) \/ FlushFails(w)
  \/ \E j \in Jobs : FlushFindOne(w, j) \/ FlushSkips(w, j)
  \/ FlushPick(w) \/ FlushPush(w) \/ FlushUnlock(w)

HandlerStep(h) ==
  \/ InitialFindOne(h) \/ Receive(h) \/ Keepalive(h)
  \/ WriteOk(h) \/ WriteFails(h)

Next ==
  \/ \E w \in Writers :
       (\E S \in SUBSET Jobs : StoreCommit(w, S)) \/ FlushStep(w) \/ FlushLock(w)
  \/ \E h \in Handlers :
       (\E j \in Jobs : Subscribe(h, j)) \/ HandlerStep(h) \/ ReaderCloses(h)
                                         \/ Unsubscribe(h)
  \/ Crash

Spec == Init /\ [][Next]_vars

\* Goroutines are scheduled fairly, their database calls and websocket writes
\* return (the flush's transaction and the writes have deadlines, FindOne has
\* none), and a goroutine that waits for a Go mutex gets it in the end however
\* often others take it before (hence SF for the two steps that wait for it).  Nothing forces a change, a client or a crash.
FairSpec == /\ Spec
            /\ \A w \in Writers : WF_vars(FlushStep(w)) /\ SF_vars(FlushLock(w))
            /\ \A h \in Handlers : WF_vars(HandlerStep(h)) /\ SF_vars(Unsubscribe(h))

-----------------------------------------------------------------------------
(***************************************************************************)
(* Properties.                                                             *)
(***************************************************************************)
TypeOK ==
  /\ row \in [Jobs -> 0..MaxChanges]
  /\ events \subseteq Jobs
  /\ pc \in [Writers -> {"idle", "select", "delete", "commit", "find", "pick", "push"}]
  /\ ids \in [Writers -> SUBSET Jobs]
  /\ doomed \in [Writers -> SUBSET Jobs]
  /\ found \in [Writers -> SUBSET [job : Jobs, ver : Nat]]
  /\ outbox \in [Writers -> SUBSET Messages]
  /\ target \in [Writers -> Messages \cup {NoOne}]
  /\ lock \in Writers \cup {NoOne}
  /\ subscribers \in [Jobs -> SUBSET Handlers]
  /\ chan \in [Handlers -> Seq(Nat)] /\ \A h \in Handlers : Len(chan[h]) <= ChanCap
  /\ hpc \in [Handlers -> {"closed", "find", "write", "loop", "exit"}]
  /\ watch \in [Handlers -> Jobs \cup {Nobody}]
  /\ open \in [Handlers -> BOOLEAN]
  /\ prev \in [Handlers -> Nat]
  /\ shown \in [Handlers -> Nat]

\* The subscriber map holds exactly the running handlers, each under the job it
\* was asked for: what "memory will leak" in SubscribeToJobStatus warns of.
SubscriptionsMatchHandlers ==
  \A h \in Handlers, j \in Jobs :
    h \in subscribers[j] <=> hpc[h] # "closed" /\ watch[h] = j

\* A flush in the middle of its sends only has messages for handlers that still
\* run and watch the job of the message: no send goes to a channel nobody will
\* read and to no other job's watcher.
SendsOnlyToRegistered ==
  \A w \in Writers : \A m \in outbox[w] :
    hpc[m.to] # "closed" /\ watch[m.to] = m.job

\* The newest version a handler has been sent or has read itself.
Newest(h) == IF chan[h] = <<>> THEN prev[h] ELSE Last(chan[h])

\* A flush has still to bring the current version of j to h.
Carries(w, j, h) ==
  \/ pc[w] \in {"delete", "commit", "find"} /\ j \in ids[w]
  \/ [job |-> j, ver |-> row[j]] \in found[w]
  \/ [to |-> h, job |-> j, ver |-> row[j]] \in outbox[w]

\* Once a handler has read its job or has been sent a version of it, the current
\* version is its newest, or an event or a flush that will bring it is under
\* way: no status change is lost between the database and a subscriber.
EveryChangeAccountedFor ==
  \A h \in Handlers :
    hpc[h] # "closed" /\ (hpc[h] # "find" \/ chan[h] # <<>>) =>
      \/ Newest(h) = row[watch[h]]
      \/ watch[h] \in events
      \/ \E w \in Writers : Carries(w, watch[h], h)

\* A subscriber's channel holds a job's versions in the order they were committed.
ChannelInOrder ==
  \A h \in Handlers : \A i, k \in 1..Len(chan[h]) : i < k => chan[h][i] < chan[h][k]

\* What clients are shown is what the abstract feed allows: the feed sees the
\* committed versions, who watches, and what has been written to a websocket, and
\* takes everything between the two for stuttering.
Feed == INSTANCE StatusFeed WITH row <- row, watch <- watch, shown <- shown
FeedSpec == Feed!Spec

\* A watching client is shown the current status again and again, or stops
\* watching: whatever the interleaving of commits, flush and handler.
SubscriberCatchesUp ==
  \A h \in Handlers : []<>(hpc[h] = "closed" \/ shown[h] = row[watch[h]])

\* A handler whose websocket is closed ends and gives up its subscription.
ClosedIsReaped ==
  \A h \in Handlers : (hpc[h] # "closed" /\ ~open[h]) ~> (hpc[h] = "closed")

\* Every Store and StaleOldJobs returns from its flush.
FlushCompletes == \A w \in Writers : (pc[w] # "idle") ~> (pc[w] = "idle")
=============================================================================
