------------------------- MODULE StatusNotifyProofs -------------------------
(***************************************************************************)
(* Proofs about StatusNotify, for any number of jobs, storers, handlers,   *)
(* any channel capacity and any number of changes.                         *)
(***************************************************************************)
EXTENDS StatusNotify, TLAPS

-----------------------------------------------------------------------------
(***************************************************************************)
(* The inductive invariant.                                                *)
(***************************************************************************)
\* What a storer is sending is one of the messages it has still to send.
TargetInv == \A w \in Writers : pc[w] = "push" => target[w] \in outbox[w]

\* The lock is held by the storer in its sends and by no other one; only that
\* storer has messages to send.
LockInv ==
  \A w \in Writers :
    /\ pc[w] \in {"pick", "push"} <=> lock = w
    /\ lock # w => outbox[w] = {}

\* Exactly the running handlers watch a job.
WatchInv == \A h \in Handlers : hpc[h] = "closed" <=> watch[h] = Nobody

IInv == /\ TypeOK
        /\ TargetInv
        /\ LockInv
        /\ WatchInv
        /\ SubscriptionsMatchHandlers
        /\ SendsOnlyToRegistered

-----------------------------------------------------------------------------
\* The initial state satisfies the invariant.
LEMMA InitIInv == Init => IInv
  BY NoOneIsNoWriter, NobodyIsNoJob, ChanCapPositive, MaxChangesIsNat
  DEF Init, IInv, TypeOK, TargetInv, LockInv, WatchInv, SubscriptionsMatchHandlers,
      SendsOnlyToRegistered, Idle, Nothing, Messages

\* Every step preserves the types.
LEMMA TypeStep == IInv /\ [Next]_vars => TypeOK'
<1> SUFFICES ASSUME IInv, [Next]_vars PROVE TypeOK'
  OBVIOUS
<1> USE MaxChangesIsNat, ChanCapPositive DEF IInv, TypeOK, dbVars, flushVars, mapVars, handlerVars
<1>1. ASSUME NEW w \in Writers, NEW S \in SUBSET Jobs, StoreCommit(w, S) PROVE TypeOK'
  BY <1>1 DEF StoreCommit, Goto
<1>2. ASSUME NEW w \in Writers, FlushSelect(w) PROVE TypeOK'
  BY <1>2 DEF FlushSelect, Goto
<1>3. ASSUME NEW w \in Writers, FlushDelete(w) PROVE TypeOK'
  BY <1>3 DEF FlushDelete, Goto
<1>4. ASSUME NEW w \in Writers, FlushCommit(w) PROVE TypeOK'
  BY <1>4 DEF FlushCommit, Goto
<1>5. ASSUME NEW w \in Writers, FlushCommitFails(w) PROVE TypeOK'
  BY <1>5 DEF FlushCommitFails, Goto
<1>6. ASSUME NEW w \in Writers, FlushFails(w) PROVE TypeOK'
  BY <1>6 DEF FlushFails, Goto
<1>7. ASSUME NEW w \in Writers, NEW j \in Jobs, FlushFindOne(w, j) PROVE TypeOK'
  BY <1>7 DEF FlushFindOne
<1>8. ASSUME NEW w \in Writers, NEW j \in Jobs, FlushSkips(w, j) PROVE TypeOK'
  BY <1>8 DEF FlushSkips
<1>9. ASSUME NEW w \in Writers, FlushLock(w) PROVE TypeOK'
  <2>1. Addressed(found[w]) \subseteq Messages
    BY DEF Addressed, Messages
  <2> QED
    BY <1>9, <2>1 DEF FlushLock, Goto
<1>10. ASSUME NEW w \in Writers, FlushPick(w) PROVE TypeOK'
  BY <1>10 DEF FlushPick, Goto
<1>11. ASSUME NEW w \in Writers, FlushPush(w) PROVE TypeOK'
  <2> DEFINE m == target[w]
  <2>1. m \in Messages
    BY <1>11 DEF FlushPush, TargetInv
  <2>2. /\ m.to \in Handlers
        /\ m.ver \in Nat
    BY <2>1 DEF Messages
  <2>3. /\ chan' \in [Handlers -> Seq(Nat)]
        /\ \A h \in Handlers : Len(chan'[h]) <= ChanCap
    BY <1>11, <2>2 DEF FlushPush
  <2> QED
    BY <1>11, <2>3 DEF FlushPush, Goto
<1>12. ASSUME NEW w \in Writers, FlushUnlock(w) PROVE TypeOK'
  BY <1>12 DEF FlushUnlock, Goto
<1>13. ASSUME NEW h \in Handlers, NEW j \in Jobs, Subscribe(h, j) PROVE TypeOK'
  BY <1>13 DEF Subscribe
<1>14. ASSUME NEW h \in Handlers, InitialFindOne(h) PROVE TypeOK'
  BY <1>14 DEF InitialFindOne, WatchInv
<1>15. ASSUME NEW h \in Handlers, Receive(h) PROVE TypeOK'
  BY <1>15 DEF Receive
<1>16. ASSUME NEW h \in Handlers, Keepalive(h) PROVE TypeOK'
  BY <1>16 DEF Keepalive
<1>17. ASSUME NEW h \in Handlers, WriteOk(h) PROVE TypeOK'
  BY <1>17 DEF WriteOk
<1>18. ASSUME NEW h \in Handlers, WriteFails(h) PROVE TypeOK'
  BY <1>18 DEF WriteFails
<1>19. ASSUME NEW h \in Handlers, ReaderCloses(h) PROVE TypeOK'
  BY <1>19 DEF ReaderCloses
<1>20. ASSUME NEW h \in Handlers, Unsubscribe(h) PROVE TypeOK'
  <2>1. watch[h] \in Jobs
    BY <1>20 DEF Unsubscribe, WatchInv
  <2> QED
    BY <1>20, <2>1 DEF Unsubscribe, Ended
<1>21. CASE Crash
  BY <1>21 DEF Crash, Idle, Nothing
<1>22. CASE UNCHANGED vars
  BY <1>22 DEF vars
<1> QED
  BY <1>1, <1>2, <1>3, <1>4, <1>5, <1>6, <1>7, <1>8, <1>9, <1>10, <1>11, <1>12,
     <1>13, <1>14, <1>15, <1>16, <1>17, <1>18, <1>19, <1>20, <1>21, <1>22
  DEF Next, FlushStep, HandlerStep

\* The steps that move neither a storer in its sends, its messages nor the lock.
LEMMA LockStep == IInv /\ [Next]_vars => TargetInv' /\ LockInv'
<1> SUFFICES ASSUME IInv, [Next]_vars PROVE TargetInv' /\ LockInv'
  OBVIOUS
<1> USE NoOneIsNoWriter DEF IInv, TypeOK, TargetInv, LockInv, dbVars, flushVars, mapVars, handlerVars
<1>1. ASSUME NEW w \in Writers,
             \/ \E S \in SUBSET Jobs : StoreCommit(w, S)
             \/ FlushSelect(w) \/ FlushDelete(w)
             \/ FlushCommit(w) \/ FlushCommitFails(w) \/ FlushFails(w)
             \/ \E j \in Jobs : FlushFindOne(w, j) \/ FlushSkips(w, j)
      PROVE  TargetInv' /\ LockInv'
  <2>1. /\ lock' = lock /\ outbox' = outbox /\ target' = target
        /\ pc[w] \notin {"pick", "push"} /\ pc'[w] \notin {"pick", "push"}
        /\ \A v \in Writers \ {w} : pc'[v] = pc[v]
    BY <1>1 DEF StoreCommit, FlushSelect, FlushDelete, FlushCommit, FlushCommitFails,
                FlushFails, FlushFindOne, FlushSkips, Goto
  <2> QED
    BY <2>1
<1>2. ASSUME NEW w \in Writers, FlushLock(w) PROVE TargetInv' /\ LockInv'
  BY <1>2 DEF FlushLock, Goto
<1>3. ASSUME NEW w \in Writers, FlushPick(w) PROVE TargetInv' /\ LockInv'
  BY <1>3 DEF FlushPick, Goto
<1>4. ASSUME NEW w \in Writers, FlushPush(w) PROVE TargetInv' /\ LockInv'
  BY <1>4 DEF FlushPush, Goto
<1>5. ASSUME NEW w \in Writers, FlushUnlock(w) PROVE TargetInv' /\ LockInv'
  BY <1>5 DEF FlushUnlock, Goto
<1>6. ASSUME NEW h \in Handlers,
             \/ \E j \in Jobs : Subscribe(h, j)
             \/ HandlerStep(h) \/ ReaderCloses(h) \/ Unsubscribe(h)
      PROVE  TargetInv' /\ LockInv'
  <2>1. UNCHANGED <<pc, lock, outbox, target>>
    BY <1>6 DEF HandlerStep, Subscribe, InitialFindOne, Receive, Keepalive, WriteOk,
                WriteFails, ReaderCloses, Unsubscribe
  <2> QED
    BY <2>1
<1>7. CASE Crash
  BY <1>7 DEF Crash, Idle, Nothing
<1>8. CASE UNCHANGED vars
  BY <1>8 DEF vars
<1> QED
  BY <1>1, <1>2, <1>3, <1>4, <1>5, <1>6, <1>7, <1>8 DEF Next, FlushStep

\* Handlers and the subscriber map change together.
LEMMA SubscriberStep ==
  IInv /\ [Next]_vars => WatchInv' /\ SubscriptionsMatchHandlers'
<1> SUFFICES ASSUME IInv, [Next]_vars PROVE WatchInv' /\ SubscriptionsMatchHandlers'
  OBVIOUS
<1> USE NobodyIsNoJob DEF IInv, TypeOK, WatchInv, SubscriptionsMatchHandlers,
                          dbVars, flushVars, mapVars, handlerVars
<1>1. ASSUME NEW w \in Writers,
             (\E S \in SUBSET Jobs : StoreCommit(w, S)) \/ FlushStep(w) \/ FlushLock(w)
      PROVE  WatchInv' /\ SubscriptionsMatchHandlers'
  <2>1. UNCHANGED <<hpc, watch, subscribers>>
    BY <1>1 DEF FlushStep, StoreCommit, FlushSelect, FlushDelete, FlushCommit,
                FlushCommitFails, FlushFails, FlushFindOne, FlushSkips, FlushLock,
                FlushPick, FlushPush, FlushUnlock
  <2> QED
    BY <2>1
<1>2. ASSUME NEW h \in Handlers, NEW j \in Jobs, Subscribe(h, j)
      PROVE  WatchInv' /\ SubscriptionsMatchHandlers'
  BY <1>2 DEF Subscribe
<1>3. ASSUME NEW h \in Handlers, HandlerStep(h) \/ ReaderCloses(h)
      PROVE  WatchInv' /\ SubscriptionsMatchHandlers'
  <2>1. /\ UNCHANGED <<watch, subscribers>>
        /\ \A g \in Handlers : hpc'[g] = "closed" <=> hpc[g] = "closed"
    BY <1>3 DEF HandlerStep, InitialFindOne, Receive, Keepalive, WriteOk, WriteFails,
                ReaderCloses
  <2> QED
    BY <2>1
<1>4. ASSUME NEW h \in Handlers, Unsubscribe(h)
      PROVE  WatchInv' /\ SubscriptionsMatchHandlers'
  BY <1>4 DEF Unsubscribe, Ended
<1>5. CASE Crash
  BY <1>5 DEF Crash
<1>6. CASE UNCHANGED vars
  BY <1>6 DEF vars
<1> QED
  BY <1>1, <1>2, <1>3, <1>4, <1>5, <1>6 DEF Next

\* While a storer has messages it holds the lock, so no handler comes or goes.
LEMMA OutboxStep == IInv /\ [Next]_vars => SendsOnlyToRegistered'
<1> SUFFICES ASSUME IInv, [Next]_vars PROVE SendsOnlyToRegistered'
  OBVIOUS
<1> USE DEF IInv, TypeOK, SendsOnlyToRegistered, dbVars, flushVars, mapVars, handlerVars
<1>1. ASSUME NEW w \in Writers,
             (\E S \in SUBSET Jobs : StoreCommit(w, S)) \/ FlushStep(w)
      PROVE  SendsOnlyToRegistered'
  <2>1. /\ UNCHANGED <<hpc, watch>>
        /\ \A v \in Writers : outbox'[v] \subseteq outbox[v]
    BY <1>1 DEF FlushStep, StoreCommit, FlushSelect, FlushDelete, FlushCommit,
                FlushCommitFails, FlushFails, FlushFindOne, FlushSkips,
                FlushPick, FlushPush, FlushUnlock
  <2> QED
    BY <2>1 DEF Messages
<1>2. ASSUME NEW w \in Writers, FlushLock(w) PROVE SendsOnlyToRegistered'
  <2>1. \A m \in Addressed(found[w]) :
          m.to \in Handlers /\ m.job \in Jobs /\ m.to \in subscribers[m.job]
    BY DEF Addressed
  <2>2. \A m \in Addressed(found[w]) : hpc[m.to] # "closed" /\ watch[m.to] = m.job
    BY <2>1 DEF SubscriptionsMatchHandlers
  <2> QED
    BY <1>2, <2>2 DEF FlushLock
<1>3. ASSUME NEW h \in Handlers, (\E j \in Jobs : Subscribe(h, j)) \/ Unsubscribe(h)
      PROVE  SendsOnlyToRegistered'
  <2>1. lock = NoOne /\ outbox' = outbox
    BY <1>3 DEF Subscribe, Unsubscribe
  <2>2. \A w \in Writers : outbox[w] = {}
    BY <2>1, NoOneIsNoWriter DEF LockInv
  <2> QED
    BY <2>1, <2>2
<1>4. ASSUME NEW h \in Handlers, HandlerStep(h) \/ ReaderCloses(h)
      PROVE  SendsOnlyToRegistered'
  <2>1. /\ UNCHANGED <<watch, outbox>>
        /\ \A g \in Handlers : hpc'[g] = "closed" <=> hpc[g] = "closed"
    BY <1>4 DEF HandlerStep, InitialFindOne, Receive, Keepalive, WriteOk, WriteFails,
                ReaderCloses
  <2> QED
    BY <2>1 DEF Messages
<1>5. CASE Crash
  BY <1>5 DEF Crash, Nothing
<1>6. CASE UNCHANGED vars
  BY <1>6 DEF vars
<1> QED
  BY <1>1, <1>2, <1>3, <1>4, <1>5, <1>6 DEF Next

LEMMA NextIInv == IInv /\ [Next]_vars => IInv'
  BY TypeStep, LockStep, SubscriberStep, OutboxStep DEF IInv

LEMMA Inductive == Spec => []IInv
  BY InitIInv, NextIInv, PTL DEF Spec

-----------------------------------------------------------------------------
(***************************************************************************)
(* Theorems.                                                               *)
(***************************************************************************)
\* Every variable keeps its type, and no channel exceeds its capacity.
THEOREM TypeCorrect == Spec => []TypeOK
<1>1. IInv => TypeOK
  BY DEF IInv
<1> QED
  BY <1>1, Inductive, PTL

\* The map of SubscribeToJobStatus holds exactly the running handlers.
THEOREM SubscriptionsCorrect == Spec => []SubscriptionsMatchHandlers
<1>1. IInv => SubscriptionsMatchHandlers
  BY DEF IInv
<1> QED
  BY <1>1, Inductive, PTL

\* However handlers come and go, flushJobStatusSubscriptions sends only to
\* handlers that run and watch the job.
THEOREM SendsCorrect == Spec => []SendsOnlyToRegistered
<1>1. IInv => SendsOnlyToRegistered
  BY DEF IInv
<1> QED
  BY <1>1, Inductive, PTL

-----------------------------------------------------------------------------
(***************************************************************************)
(* The notifications implement the abstract feed.                          *)
(***************************************************************************)
\* No reading of a job is newer than the job; a handler that does not run has
\* no reading.
NoFuture ==
  /\ \A w \in Writers : \A r \in found[w] : r.ver <= row[r.job]
  /\ \A w \in Writers : \A m \in outbox[w] : m.ver <= row[m.job]
  /\ \A h \in Handlers :
       /\ hpc[h] # "closed" =>
            /\ prev[h] <= row[watch[h]]
            /\ \A i \in 1..Len(chan[h]) : chan[h][i] <= row[watch[h]]
       /\ hpc[h] = "closed" => chan[h] = <<>> /\ prev[h] = 0

LEMMA InitNoFuture == Init => NoFuture
  BY DEF Init, NoFuture, Nothing

LEMMA NoFutureStep == IInv /\ NoFuture /\ [Next]_vars => NoFuture'
<1> SUFFICES ASSUME IInv, NoFuture, [Next]_vars PROVE NoFuture'
  OBVIOUS
<1> USE MaxChangesIsNat, NobodyIsNoJob
    DEF IInv, TypeOK, NoFuture, WatchInv, dbVars, flushVars, mapVars, handlerVars
<1>1. ASSUME NEW w \in Writers, NEW S \in SUBSET Jobs, StoreCommit(w, S) PROVE NoFuture'
  <2>1. /\ \A j \in Jobs : row[j] <= row'[j]
        /\ UNCHANGED <<found, outbox, chan, hpc, watch, prev>>
    BY <1>1 DEF StoreCommit
  <2>2. \A j \in Jobs : row[j] \in Nat /\ row'[j] \in Nat
    BY <1>1 DEF StoreCommit
  <2>3. \A h \in Handlers : hpc[h] # "closed" => watch[h] \in Jobs
    OBVIOUS
  <2>4. \A v \in Writers : \A r \in found[v] : r.ver \in Nat /\ r.job \in Jobs
    OBVIOUS
  <2>5. \A v \in Writers : \A m \in outbox[v] : m.ver \in Nat /\ m.job \in Jobs
    BY DEF Messages
  <2>6. \A h \in Handlers : prev[h] \in Nat /\ \A i \in 1..Len(chan[h]) : chan[h][i] \in Nat
    OBVIOUS
  <2>7. \A v \in Writers : \A r \in found'[v] : r.ver <= row'[r.job]
    BY <2>1, <2>2, <2>4
  <2>8. \A v \in Writers : \A m \in outbox'[v] : m.ver <= row'[m.job]
    BY <2>1, <2>2, <2>5
  <2>9. \A h \in Handlers : hpc'[h] # "closed" =>
            /\ prev'[h] <= row'[watch'[h]]
            /\ \A i \in 1..Len(chan'[h]) : chan'[h][i] <= row'[watch'[h]]
    BY <2>1, <2>2, <2>3, <2>6
  <2> QED
    BY <2>1, <2>7, <2>8, <2>9
<1>2. ASSUME NEW w \in Writers,
             \/ FlushSelect(w) \/ FlushDelete(w)
             \/ FlushCommit(w) \/ FlushCommitFails(w) \/ FlushFails(w)
             \/ \E j \in Jobs : FlushSkips(w, j)
             \/ FlushPick(w) \/ FlushUnlock(w)
      PROVE  NoFuture'
  <2>1. UNCHANGED <<row, found, outbox, chan, hpc, watch, prev>>
    BY <1>2 DEF FlushSelect, FlushDelete, FlushCommit, FlushCommitFails, FlushFails,
                FlushSkips, FlushPick, FlushUnlock
  <2> QED
    BY <2>1
<1>3. ASSUME NEW w \in Writers, NEW j \in Jobs, FlushFindOne(w, j) PROVE NoFuture'
  <2>1. UNCHANGED <<row, outbox, chan, hpc, watch, prev>>
    BY <1>3 DEF FlushFindOne
  <2>2. \A v \in Writers : \A r \in found'[v] : r \in found[v] \/ r = [job |-> j, ver |-> row[j]]
    BY <1>3 DEF FlushFindOne
  <2>3. row[j] <= row[j]
    OBVIOUS
  <2>4. \A v \in Writers : \A r \in found'[v] : r.ver <= row'[r.job]
    BY <2>1, <2>2, <2>3
  <2> QED
    BY <2>1, <2>4
<1>4. ASSUME NEW w \in Writers, FlushLock(w) PROVE NoFuture'
  <2>1. \A m \in Addressed(found[w]) : m.ver <= row[m.job]
    BY DEF Addressed
  <2> QED
    BY <1>4, <2>1 DEF FlushLock
<1>5. ASSUME NEW w \in Writers, FlushPush(w) PROVE NoFuture'
  <2> DEFINE m == target[w]
  <2>1. m \in outbox[w]
    BY <1>5 DEF FlushPush, TargetInv
  <2>2. /\ m.to \in Handlers /\ m.ver \in Nat /\ m.ver <= row[m.job]
        /\ hpc[m.to] # "closed" /\ watch[m.to] = m.job
    BY <2>1 DEF Messages, SendsOnlyToRegistered
  <2>3. /\ UNCHANGED <<row, found, hpc, watch, prev>>
        /\ chan' = [chan EXCEPT ![m.to] = Append(@, m.ver)]
        /\ \A v \in Writers : outbox'[v] \subseteq outbox[v]
    BY <1>5 DEF FlushPush
  <2>4. \A h \in Handlers : hpc[h] # "closed" =>
          \A i \in 1..Len(chan'[h]) : chan'[h][i] <= row[watch[h]]
    BY <2>2, <2>3
  <2>5. \A h \in Handlers : hpc[h] = "closed" => chan'[h] = <<>>
    BY <2>2, <2>3
  <2>6. \A v \in Writers : \A x \in outbox'[v] : x.ver <= row'[x.job]
    BY <2>3
  <2> QED
    BY <2>3, <2>4, <2>5, <2>6
<1>6. ASSUME NEW h \in Handlers, NEW j \in Jobs, Subscribe(h, j) PROVE NoFuture'
  BY <1>6 DEF Subscribe
<1>7. ASSUME NEW h \in Handlers, InitialFindOne(h) PROVE NoFuture'
  BY <1>7 DEF InitialFindOne
<1>8. ASSUME NEW h \in Handlers, Receive(h) PROVE NoFuture'
  <2>1. /\ UNCHANGED <<row, found, outbox, watch>>
        /\ chan' = [chan EXCEPT ![h] = Tail(@)]
        /\ prev' = [prev EXCEPT ![h] = Head(chan[h])]
        /\ \A g \in Handlers : hpc'[g] = "closed" <=> hpc[g] = "closed"
        /\ hpc[h] # "closed" /\ chan[h] # <<>>
    BY <1>8 DEF Receive
  <2>2. Head(chan[h]) = chan[h][1] /\ 1 \in 1..Len(chan[h])
    BY <2>1
  <2>3. \A i \in 1..Len(Tail(chan[h])) : Tail(chan[h])[i] = chan[h][i+1] /\ i+1 \in 1..Len(chan[h])
    BY <2>1
  <2> QED
    BY <2>1, <2>2, <2>3
<1>9. ASSUME NEW h \in Handlers,
             Keepalive(h) \/ WriteOk(h) \/ WriteFails(h) \/ ReaderCloses(h)
      PROVE  NoFuture'
  <2>1. /\ UNCHANGED <<row, found, outbox, chan, watch, prev>>
        /\ \A g \in Handlers : hpc'[g] = "closed" <=> hpc[g] = "closed"
    BY <1>9 DEF Keepalive, WriteOk, WriteFails, ReaderCloses
  <2> QED
    BY <2>1
<1>10. ASSUME NEW h \in Handlers, Unsubscribe(h) PROVE NoFuture'
  BY <1>10 DEF Unsubscribe, Ended
<1>11. CASE Crash
  BY <1>11 DEF Crash, Nothing
<1>12. CASE UNCHANGED vars
  BY <1>12 DEF vars
<1> QED
  BY <1>1, <1>2, <1>3, <1>4, <1>5, <1>6, <1>7, <1>8, <1>9, <1>10, <1>11, <1>12
  DEF Next, FlushStep, HandlerStep

LEMMA InductiveNoFuture == Spec => [](IInv /\ NoFuture)
  BY InitIInv, InitNoFuture, NextIInv, NoFutureStep, PTL DEF Spec

\* Every step of the notifications is a step of the feed or leaves it alone.
LEMMA FeedStep == IInv /\ NoFuture /\ [Next]_vars => [Feed!Next]_Feed!vars
<1> SUFFICES ASSUME IInv, NoFuture, [Next]_vars PROVE [Feed!Next]_Feed!vars
  OBVIOUS
<1> DEFINE Simulated == Feed!Next \/ UNCHANGED Feed!vars
<1> USE DEF dbVars, flushVars, mapVars, handlerVars
<1>1. ASSUME NEW w \in Writers, NEW S \in SUBSET Jobs, StoreCommit(w, S)
      PROVE  Simulated
  <2>1. Feed!Change(S)
    BY <1>1 DEF StoreCommit, Feed!Change
  <2> QED
    BY <2>1 DEF Feed!Next
<1>2. ASSUME NEW w \in Writers, FlushStep(w) \/ FlushLock(w)
      PROVE  Simulated
  BY <1>2 DEF Feed!vars, FlushStep, FlushSelect, FlushDelete, FlushCommit, FlushCommitFails,
              FlushFails, FlushFindOne, FlushSkips, FlushLock, FlushPick, FlushPush,
              FlushUnlock
<1>3. ASSUME NEW h \in Handlers, NEW j \in Jobs, Subscribe(h, j) PROVE Simulated
  <2>1. Feed!Watch(h, j)
    BY <1>3 DEF Subscribe, Feed!Watch, IInv, WatchInv
  <2> QED
    BY <2>1 DEF Feed!Next
<1>4. ASSUME NEW h \in Handlers,
             \/ InitialFindOne(h) \/ Receive(h) \/ Keepalive(h)
             \/ WriteFails(h) \/ ReaderCloses(h)
      PROVE  Simulated
  BY <1>4 DEF Feed!vars, InitialFindOne, Receive, Keepalive, WriteFails, ReaderCloses
<1>5. ASSUME NEW h \in Handlers, WriteOk(h) PROVE Simulated
  <2>1. CASE prev[h] = 0
    BY <1>5, <2>1 DEF WriteOk, IInv, TypeOK, Feed!vars
  <2>2. CASE prev[h] # 0
    <3>1. watch[h] # Nobody /\ watch[h] \in Jobs
      BY <1>5 DEF WriteOk, IInv, TypeOK, WatchInv
    <3>2. prev[h] \in 1..row[watch[h]]
      BY <1>5, <2>2, <3>1, MaxChangesIsNat DEF WriteOk, IInv, TypeOK, NoFuture
    <3>3. Feed!Show(h)
      BY <1>5, <2>2, <3>1, <3>2 DEF WriteOk, Feed!Show
    <3> QED
      BY <3>3 DEF Feed!Next
  <2> QED
    BY <2>1, <2>2
<1>6. ASSUME NEW h \in Handlers, Unsubscribe(h) PROVE Simulated
  <2>1. Feed!Leave({h})
    BY <1>6 DEF Unsubscribe, Ended, IInv, TypeOK, Feed!Leave
  <2> QED
    BY <2>1 DEF Feed!Next
<1>7. CASE Crash
  <2>1. Feed!Leave(Handlers)
    BY <1>7 DEF Crash, Feed!Leave
  <2> QED
    BY <2>1 DEF Feed!Next
<1>8. CASE UNCHANGED vars
  BY <1>8 DEF vars, Feed!vars
<1> QED
  BY <1>1, <1>2, <1>3, <1>4, <1>5, <1>6, <1>7, <1>8
  DEF Next, HandlerStep

\* Whatever fails and however many storers there are, clients are only shown
\* statuses the database has committed for the job they watch.
THEOREM ImplementsFeed == Spec => FeedSpec
<1>1. Init => Feed!Init
  BY DEF Init, Feed!Init
<1> QED
  BY <1>1, FeedStep, InductiveNoFuture, PTL DEF Spec, FeedSpec, Feed!Spec
=============================================================================
