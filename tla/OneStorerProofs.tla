-------------------------- MODULE OneStorerProofs ---------------------------
(***************************************************************************)
(* With one storer (a deployment that polls and has no webhook) and no     *)
(* failing database call, no status change is lost between the database    *)
(* and a subscriber, and each channel is in commit order.  Two storers     *)
(* lose changes: see the run notify_lost_event.                            *)
(***************************************************************************)
EXTENDS StatusNotifyProofs, SequenceTheorems

OneStorer == ~MayFail /\ \A v, w \in Writers : v = w

\* Nobody else touches the database during a flush: what it has read is what
\* there is, until it has sent it.
FlushInv ==
  \A w \in Writers :
    /\ pc[w] \in {"delete", "commit"} => ids[w] = events
    /\ pc[w] = "commit" => doomed[w] = events
    /\ pc[w] \in {"find", "pick", "push"} => events = {}
    /\ found[w] # {} => pc[w] = "find"
    /\ \A r \in found[w] : r.ver = row[r.job]
    /\ \A m \in outbox[w] : m.ver = row[m.job]

\* The current version of the job h watches is on its way to h.
InFlight(h) == watch[h] \in events \/ \E w \in Writers : Carries(w, watch[h], h)

\* The three facts about one handler: EveryChangeAccountedFor, ...
Accounted(h) ==
  hpc[h] # "closed" /\ (hpc[h] # "find" \/ chan[h] # <<>>) =>
    Newest(h) = row[watch[h]] \/ InFlight(h)

\* ... while the current version is on its way, what the channel holds is older ...
Older(h) ==
  hpc[h] # "closed" /\ InFlight(h) =>
    \A i \in 1..Len(chan[h]) : chan[h][i] < row[watch[h]]

\* ... and ChannelInOrder.
Ordered(h) == \A i, k \in 1..Len(chan[h]) : i < k => chan[h][i] < chan[h][k]

Delivers(h) == Accounted(h) /\ Older(h) /\ Ordered(h)
Delivery == \A h \in Handlers : Delivers(h)

OInv == IInv /\ NoFuture /\ FlushInv /\ Delivery

LEMMA InitOInv == Init => OInv
<1> SUFFICES ASSUME Init PROVE OInv
  OBVIOUS
<1>1. IInv /\ NoFuture
  BY InitIInv, InitNoFuture
<1> QED
  BY <1>1 DEF Init, OInv, FlushInv, Delivery, Delivers, Accounted, Older, Ordered,
              Idle, Nothing

\* The only storer deletes all the events there are.
LEMMA DeletesAll ==
  ASSUME TypeOK, FlushInv, NEW w \in Writers, FlushDelete(w)
  PROVE  doomed'[w] = events
<1>1. ids[w] = events
  BY DEF FlushInv, FlushDelete
<1>2. PICK D \in SUBSET events :
        ids[w] \cap events \subseteq D /\ doomed' = [doomed EXCEPT ![w] = D]
  BY DEF FlushDelete
<1>3. D = events
  BY <1>1, <1>2
<1> QED
  BY <1>2, <1>3 DEF TypeOK

\* A step of the sends changes no version and adds no message.
LEMMA SendsOnlyDrop ==
  ASSUME TypeOK, NEW w \in Writers, FlushPick(w) \/ FlushPush(w) \/ FlushUnlock(w)
  PROVE  /\ UNCHANGED <<row, events, ids, doomed, found>>
         /\ pc[w] \in {"pick", "push"} /\ pc'[w] \in {"pick", "push", "idle"}
         /\ outbox'[w] \subseteq outbox[w]
<1> USE DEF TypeOK, flushVars, dbVars
<1>1. CASE FlushPick(w)
  BY <1>1 DEF FlushPick, Goto
<1>2. CASE FlushPush(w)
  BY <1>2 DEF FlushPush, Goto
<1>3. CASE FlushUnlock(w)
  BY <1>3 DEF FlushUnlock, Goto
<1> QED
  BY <1>1, <1>2, <1>3

LEMMA FlushInvStep == OneStorer /\ OInv /\ [Next]_vars => FlushInv'
<1> SUFFICES ASSUME OneStorer, OInv, [Next]_vars PROVE FlushInv'
  OBVIOUS
<1> USE DEF OneStorer, OInv, IInv, TypeOK, FlushInv, dbVars, flushVars, mapVars, handlerVars
<1>1. ASSUME NEW w \in Writers, NEW S \in SUBSET Jobs, StoreCommit(w, S) PROVE FlushInv'
  <2>1. found[w] = {} /\ outbox[w] = {}
    BY <1>1 DEF StoreCommit, LockInv
  <2> QED
    BY <1>1, <2>1 DEF StoreCommit, Goto
<1>2. ASSUME NEW w \in Writers, FlushSelect(w) PROVE FlushInv'
  BY <1>2 DEF FlushSelect, Goto
<1>3. ASSUME NEW w \in Writers, FlushDelete(w) PROVE FlushInv'
  <2>1. doomed'[w] = events
    BY <1>3, DeletesAll
  <2> QED
    BY <1>3, <2>1 DEF FlushDelete, Goto
<1>4. ASSUME NEW w \in Writers, FlushCommit(w) PROVE FlushInv'
  BY <1>4 DEF FlushCommit, Goto
<1>5. ASSUME NEW w \in Writers, NEW j \in Jobs, FlushFindOne(w, j) PROVE FlushInv'
  BY <1>5 DEF FlushFindOne
<1>6. ASSUME NEW w \in Writers, FlushLock(w) PROVE FlushInv'
  <2>1. \A m \in Addressed(found[w]) : m.ver = row[m.job]
    BY DEF Addressed
  <2> QED
    BY <1>6, <2>1 DEF FlushLock, Goto
<1>7. ASSUME NEW w \in Writers, FlushPick(w) \/ FlushPush(w) \/ FlushUnlock(w) PROVE FlushInv'
  <2> HIDE DEF TypeOK
  <2>1. /\ UNCHANGED <<row, events, ids, doomed, found>>
        /\ pc[w] \in {"pick", "push"} /\ pc'[w] \in {"pick", "push", "idle"}
        /\ outbox'[w] \subseteq outbox[w]
    BY <1>7, SendsOnlyDrop
  <2> QED
    BY <2>1
<1>8. ASSUME NEW h \in Handlers,
             \/ \E j \in Jobs : Subscribe(h, j)
             \/ HandlerStep(h) \/ ReaderCloses(h) \/ Unsubscribe(h)
      PROVE  FlushInv'
  <2>1. UNCHANGED <<row, events, pc, ids, doomed, found, outbox>>
    BY <1>8 DEF HandlerStep, Subscribe, InitialFindOne, Receive, Keepalive, WriteOk,
                WriteFails, ReaderCloses, Unsubscribe
  <2> QED
    BY <2>1
<1>9. CASE Crash
  BY <1>9 DEF Crash, Idle, Nothing
<1>10. CASE UNCHANGED vars
  BY <1>10 DEF vars
<1> QED
  BY <1>1, <1>2, <1>3, <1>4, <1>5, <1>6, <1>7, <1>8, <1>9, <1>10
  DEF Next, FlushStep, FlushCommitFails, FlushFails, FlushSkips

-----------------------------------------------------------------------------
\* The flush steps before and after the sends pass every version on: from the
\* events to the ids, to what is found, to the messages.
LEMMA PassedOn ==
  ASSUME OneStorer, OInv, NEW w \in Writers, NEW h \in Handlers, hpc[h] # "closed",
         \/ FlushSelect(w) \/ FlushDelete(w) \/ FlushCommit(w)
         \/ \E j \in Jobs : FlushFindOne(w, j)
         \/ FlushLock(w) \/ FlushPick(w) \/ FlushUnlock(w)
  PROVE  /\ UNCHANGED <<row, chan, hpc, watch, prev>>
         /\ InFlight(h)' <=> InFlight(h)
<1> USE DEF OneStorer, OInv, IInv, TypeOK, FlushInv, LockInv, InFlight, Carries,
            dbVars, flushVars, mapVars, handlerVars
<1> DEFINE Same == UNCHANGED <<row, chan, hpc, watch, prev>> /\ (InFlight(h)' <=> InFlight(h))
<1>0. \A v \in Writers : v = w
  OBVIOUS
<1>1. CASE FlushSelect(w)
  BY <1>0, <1>1 DEF FlushSelect, Goto
<1>2. CASE FlushDelete(w)
  BY <1>0, <1>2 DEF FlushDelete, Goto
<1>3. CASE FlushCommit(w)
  BY <1>0, <1>3 DEF FlushCommit, Goto
<1>4. ASSUME NEW j \in Jobs, FlushFindOne(w, j) PROVE Same
  <2>1. /\ UNCHANGED <<row, events, pc, outbox, chan, hpc, watch, prev>>
        /\ pc[w] = "find" /\ j \in ids[w]
        /\ ids'[w] = ids[w] \ {j}
        /\ found'[w] = found[w] \cup {[job |-> j, ver |-> row[j]]}
    BY <1>4 DEF FlushFindOne
  <2>2. CASE watch[h] = j
    BY <1>0, <2>1, <2>2
  <2>3. CASE watch[h] # j
    <3>1. [job |-> watch[h], ver |-> row[watch[h]]] # [job |-> j, ver |-> row[j]]
      BY <2>3
    <3>2. watch[h] \in ids'[w] <=> watch[h] \in ids[w]
      BY <2>1, <2>3
    <3>3. [job |-> watch[h], ver |-> row[watch[h]]] \in found'[w]
            <=> [job |-> watch[h], ver |-> row[watch[h]]] \in found[w]
      BY <2>1, <3>1
    <3>4. Carries(w, watch[h], h)' <=> Carries(w, watch[h], h)
      BY <2>1, <3>2, <3>3
    <3> QED
      BY <1>0, <2>1, <3>4
  <2> QED
    BY <2>2, <2>3
<1>5. CASE FlushLock(w)
  <2> DEFINE m == [to |-> h, job |-> watch[h], ver |-> row[watch[h]]]
             r == [job |-> watch[h], ver |-> row[watch[h]]]
  <2>0. lock # w /\ outbox[w] = {}
    BY <1>5, NoOneIsNoWriter DEF FlushLock
  <2>1. /\ UNCHANGED <<row, events, ids, chan, hpc, watch, prev>>
        /\ pc[w] = "find" /\ ids[w] = {} /\ outbox[w] = {} /\ pc'[w] = "pick"
        /\ found'[w] = {} /\ outbox'[w] = Addressed(found[w])
    <3>1. UNCHANGED <<row, events, ids, chan, hpc, watch, prev>> /\ pc[w] = "find" /\ ids[w] = {}
      BY <1>5 DEF FlushLock
    <3>2. pc'[w] = "pick" /\ found'[w] = {} /\ outbox'[w] = Addressed(found[w])
      BY <1>5 DEF FlushLock, Goto
    <3> QED
      BY <2>0, <3>1, <3>2
  <2>2. watch[h] \in Jobs /\ h \in subscribers[watch[h]]
    BY DEF WatchInv, SubscriptionsMatchHandlers
  <2>3. m \in Addressed(found[w]) <=> r \in found[w]
    BY <2>2 DEF Addressed
  <2>4. InFlight(h) <=> r \in found[w]
    BY <1>0, <2>1
  <2>5. InFlight(h)' <=> m \in outbox'[w]
    BY <1>0, <2>1
  <2> QED
    BY <2>1, <2>3, <2>4, <2>5
<1>6. CASE FlushPick(w)
  BY <1>0, <1>6 DEF FlushPick, Goto
<1>7. CASE FlushUnlock(w)
  BY <1>0, <1>7 DEF FlushUnlock, Goto
<1> QED
  BY <1>1, <1>2, <1>3, <1>4, <1>5, <1>6, <1>7

\* What is left of a channel when its head has been received.
LEMMA TailFacts ==
  ASSUME NEW c \in Seq(Nat), c # <<>>
  PROVE  /\ \A i \in 1..Len(Tail(c)) : Tail(c)[i] = c[i+1] /\ i+1 \in 1..Len(c)
         /\ (IF Tail(c) = <<>> THEN Head(c) ELSE Last(Tail(c))) = Last(c)
<1>1. /\ Len(c) \in Nat \ {0} /\ Head(c) = c[1]
      /\ Tail(c) \in Seq(Nat) /\ Len(Tail(c)) = Len(c) - 1
      /\ \A i \in 1..Len(Tail(c)) : Tail(c)[i] = c[i+1]
  BY HeadTailProperties, EmptySeq
<1> DEFINE t == Tail(c)
           n == Len(c)
<1>0. Len(<<>>) = 0 /\ (t # <<>> => Len(t) \in Nat \ {0})
  <2>1. \A seq \in Seq(Nat) : seq # <<>> => Len(seq) \in Nat \ {0}
    BY EmptySeq
  <2>2. Len(<<>>) = 0
    BY EmptySeq
  <2> QED
    BY <1>1, <2>1, <2>2
<1>2. CASE n = 1
  <2>1. t = <<>>
    <3>1. Len(t) = 0
      BY <1>1, <1>2
    <3> QED
      BY <1>0, <3>1
  <2> QED
    BY <1>1, <1>2, <2>1 DEF Last
<1>3. CASE n # 1
  <2>1. n \in Nat \ {0} /\ Len(t) = n - 1
    BY <1>1
  <2>2. n - 1 \in 1..(n - 1) /\ (n - 1) + 1 = n /\ n - 1 # 0
    BY <1>3, <2>1
  <2>3. t # <<>>
    BY <1>0, <2>1, <2>2
  <2> QED
    BY <1>1, <2>1, <2>2, <2>3 DEF Last
<1> QED
  BY <1>1, <1>2, <1>3

\* A step that leaves a handler's readings alone.
LEMMA Undisturbed ==
  ASSUME NEW h \in Handlers, Delivers(h),
         row'[watch[h]] = row[watch[h]], chan'[h] = chan[h], prev'[h] = prev[h],
         watch'[h] = watch[h],
         hpc'[h] = "closed" <=> hpc[h] = "closed", hpc'[h] = "find" <=> hpc[h] = "find",
         hpc[h] # "closed" => (InFlight(h)' <=> InFlight(h))
  PROVE  Delivers(h)'
  BY DEF Delivers, Accounted, Older, Ordered, Newest

\* A handler that starts or ends.
LEMMA StartsOrEnds ==
  ASSUME NEW h \in Handlers, chan'[h] = <<>>, hpc'[h] \in {"closed", "find"}
  PROVE  Delivers(h)'
  BY DEF Delivers, Accounted, Older, Ordered

\* The steps of a storer.
LEMMA StorerDelivers ==
  ASSUME OneStorer, OInv, IInv', FlushInv', NEW w \in Writers, NEW h \in Handlers,
         (\E S \in SUBSET Jobs : StoreCommit(w, S)) \/ FlushStep(w) \/ FlushLock(w)
  PROVE  Delivers(h)'
<1> USE DEF dbVars, flushVars, mapVars, handlerVars
<1>0. /\ IInv /\ NoFuture /\ FlushInv /\ Delivers(h)
      /\ \A v \in Writers : v = w
  BY DEF OInv, Delivery, OneStorer
<1>1. CASE hpc[h] = "closed"
  <2>1. UNCHANGED hpc /\ UNCHANGED watch
    BY DEF FlushStep, StoreCommit, FlushSelect, FlushDelete, FlushCommit, FlushCommitFails,
           FlushFails, FlushFindOne, FlushSkips, FlushLock, FlushPick, FlushPush, FlushUnlock
  <2>2. chan'[h] = <<>>
    <3>1. CASE FlushPush(w)
      BY <1>0, <1>1, <3>1 DEF FlushPush, IInv, TypeOK, TargetInv, SendsOnlyToRegistered, NoFuture
    <3>2. CASE ~FlushPush(w)
      BY <1>0, <1>1, <3>2
      DEF FlushStep, StoreCommit, FlushSelect, FlushDelete, FlushCommit, FlushCommitFails,
          FlushFails, FlushFindOne, FlushSkips, FlushLock, FlushPick, FlushUnlock, NoFuture
    <3> QED
      BY <3>1, <3>2
  <2> QED
    BY <1>1, <2>1, <2>2, StartsOrEnds
<1>2. CASE hpc[h] # "closed" /\ \E S \in SUBSET Jobs : StoreCommit(w, S)
  <2>0. PICK S \in SUBSET Jobs : StoreCommit(w, S)
    BY <1>2
  <2>1. /\ UNCHANGED <<ids, found, outbox, chan, hpc, watch, prev>>
        /\ pc[w] = "idle" /\ pc'[w] = "select" /\ found[w] = {} /\ outbox[w] = {}
        /\ events' = events \cup S
        /\ \A j \in Jobs : row'[j] = IF j \in S THEN row[j] + 1 ELSE row[j]
    BY <1>0, <2>0 DEF StoreCommit, Goto, IInv, TypeOK, FlushInv, LockInv
  <2>2. /\ watch[h] \in Jobs /\ row[watch[h]] \in Nat
        /\ \A i \in 1..Len(chan[h]) : chan[h][i] \in Nat /\ chan[h][i] <= row[watch[h]]
    BY <1>0, <1>2 DEF IInv, TypeOK, WatchInv, NoFuture
  <2>3. CASE watch[h] \in S
    <3>1. InFlight(h)' /\ \A i \in 1..Len(chan[h]) : chan[h][i] < row'[watch[h]]
      BY <2>1, <2>2, <2>3 DEF InFlight
    <3> QED
      BY <1>0, <2>1, <3>1 DEF Delivers, Accounted, Older, Ordered
  <2>4. CASE watch[h] \notin S
    <3>1. row'[watch[h]] = row[watch[h]]
      BY <2>1, <2>2, <2>4
    <3>2. InFlight(h)' <=> InFlight(h)
      BY <1>0, <2>1, <2>4, <3>1 DEF InFlight, Carries
    <3> QED
      BY <1>0, <2>1, <3>1, <3>2, Undisturbed
  <2> QED
    BY <2>3, <2>4
<1>3. CASE /\ hpc[h] # "closed"
           /\ \/ FlushSelect(w) \/ FlushDelete(w) \/ FlushCommit(w)
              \/ \E j \in Jobs : FlushFindOne(w, j)
              \/ FlushLock(w) \/ FlushPick(w) \/ FlushUnlock(w)
  BY <1>0, <1>3, PassedOn, Undisturbed
<1>4. CASE hpc[h] # "closed" /\ FlushPush(w)
  <2> DEFINE m == target[w]
  <2>1. /\ m \in outbox[w] /\ pc[w] = "push"
        /\ m = [to |-> m.to, job |-> m.job, ver |-> m.ver]
        /\ m.to \in Handlers /\ m.ver \in Nat /\ m.ver = row[m.job]
        /\ hpc[m.to] # "closed" /\ watch[m.to] = m.job
    BY <1>0, <1>4
    DEF FlushPush, IInv, TypeOK, TargetInv, Messages, SendsOnlyToRegistered, FlushInv
  <2>2. /\ UNCHANGED <<row, events, ids, found, hpc, watch, prev>>
        /\ chan' = [chan EXCEPT ![m.to] = Append(@, m.ver)]
        /\ outbox'[w] = outbox[w] \ {m} /\ pc'[w] = "pick"
        /\ events = {} /\ found[w] = {}
    BY <1>0, <1>4 DEF FlushPush, Goto, IInv, TypeOK, FlushInv
  <2>3. CASE h # m.to
    <3>1. chan'[h] = chan[h]
      BY <1>0, <2>2, <2>3 DEF IInv, TypeOK
    <3>2. [to |-> h, job |-> watch[h], ver |-> row[watch[h]]] # m
      BY <2>3
    <3>3. InFlight(h)' <=> InFlight(h)
      BY <1>0, <2>1, <2>2, <3>2 DEF InFlight, Carries
    <3> QED
      BY <1>0, <2>2, <3>1, <3>3, Undisturbed
  <2>4. CASE h = m.to
    <3> DEFINE c == chan[h]
               d == chan'[h]
    <3>1. c \in Seq(Nat) /\ d = Append(c, m.ver)
      BY <1>0, <2>2, <2>4 DEF IInv, TypeOK
    <3>2. InFlight(h)
      BY <2>1, <2>4 DEF InFlight, Carries
    <3>3. ~InFlight(h)'
      BY <1>0, <2>1, <2>2, <2>4 DEF InFlight, Carries
    <3>4. /\ Len(c) \in Nat /\ Len(d) = Len(c) + 1 /\ d # <<>>
          /\ \A i \in 1..Len(c) : d[i] = c[i] /\ c[i] \in Nat
          /\ d[Len(d)] = m.ver
      BY <2>1, <3>1
    <3>5. \A i \in 1..Len(c) : c[i] < m.ver
      BY <1>0, <2>1, <2>4, <3>2 DEF Delivers, Older
    <3>6. Accounted(h)'
      <4>1. Newest(h)' = m.ver
        BY <3>4 DEF Newest, Last
      <4> QED
        BY <2>1, <2>2, <2>4, <4>1 DEF Accounted
    <3>7. Older(h)'
      BY <3>3 DEF Older
    <3>8. \A i, k \in 1..Len(c) : i < k => c[i] < c[k]
      BY <1>0 DEF Delivers, Ordered
    <3>9. ASSUME NEW i \in 1..Len(d), NEW k \in 1..Len(d), i < k PROVE d[i] < d[k]
      <4>1. i \in 1..Len(c) /\ (k \in 1..Len(c) \/ k = Len(d))
        BY <3>4, <3>9
      <4> QED
        BY <3>4, <3>5, <3>8, <3>9, <4>1
    <3> QED
      BY <3>6, <3>7, <3>9 DEF Delivers, Ordered
  <2> QED
    BY <2>3, <2>4
<1> QED
  BY <1>0, <1>1, <1>2, <1>3, <1>4
  DEF FlushStep, FlushCommitFails, FlushFails, FlushSkips, OneStorer

\* The steps of a handler g, for itself and for the others.
LEMMA HandlerDelivers ==
  ASSUME OneStorer, OInv, NEW g \in Handlers, NEW h \in Handlers,
         (\E j \in Jobs : Subscribe(g, j)) \/ HandlerStep(g) \/ ReaderCloses(g)
                                           \/ Unsubscribe(g)
  PROVE  Delivers(h)'
<1> USE DEF dbVars, flushVars, mapVars, handlerVars
<1>0. IInv /\ NoFuture /\ Delivers(h) /\ ~MayFail
  BY DEF OInv, Delivery, OneStorer
<1>1. /\ UNCHANGED <<row, events, pc, ids, found, outbox>>
      /\ watch'[h] = watch[h] => (InFlight(h)' <=> InFlight(h))
  <2>1. UNCHANGED <<row, events, pc, ids, found, outbox>>
    BY DEF HandlerStep, Subscribe, InitialFindOne, Receive, Keepalive, WriteOk,
           WriteFails, ReaderCloses, Unsubscribe
  <2> QED
    BY <2>1 DEF InFlight, Carries
<1>2. CASE h # g
  <2>1. hpc'[h] = hpc[h] /\ watch'[h] = watch[h] /\ chan'[h] = chan[h] /\ prev'[h] = prev[h]
    BY <1>0, <1>2 DEF HandlerStep, Subscribe, InitialFindOne, Receive, Keepalive, WriteOk,
                      WriteFails, ReaderCloses, Unsubscribe, Ended, IInv, TypeOK
  <2> QED
    BY <1>0, <1>1, <2>1, Undisturbed
<1>3. CASE h = g /\ \E j \in Jobs : Subscribe(h, j)
  <2>1. chan'[h] = <<>> /\ hpc'[h] = "find"
    BY <1>0, <1>3 DEF Subscribe, NoFuture, IInv, TypeOK
  <2> QED
    BY <2>1, StartsOrEnds
<1>4. CASE h = g /\ Unsubscribe(h)
  <2>1. chan'[h] = <<>> /\ hpc'[h] = "closed"
    BY <1>0, <1>4 DEF Unsubscribe, Ended, IInv, TypeOK
  <2> QED
    BY <2>1, StartsOrEnds
<1>5. CASE h = g /\ Receive(h)
  <2>1. /\ chan[h] \in Seq(Nat) /\ chan[h] # <<>> /\ hpc[h] = "loop" /\ hpc'[h] = "write"
        /\ chan'[h] = Tail(chan[h]) /\ prev'[h] = Head(chan[h]) /\ watch'[h] = watch[h]
    BY <1>0, <1>5 DEF Receive, IInv, TypeOK
  <2>2. \A i \in 1..Len(chan'[h]) : chan'[h][i] = chan[h][i+1] /\ i+1 \in 1..Len(chan[h])
    BY <2>1, TailFacts
  <2>3. Newest(h)' = Newest(h)
    BY <2>1, TailFacts DEF Newest
  <2>4. Accounted(h)'
    BY <1>0, <1>1, <2>1, <2>3 DEF Delivers, Accounted
  <2>5. Older(h)'
    BY <1>0, <1>1, <2>1, <2>2 DEF Delivers, Older
  <2>6. Ordered(h)'
    <3>1. ASSUME NEW i \in 1..Len(chan'[h]), NEW k \in 1..Len(chan'[h]), i < k
          PROVE  chan'[h][i] < chan'[h][k]
      <4>1. /\ i+1 \in 1..Len(chan[h]) /\ k+1 \in 1..Len(chan[h]) /\ i+1 < k+1
            /\ chan'[h][i] = chan[h][i+1] /\ chan'[h][k] = chan[h][k+1]
        BY <2>2, <3>1
      <4> QED
        BY <1>0, <4>1 DEF Delivers, Ordered
    <3> QED
      BY <3>1 DEF Ordered
  <2> QED
    BY <2>4, <2>5, <2>6 DEF Delivers
<1>6. CASE h = g /\ InitialFindOne(h)
  <2>1. /\ chan'[h] = chan[h] /\ prev'[h] = row[watch[h]] /\ watch'[h] = watch[h]
        /\ hpc[h] = "find" /\ hpc'[h] \in {"loop", "write"}
    BY <1>0, <1>6 DEF InitialFindOne, IInv, TypeOK
  <2> QED
    BY <1>0, <1>1, <2>1 DEF Delivers, Accounted, Older, Ordered, Newest
<1>7. CASE h = g /\ (Keepalive(h) \/ WriteOk(h) \/ WriteFails(h) \/ ReaderCloses(h))
  <2>1. /\ chan'[h] = chan[h] /\ prev'[h] = prev[h] /\ watch'[h] = watch[h]
        /\ hpc'[h] = "closed" <=> hpc[h] = "closed"
        /\ hpc'[h] = "find" <=> hpc[h] = "find"
    BY <1>0, <1>7 DEF Keepalive, WriteOk, WriteFails, ReaderCloses, IInv, TypeOK
  <2> QED
    BY <1>0, <1>1, <2>1, Undisturbed
<1> QED
  BY <1>2, <1>3, <1>4, <1>5, <1>6, <1>7 DEF HandlerStep

LEMMA NextOInv == OneStorer /\ OInv /\ [Next]_vars => OInv'
<1> SUFFICES ASSUME OneStorer, OInv, [Next]_vars PROVE OInv'
  OBVIOUS
<1>1. IInv' /\ NoFuture' /\ FlushInv'
  BY NextIInv, NoFutureStep, FlushInvStep DEF OInv
<1>2. CASE Crash
  BY <1>1, <1>2, StartsOrEnds DEF Crash, OInv, Delivery
<1>3. CASE UNCHANGED vars
  <2>1. \A h \in Handlers : InFlight(h)' <=> InFlight(h)
    BY <1>3 DEF vars, dbVars, flushVars, handlerVars, InFlight, Carries
  <2>2. Delivery'
    BY <1>3, <2>1, Undisturbed DEF vars, dbVars, handlerVars, OInv, Delivery
  <2> QED
    BY <1>1, <2>2 DEF OInv
<1>4. CASE Next /\ ~Crash
  BY <1>1, <1>4, StorerDelivers, HandlerDelivers DEF Next, OInv, Delivery
<1> QED
  BY <1>2, <1>3, <1>4

LEMMA InductiveOInv == OneStorer => (Spec => []OInv)
<1> SUFFICES ASSUME OneStorer PROVE Spec => []OInv
  OBVIOUS
<1>1. OInv /\ [Next]_vars => OInv'
  BY NextOInv
<1> QED
  BY <1>1, InitOInv, PTL DEF Spec

\* With one storer no status change is lost on its way to a subscriber.
THEOREM OneStorerLosesNothing == OneStorer => (Spec => []EveryChangeAccountedFor)
<1>1. OInv => EveryChangeAccountedFor
  BY DEF OInv, Delivery, Delivers, Accounted, InFlight, EveryChangeAccountedFor
<1> QED
  BY <1>1, InductiveOInv, PTL

\* With one storer a subscriber's channel is in the order of the commits.
THEOREM OneStorerKeepsOrder == OneStorer => (Spec => []ChannelInOrder)
<1>1. OInv => ChannelInOrder
  BY DEF OInv, Delivery, Delivers, Ordered, ChannelInOrder
<1> QED
  BY <1>1, InductiveOInv, PTL
=============================================================================
