--------------------------- MODULE BatchSyncProofs ---------------------------
(***************************************************************************)
(* Proofs about BatchSync, for any number of jobs, queues and moves, with  *)
(* the webhook and failures: types, that finished rows stay, and, while a  *)
(* listing is a single page, that a job AWS lists is not marked GONE and   *)
(* that a quiet round mirrors AWS.                                         *)
(***************************************************************************)
EXTENDS BatchSync, FiniteSetTheorems, TLAPS

\* Where the poller is in its round, and what its variables then hold.
RoundInv ==
  /\ phase \in {"list", "describe", "store"} => cur \in queues \ left
  /\ phase \in {"sleep", "next", "summary"} => cur = NoQueue /\ results = {}
  /\ phase # "store" => described = {}
  /\ phase = "sleep" => si = 1 /\ left = {} /\ known = {} /\ summary = [q \in Queues |-> NoCount]
  /\ \A j \in results : QueueOf[j] = cur /\ aws[j] # "absent"
  /\ \A r1, r2 \in described : r1.job = r2.job => r1 = r2

IType == TypeOK /\ RoundInv

-----------------------------------------------------------------------------
\* What is said to be finished, in an event, a reading or a row, has finished, and
\* a row does not finish behind a reading's back unless an event of its job comes in.
FinalInv ==
  /\ \A e \in mail \cup described :
       e.status \in Terminal => aws[e.job] \in {e.status, "forgotten"}
  /\ \A j \in Jobs : row[j] \in Terminal => aws[j] \in {row[j], "forgotten"}
  /\ \A r \in described : r.job \notin heard /\ row[r.job] \in Terminal => r.status = row[r.job]

\* The ends that events, readings and its row tell of a job, of which there is no
\* more than one.
Ends(j) == ({e.status : e \in {r \in mail \cup described : r.job = j}} \cup {row[j]}) \cap Terminal

EndsAgree == \A j \in Jobs : \A s, t \in Ends(j) : s = t

-----------------------------------------------------------------------------
\* A queue has been listed, described and stored in the k-th status.
Visited(q, k) == phase = "summary" \/ k < si \/ (k = si /\ q \notin left \cup {cur})

\* The jobs of a queue in a status.
In(q, s) == {j \in Jobs : QueueOf[j] = q /\ aws[j] = s}

\* What AWS lists at a time, of a queue in a status, fits on one page.  It is what
\* the code takes for granted, and sync_pages shows what happens otherwise.
OnePage == \A q \in Queues, s \in Statuses : Cardinality(In(q, s)) <= PageSize

\* Jobs that do not move are listed, described and known.
KnownInv ==
  /\ phase = "list" => results = {}
  /\ phase = "describe" => still \cap In(cur, StatusList[si]) \subseteq page
  /\ phase = "store" => still \cap In(cur, StatusList[si]) \subseteq {r.job : r \in described}
  /\ \A r \in described : r.job \in still => r.status = aws[r.job]
  /\ phase # "sleep" => \A q \in queues, k \in 1..Len(StatusList) :
       Visited(q, k) => still \cap In(q, StatusList[k]) \subseteq known

\* Their rows are right, unless somebody else has written.
MirrorInv ==
  /\ calm /\ phase # "sleep" => \A j \in known \cap still : row[j] = aws[j]
  /\ calm /\ phase = "sleep" =>
       \A j \in still : Listed(j) /\ QueueOf[j] \in queues => row[j] = aws[j]

\* When no job moves, a status that has been visited is counted once.
CountInv ==
  still = Jobs =>
    /\ phase \in {"describe", "store"} => page = In(cur, StatusList[si])
    /\ phase = "store" => described = {[job |-> j, status |-> StatusList[si]] : j \in page}
    /\ phase # "sleep" => \A q \in queues, k \in 1..Len(StatusList) : StatusList[k] \in Counted =>
         summary[q][StatusList[k]] =
           IF Visited(q, k) THEN Cardinality(In(q, StatusList[k])) ELSE 0
    /\ phase = "summary" /\ calm => \A q \in queues \ left : logged[q] = summary[q]
    /\ phase = "sleep" /\ calm => \A q \in queues, s \in Counted :
         logged[q][s] = Cardinality(In(q, s))

-----------------------------------------------------------------------------
(***************************************************************************)
(* The list of statuses, and readings.                                     *)
(***************************************************************************)
LEMMA StatusListFacts ==
  /\ Len(StatusList) = 7
  /\ \A k \in 1..7 : StatusList[k] \in Statuses
  /\ \A s \in Statuses : \E k \in 1..7 : StatusList[k] = s
  /\ \A k, m \in 1..7 : StatusList[k] = StatusList[m] => k = m
<1>1. Len(StatusList) = 7
  BY DEF StatusList
<1>2. /\ \A k \in 1..7 : StatusList[k] \in Statuses
      /\ \A s \in Statuses : \E k \in 1..7 : StatusList[k] = s
  BY <1>1 DEF Statuses
<1>3. \A k \in 1..7 : k \in {1, 2, 3, 4, 5, 6, 7}
  OBVIOUS
<1>4. \A k, m \in 1..7 : StatusList[k] = StatusList[m] => k = m
  BY <1>3 DEF StatusList
<1> QED
  BY <1>1, <1>2, <1>4

\* The statuses counted are all but the final ones, and each is one of a job that AWS
\* has.
LEMMA StatusNames ==
  /\ Terminal \subseteq Statuses /\ Counted = Statuses \ Terminal
  /\ \A s \in Statuses : s \notin {"absent", "forgotten", "GONE"}
<1>1. Len(StatusList) = 7
  BY DEF StatusList
<1>2. Statuses = {"FAILED", "PENDING", "RUNNABLE", "RUNNING", "STARTING", "SUBMITTED", "SUCCEEDED"}
  <2>1. \A k \in 1..7 : k \in {1, 2, 3, 4, 5, 6, 7}
    OBVIOUS
  <2>2. \A s : s \in Statuses => s \in {"FAILED", "PENDING", "RUNNABLE", "RUNNING", "STARTING", "SUBMITTED", "SUCCEEDED"}
    BY <1>1, <2>1 DEF Statuses, StatusList
  <2>3. /\ StatusList[1] = "FAILED" /\ StatusList[2] = "PENDING" /\ StatusList[3] = "RUNNABLE"
        /\ StatusList[4] = "RUNNING" /\ StatusList[5] = "STARTING" /\ StatusList[6] = "SUBMITTED"
        /\ StatusList[7] = "SUCCEEDED"
    BY DEF StatusList
  <2>4. \A k \in {1, 2, 3, 4, 5, 6, 7} : StatusList[k] \in Statuses
    BY <1>1 DEF Statuses
  <2> QED
    BY <2>2, <2>3, <2>4
<1> QED
  BY <1>2 DEF Terminal, Counted

\* An upsert leaves a row alone or gives it the status of a reading; a row with a
\* reading has that status afterwards.
LEMMA UpsertWrites ==
  ASSUME TypeOK, NEW R, R \subseteq Readings, Upsert(R),
         \A r1, r2 \in R : r1.job = r2.job => r1 = r2
  PROVE  /\ row' \in [Jobs -> Statuses \cup {"absent", "GONE"}]
         /\ old' \in [Jobs -> BOOLEAN]
         /\ \A j \in Jobs : row'[j] = row[j] \/ \E r \in R : r.job = j /\ row'[j] = r.status
         /\ \A r \in R : row'[r.job] = r.status
<1> DEFINE ids == {r.job : r \in R}
           reading(j) == CHOOSE r \in R : r.job = j
           differs == {j \in ids : row[j] # reading(j).status}
<1>1. \A r \in R : r.job \in Jobs /\ r.status \in Statuses /\ r.job \in ids
  BY DEF Readings
<1>2. \A j \in ids : reading(j) \in R /\ reading(j).job = j
  OBVIOUS
<1>3. \A r \in R : reading(r.job) = r
  BY <1>1, <1>2
<1>4. PICK written \in SUBSET ids :
        /\ differs \subseteq written
        /\ row' = [j \in Jobs |-> IF j \in written THEN reading(j).status ELSE row[j]]
        /\ old' = [j \in Jobs |-> old[j] /\ j \notin written]
  BY DEF Upsert
<1> HIDE DEF reading
<1>5. row' \in [Jobs -> Statuses \cup {"absent", "GONE"}]
  BY <1>1, <1>2, <1>4 DEF TypeOK
<1>6. old' \in [Jobs -> BOOLEAN]
  BY <1>4
<1>7. \A j \in Jobs : row'[j] = row[j] \/ \E r \in R : r.job = j /\ row'[j] = r.status
  BY <1>2, <1>4
<1>8. ASSUME NEW r \in R PROVE row'[r.job] = r.status
  <2>1. CASE r.job \in written
    BY <1>1, <1>3, <1>4, <2>1
  <2>2. CASE r.job \notin written
    BY <1>1, <1>3, <1>4, <2>2
  <2> QED
    BY <2>1, <2>2
<1> QED
  BY <1>5, <1>6, <1>7, <1>8

\* Readings with a job of their own are as finite as the jobs of a queue.
LEMMA DescribedIsFinite ==
  ASSUME IType
  PROVE  /\ IsFiniteSet(page) /\ IsFiniteSet(described)
         /\ \A s : Cardinality({r \in described : r.status = s}) \in Nat
<1>1. IsFiniteSet(results)
  <2>1. CASE cur \in Queues
    <3>1. results \subseteq {j \in Jobs : QueueOf[j] = cur}
      BY DEF IType, RoundInv, TypeOK
    <3> QED
      BY <2>1, <3>1, QueuesAreFinite, FS_Subset
  <2>2. CASE cur \notin Queues
    <3>1. results = {}
      BY <2>2 DEF IType, RoundInv, TypeOK
    <3> QED
      BY <3>1, FS_EmptySet
  <2> QED
    BY <2>1, <2>2
<1>2. IsFiniteSet(page)
  BY <1>1, FS_Subset DEF IType, TypeOK
<1> DEFINE owner == [r \in described |-> r.job]
<1>3. owner \in Injection(described, page)
  <2>1. owner \in [described -> page]
    BY DEF IType, TypeOK
  <2>2. IsInjective(owner)
    BY DEF IsInjective, IType, RoundInv
  <2> QED
    BY <2>1, <2>2 DEF Injection
<1>4. IsFiniteSet(described)
  BY <1>2, <1>3, FS_Injection
<1>5. \A s : Cardinality({r \in described : r.status = s}) \in Nat
  <2> SUFFICES ASSUME NEW s
               PROVE  Cardinality({r \in described : r.status = s}) \in Nat
    OBVIOUS
  <2>1. IsFiniteSet({r \in described : r.status = s})
    BY <1>4, FS_Subset
  <2> QED
    BY <2>1, FS_CardinalityType
<1> QED
  BY <1>2, <1>4, <1>5

-----------------------------------------------------------------------------
(***************************************************************************)
(* Types.                                                                  *)
(***************************************************************************)
LEMMA InitIType == Init => IType
<1> SUFFICES ASSUME Init PROVE IType
  OBVIOUS
<1>1. NoCount \in [Counted -> Nat]
  BY DEF NoCount
<1>2. TypeOK
  <2>1. 1 \in 1..Len(StatusList) /\ 0 \in 0..MaxMoves
    BY MaxMovesIsNat, StatusListFacts
  <2> QED
    BY <1>1, <2>1 DEF Init, TypeOK
<1>3. RoundInv
  BY DEF Init, RoundInv
<1> QED
  BY <1>2, <1>3 DEF IType

\* What a described batch adds to the summary is a number.
LEMMA NotedIsTyped ==
  ASSUME IType, Noted, phase = "store"
  PROVE  known' \subseteq Jobs /\ summary' \in [Queues -> [Counted -> Nat]]
<1>1. cur \in Queues
  BY DEF IType, RoundInv, TypeOK
<1>2. known' \subseteq Jobs
  BY DEF Noted, IType, TypeOK, Readings
<1>3. \A s : Cardinality({r \in described : r.status = s}) \in Nat
  BY DescribedIsFinite
<1> DEFINE number(s) == Cardinality({r \in described : r.status = s})
<1>5. summary' = [summary EXCEPT ![cur] = [s \in Counted |-> summary[cur][s] + number(s)]]
  BY DEF Noted
<1>6. \A s \in Counted : number(s) \in Nat
  BY <1>3
<1> HIDE DEF number
<1>4. [s \in Counted |-> summary[cur][s] + number(s)] \in [Counted -> Nat]
  BY <1>1, <1>6 DEF IType, TypeOK
<1> QED
  BY <1>1, <1>2, <1>4, <1>5 DEF IType, TypeOK

\* Every step keeps the types and what the loop's position says of the round.
LEMMA NextIType == IType /\ [Next]_vars => IType'
<1> SUFFICES ASSUME IType, [Next]_vars PROVE IType'
  OBVIOUS
<1>0. \A k \in 1..7 : StatusList[k] \in Statuses
  BY StatusListFacts
<1>19. NoCount \in [Counted -> Nat]
  BY DEF NoCount
<1> USE DEF awsVars, dbVars, roundVars, history
<1>1. ASSUME NEW j \in Jobs, Move(j) PROVE IType'
  <2>1. PICK s \in Later[aws[j]] \cap (Observed \cup {"forgotten"}) :
          /\ aws' = [aws EXCEPT ![j] = s]
          /\ mail' = IF WebhookOn /\ s # "forgotten" THEN mail \cup {[job |-> j, status |-> s]} ELSE mail
    BY <1>1 DEF Move
  <2>2. Observed \subseteq Statuses
    BY ObservedAreStatuses, StatusListFacts, StatusNames DEF StatusList, Statuses
  <2>3. aws' \in [Jobs -> Statuses \cup {"absent", "forgotten"}] /\ mail' \subseteq Readings
    BY <2>1, <2>2 DEF IType, TypeOK, Readings
  <2>4. moves' \in [Jobs -> 0..MaxMoves]
    BY <1>1, MaxMovesIsNat DEF Move, IType, TypeOK
  <2>5. \A i \in Jobs : aws[i] # "absent" => aws'[i] # "absent"
    BY <2>1, <2>2, StatusNames DEF IType, TypeOK
  <2> QED
    BY <1>1, <2>3, <2>4, <2>5 DEF Move, IType, TypeOK, RoundInv
<1>2. ASSUME NEW j \in Jobs, Age(j) PROVE IType'
  BY <1>2 DEF Age, IType, TypeOK, RoundInv
<1>3. ASSUME NEW q \in Queues, ToggleQueue(q) PROVE IType'
  BY <1>3 DEF ToggleQueue, IType, TypeOK, RoundInv
<1>4. ASSUME NEW m \in mail, Webhook(m) PROVE IType'
  <2>1. row' \in [Jobs -> Statuses \cup {"absent", "GONE"}] /\ old' \in [Jobs -> BOOLEAN]
    <3>1. {m} \subseteq Readings /\ Upsert({m})
      BY <1>4 DEF Webhook, IType, TypeOK
    <3> QED
      BY <3>1, UpsertWrites DEF IType
  <2> QED
    BY <1>4, <2>1 DEF Webhook, IType, TypeOK, RoundInv
<1>5. CASE StartRound
  BY <1>5 DEF StartRound, IType, TypeOK, RoundInv
<1>6. CASE NextQueue
  BY <1>6 DEF NextQueue, IType, TypeOK, RoundInv
<1>7. CASE NextStatus
  BY <1>7, StatusListFacts DEF NextStatus, IType, TypeOK, RoundInv
<1>8. CASE ListPage
  <2>1. PICK P \in SUBSET {j \in Jobs : QueueOf[j] = cur /\ aws[j] = StatusList[si]} :
          page' = P /\ results' = results \cup P /\ phase' \in {"list", "describe"}
    BY <1>8 DEF ListPage
  <2>2. StatusList[si] # "absent"
    BY <1>0, StatusListFacts, StatusNames DEF IType, TypeOK
  <2> QED
    BY <1>8, <2>1, <2>2 DEF ListPage, IType, TypeOK, RoundInv
<1>9. CASE Describe
  <2>1. \A j \in page : j \in Jobs /\ aws[j] \in Statuses \cup {"absent", "forgotten"}
    BY DEF IType, TypeOK
  <2>2. \A j \in page : aws[j] # "absent"
    BY DEF IType, TypeOK, RoundInv
  <2>3. described' = {[job |-> j, status |-> aws[j]] : j \in {i \in page : aws[i] # "forgotten"}}
    BY <1>9 DEF Describe
  <2>4. \A r \in described' : r.job \in page /\ r = [job |-> r.job, status |-> aws[r.job]]
                               /\ aws[r.job] \in Statuses
    BY <2>1, <2>2, <2>3
  <2>5. described' \subseteq Readings /\ {r.job : r \in described'} \subseteq page
    BY <2>1, <2>4 DEF Readings
  <2>6. \A r1, r2 \in described' : r1.job = r2.job => r1 = r2
    BY <2>4
  <2> QED
    BY <1>9, <2>5, <2>6 DEF Describe, IType, TypeOK, RoundInv
<1>10. CASE StoreBatch
  <2>1. known' \subseteq Jobs /\ summary' \in [Queues -> [Counted -> Nat]]
    BY <1>10, NotedIsTyped DEF StoreBatch
  <2>2. row' \in [Jobs -> Statuses \cup {"absent", "GONE"}] /\ old' \in [Jobs -> BOOLEAN]
    BY <1>10, UpsertWrites DEF StoreBatch, IType, TypeOK, RoundInv
  <2> QED
    BY <1>10, <2>1, <2>2 DEF StoreBatch, QueueEnds, IType, TypeOK, RoundInv
<1>11. CASE StoreLost
  <2>1. known' \subseteq Jobs /\ summary' \in [Queues -> [Counted -> Nat]]
    BY <1>11, NotedIsTyped DEF StoreLost
  <2> QED
    BY <1>11, <2>1 DEF StoreLost, QueueEnds, IType, TypeOK, RoundInv
<1>12. Marked \in [Jobs -> Statuses \cup {"absent", "GONE"}]
  BY DEF Marked, IType, TypeOK
<1>13. 1 \in 1..Len(StatusList)
  BY StatusListFacts
<1>14. CASE StaleOldJobs
  <2>1. row' \in [Jobs -> Statuses \cup {"absent", "GONE"}]
    BY <1>12, <1>14 DEF StaleOldJobs, IType, TypeOK
  <2> QED
    BY <1>19, <1>13, <1>14, <2>1 DEF StaleOldJobs, RoundEnds, QueueEnds, IType, TypeOK, RoundInv
<1>15. CASE RoundFails
  <2>1. row' \in [Jobs -> Statuses \cup {"absent", "GONE"}] /\ old' \in [Jobs -> BOOLEAN]
    <3>1. CASE phase = "store" /\ Upsert(described)
      BY <3>1, UpsertWrites DEF IType, TypeOK, RoundInv
    <3>2. CASE row' = Marked /\ UNCHANGED old
      BY <1>12, <3>2 DEF IType, TypeOK
    <3>3. CASE UNCHANGED dbVars
      BY <3>3 DEF IType, TypeOK
    <3> QED
      BY <1>15, <3>1, <3>2, <3>3 DEF RoundFails
  <2> QED
    BY <1>19, <1>13, <1>15, <2>1 DEF RoundFails, RoundEnds, QueueEnds, IType, TypeOK, RoundInv
<1>16. ASSUME NEW q \in Queues, LogSummary(q) PROVE IType'
  BY <1>16 DEF LogSummary, IType, TypeOK, RoundInv
<1>17. ASSUME NEW q \in Queues, LogLost(q) PROVE IType'
  BY <1>17 DEF LogLost, IType, TypeOK, RoundInv
<1>18. CASE UNCHANGED vars
  BY <1>18 DEF vars, IType, TypeOK, RoundInv
<1> QED
  BY <1>1, <1>2, <1>3, <1>4, <1>5, <1>6, <1>7, <1>8, <1>9, <1>10, <1>11, <1>14, <1>15,
     <1>16, <1>17, <1>18 DEF Next, Poll

\* Every reachable state of the poller, the database and AWS is type correct.
THEOREM TypeCorrect == Spec => []TypeOK
<1>1. IType => TypeOK
  BY DEF IType
<1> QED
  BY <1>1, InitIType, NextIType, PTL DEF Spec

-----------------------------------------------------------------------------
(***************************************************************************)
(* Finished rows.                                                          *)
(***************************************************************************)
LEMMA InitFinalInv == Init => FinalInv
  BY StatusNames DEF Init, FinalInv, Terminal

\* A finished job is only forgotten.
LEMMA MovesAreFinal ==
  ASSUME IType, NEW j \in Jobs, Move(j)
  PROVE  /\ \A i \in Jobs : aws[i] \in Terminal \cup {"forgotten"} =>
              aws'[i] \in {aws[i], "forgotten"}
         /\ \A e \in mail' \ mail : e.status \in Terminal => aws'[e.job] = e.status
<1>1. PICK s \in Later[aws[j]] :
        /\ aws' = [aws EXCEPT ![j] = s]
        /\ mail' = IF WebhookOn /\ s # "forgotten" THEN mail \cup {[job |-> j, status |-> s]} ELSE mail
  BY DEF Move
<1>2. aws[j] \in Terminal => s = "forgotten"
  <2>1. SUFFICES ASSUME aws[j] \in Terminal PROVE Later[aws[j]] = {"forgotten"}
    OBVIOUS
  <2>2. aws[j] \in Statuses \cup {"absent"}
    BY <2>1, StatusNames
  <2>3. aws[j] \notin {"absent", "SUBMITTED", "PENDING"}
    BY <2>1 DEF Terminal
  <2> QED
    BY <2>1, <2>2, <2>3 DEF Later
<1>3. aws[j] # "forgotten"
  BY DEF Move
<1>4. aws \in [Jobs -> Statuses \cup {"absent", "forgotten"}]
  BY DEF IType, TypeOK
<1> QED
  BY <1>1, <1>2, <1>3, <1>4

\* What an upsert of readings or of an event says to be finished has finished.
LEMMA RowsAreFinal ==
  ASSUME IType, FinalInv, NEW R, R \subseteq mail \cup described, Upsert(R),
         \A r1, r2 \in R : r1.job = r2.job => r1 = r2, UNCHANGED aws
  PROVE  \A j \in Jobs : row'[j] \in Terminal => aws'[j] \in {row'[j], "forgotten"}
<1>1. R \subseteq Readings
  BY DEF IType, TypeOK
<1>2. \A j \in Jobs : row'[j] = row[j] \/ \E r \in R : r.job = j /\ row'[j] = r.status
  BY <1>1, UpsertWrites DEF IType
<1> QED
  BY <1>2 DEF FinalInv

\* Marks leave final rows alone, and make none final.
LEMMA MarksAreNotFinal ==
  ASSUME IType
  PROVE  \A j \in Jobs : /\ Marked[j] \in Terminal => Marked[j] = row[j]
                         /\ row[j] \in Terminal => Marked[j] = row[j]
                         /\ row[j] # "GONE" /\ Marked[j] = "GONE" =>
                              row[j] \in Counted /\ j \notin known
  BY StatusNames DEF Marked, IType, TypeOK, Terminal

\* Every step keeps it that what is said to be finished has finished.
LEMMA NextFinalInv == IType /\ FinalInv /\ [Next]_vars => FinalInv'
<1> SUFFICES ASSUME IType, FinalInv, [Next]_vars PROVE FinalInv'
  OBVIOUS
<1> USE DEF awsVars, dbVars, roundVars, history
<1>0. IType'
  BY NextIType
<1>1. ASSUME NEW j \in Jobs, Move(j) PROVE FinalInv'
  <2>1. \A e \in mail \cup described : e.job \in Jobs
    BY DEF IType, TypeOK, Readings
  <2>2. \A i \in Jobs : aws[i] \in Terminal \cup {"forgotten"} => aws'[i] \in {aws[i], "forgotten"}
    BY <1>1, MovesAreFinal
  <2>3. \A e \in mail' \ mail : e.status \in Terminal => aws'[e.job] = e.status
    BY <1>1, MovesAreFinal
  <2> QED
    BY <1>1, <2>1, <2>2, <2>3 DEF Move, FinalInv
<1>2. ASSUME NEW j \in Jobs, Age(j) PROVE FinalInv'
  BY <1>2 DEF Age, FinalInv
<1>3. ASSUME NEW q \in Queues, ToggleQueue(q) PROVE FinalInv'
  BY <1>3 DEF ToggleQueue, FinalInv
<1>4. ASSUME NEW m \in mail, Webhook(m) PROVE FinalInv'
  <2>1. \A j \in Jobs : row'[j] \in Terminal => aws'[j] \in {row'[j], "forgotten"}
    BY <1>4, RowsAreFinal DEF Webhook
  <2>2. ASSUME NEW r \in described', r.job \notin heard', row'[r.job] \in Terminal
        PROVE  r.status = row'[r.job]
    <3>1. r \in described /\ r.job \in Jobs /\ r.job \notin heard /\ r.job # m.job
      BY <1>4, <2>2 DEF Webhook, IType, TypeOK, Readings
    <3>2. row'[r.job] = row[r.job]
      <4>1. {m} \subseteq Readings /\ Upsert({m})
        BY <1>4 DEF Webhook, IType, TypeOK
      <4> QED BY <3>1, <4>1, UpsertWrites DEF IType
    <3> QED BY <2>2, <3>1, <3>2 DEF FinalInv
  <2> QED
    BY <1>4, <2>1, <2>2 DEF Webhook, FinalInv
<1>5. CASE StartRound
  BY <1>5 DEF StartRound, FinalInv, IType, RoundInv
<1>6. CASE NextQueue
  BY <1>6 DEF NextQueue, FinalInv
<1>7. CASE NextStatus
  BY <1>7 DEF NextStatus, FinalInv
<1>8. CASE ListPage
  BY <1>8 DEF ListPage, FinalInv
<1>9. CASE Describe
  <2>1. \A r \in described' : r.job \in Jobs /\ r.status = aws[r.job] /\ r.status # "forgotten"
    BY <1>9 DEF Describe, IType, TypeOK
  <2> QED
    BY <1>9, <2>1, StatusNames DEF Describe, FinalInv
<1>10. CASE StoreBatch
  <2>1. \A j \in Jobs : row'[j] \in Terminal => aws'[j] \in {row'[j], "forgotten"}
    BY <1>10, RowsAreFinal DEF StoreBatch, IType, RoundInv
  <2> QED
    BY <1>10, <2>1 DEF StoreBatch, QueueEnds, FinalInv
<1>11. CASE StoreLost
  BY <1>11 DEF StoreLost, QueueEnds, FinalInv
<1>12. ASSUME row' = Marked, UNCHANGED aws
       PROVE  \A j \in Jobs : row'[j] \in Terminal => aws'[j] \in {row'[j], "forgotten"}
  BY <1>12, MarksAreNotFinal DEF FinalInv
<1>13. CASE StaleOldJobs
  <2>1. \A j \in Jobs : row'[j] \in Terminal => aws'[j] \in {row'[j], "forgotten"}
    BY <1>12, <1>13 DEF StaleOldJobs, FinalInv
  <2> QED
    BY <1>13, <2>1 DEF StaleOldJobs, RoundEnds, QueueEnds, FinalInv
<1>14. CASE RoundFails
  <2>1. \A j \in Jobs : row'[j] \in Terminal => aws'[j] \in {row'[j], "forgotten"}
    <3>1. CASE Upsert(described)
      BY <1>14, <3>1, RowsAreFinal DEF RoundFails, IType, RoundInv
    <3>2. CASE row' = Marked
      BY <1>12, <1>14, <3>2 DEF RoundFails
    <3>3. CASE UNCHANGED row
      BY <1>14, <3>3 DEF RoundFails, FinalInv
    <3> QED
      BY <1>14, <3>1, <3>2, <3>3 DEF RoundFails
  <2> QED
    BY <1>14, <2>1 DEF RoundFails, RoundEnds, QueueEnds, FinalInv
<1>15. ASSUME NEW q \in Queues, LogSummary(q) PROVE FinalInv'
  BY <1>15 DEF LogSummary, FinalInv
<1>16. ASSUME NEW q \in Queues, LogLost(q) PROVE FinalInv'
  BY <1>16 DEF LogLost, FinalInv
<1>17. CASE UNCHANGED vars
  BY <1>17 DEF vars, FinalInv
<1> QED
  BY <1>1, <1>2, <1>3, <1>4, <1>5, <1>6, <1>7, <1>8, <1>9, <1>10, <1>11, <1>13, <1>14,
     <1>15, <1>16, <1>17 DEF Next, Poll

\* Nothing is told of an end but what was, and what AWS has now.
LEMMA EndsAreTold ==
  ASSUME IType, [Next]_vars, NEW j \in Jobs
  PROVE  Ends(j)' \subseteq Ends(j) \cup {aws'[j]}
<1> USE DEF awsVars, dbVars, roundVars, history
<1>1. ASSUME NEW k \in Jobs, Move(k) PROVE Ends(j)' \subseteq Ends(j) \cup {aws'[j]}
  <2>1. UNCHANGED <<row, described>>
    BY <1>1 DEF Move
  <2>2. \A e \in mail' \ mail : e.status \in Terminal => aws'[e.job] = e.status
    BY <1>1, MovesAreFinal
  <2> QED BY <2>1, <2>2 DEF Ends
<1>2. CASE Describe
  <2>1. UNCHANGED <<row, mail, aws>> /\ \A r \in described' : r.status = aws[r.job]
    BY <1>2 DEF Describe
  <2> QED BY <2>1 DEF Ends
<1>3. ASSUME NEW R, R \subseteq mail \cup described, \A r1, r2 \in R : r1.job = r2.job => r1 = r2, Upsert(R)
      PROVE  row'[j] \in Terminal => row'[j] \in Ends(j)
  <2>1. R \subseteq Readings
    BY <1>3 DEF IType, TypeOK
  <2>2. row'[j] = row[j] \/ \E r \in R : r.job = j /\ row'[j] = r.status
    BY <1>3, <2>1, UpsertWrites DEF IType
  <2> QED BY <1>3, <2>2 DEF Ends
<1>4. CASE UNCHANGED mail /\ described' \subseteq described /\ (row'[j] \in Terminal => row'[j] \in Ends(j))
  BY <1>4 DEF Ends
<1>5. CASE UNCHANGED row \/ row' = Marked
  <2>1. row'[j] \in Terminal => row'[j] = row[j]
    BY <1>5, MarksAreNotFinal
  <2>2. row'[j] \in Terminal => row'[j] \in Ends(j)
    BY <2>1 DEF Ends
  <2> QED
    BY <1>1, <1>2, <1>4, <2>2 DEF Next, Poll, Move, Age, ToggleQueue, Webhook, StartRound, NextQueue, NextStatus,
       ListPage, StoreBatch, StoreLost, StaleOldJobs, RoundFails, RoundEnds, QueueEnds, LogSummary, LogLost, vars
<1>6. CASE StoreBatch \/ (RoundFails /\ Upsert(described))
  <2>1. row'[j] \in Terminal => row'[j] \in Ends(j)
    BY <1>3, <1>6 DEF StoreBatch, IType, RoundInv
  <2>2. UNCHANGED mail /\ described' \subseteq described
    BY <1>6 DEF StoreBatch, RoundFails, RoundEnds, QueueEnds
  <2> QED BY <1>4, <2>1, <2>2
<1>7. ASSUME NEW m \in mail, Webhook(m) PROVE Ends(j)' \subseteq Ends(j) \cup {aws'[j]}
  <2>1. row'[j] \in Terminal => row'[j] \in Ends(j)
    BY <1>3, <1>7 DEF Webhook
  <2>2. UNCHANGED <<mail, described>>
    BY <1>7 DEF Webhook
  <2> QED BY <1>4, <2>1, <2>2
<1>8. \/ UNCHANGED row \/ row' = Marked
      \/ StoreBatch \/ (RoundFails /\ Upsert(described))
      \/ \E m \in mail : Webhook(m)
  BY DEF Next, Poll, Move, Age, ToggleQueue, StartRound, NextQueue, NextStatus, ListPage,
     Describe, StoreLost, StaleOldJobs, RoundFails, LogSummary, LogLost, vars
<1> QED BY <1>5, <1>6, <1>7, <1>8

\* A job that has an end in AWS is told no other, and after that no new one.
LEMMA NextEndsAgree == IType /\ FinalInv /\ EndsAgree /\ [Next]_vars => EndsAgree'
<1> SUFFICES ASSUME IType, FinalInv, EndsAgree, [Next]_vars, NEW j \in Jobs, NEW s \in Ends(j)', NEW t \in Ends(j)'
             PROVE  s = t
  BY DEF EndsAgree
<1>1. aws'[j] \in {s, "forgotten"} /\ aws'[j] \in {t, "forgotten"}
  BY NextFinalInv DEF FinalInv, Ends
<1>2. s \in Ends(j) \cup {aws'[j]} /\ t \in Ends(j) \cup {aws'[j]}
  BY EndsAreTold
<1>3. s # "forgotten" /\ t # "forgotten"
  BY DEF Ends, Terminal
<1> QED BY <1>1, <1>2, <1>3 DEF EndsAgree

\* A row that says its job has finished never becomes GONE nor finished otherwise; it
\* only becomes live again when an event is delivered late, or when the poller stores
\* what it described before an event overtook it.
THEOREM FinishedAlwaysStays == Spec => FinishedStays
<1> USE DEF awsVars, dbVars, roundVars, history
<1>1. ASSUME IType, FinalInv, EndsAgree, [Next]_vars
      PROVE  [\A j \in Jobs : row[j] \in Terminal /\ row'[j] # row[j] =>
                /\ row'[j] \in Counted
                /\ j \in heard \/ \E m \in mail : m.job = j /\ Webhook(m)]_vars
  <2> SUFFICES ASSUME NEW j \in Jobs, row[j] \in Terminal, row'[j] # row[j]
               PROVE  /\ row'[j] \in Counted
                      /\ j \in heard \/ \E m \in mail : m.job = j /\ Webhook(m)
    OBVIOUS
  <2>1. ASSUME NEW R, R \subseteq mail \cup described, \A r1, r2 \in R : r1.job = r2.job => r1 = r2, Upsert(R)
        PROVE  row'[j] \in Counted /\ \E r \in R : r.job = j /\ row'[j] = r.status
    <3>1. R \subseteq Readings
      BY <1>1, <2>1 DEF IType, TypeOK
    <3>2. PICK r \in R : r.job = j /\ row'[j] = r.status
      BY <1>1, <2>1, <3>1, UpsertWrites DEF IType
    <3>3. r.status \notin Terminal
      <4>1. row[j] \in Ends(j) /\ (r.status \in Terminal => r.status \in Ends(j))
        BY <2>1, <3>2 DEF Ends
      <4> QED BY <1>1, <3>2, <4>1 DEF EndsAgree
    <3> QED
      BY <2>1, <3>1, <3>2, <3>3 DEF Readings, Counted
  <2>3. ~(row' = Marked)
    BY <1>1, MarksAreNotFinal
  <2>4. CASE Upsert(described)
    <3>1. \A r1, r2 \in described : r1.job = r2.job => r1 = r2
      BY <1>1 DEF IType, RoundInv
    <3>2. row'[j] \in Counted /\ \E r \in described : r.job = j /\ row'[j] = r.status
      BY <2>1, <2>4, <3>1
    <3> QED
      BY <1>1, <3>2 DEF FinalInv
  <2>5. ASSUME NEW m \in mail, Webhook(m)
        PROVE  row'[j] \in Counted /\ m.job = j
    BY <2>1, <2>5 DEF Webhook
  <2>6. \/ row' = Marked \/ Upsert(described)
        \/ \E m \in mail : Webhook(m)
    BY <1>1 DEF Next, Poll, Move, Age, ToggleQueue, StartRound, NextQueue, NextStatus, ListPage,
       Describe, StoreBatch, StoreLost, StaleOldJobs, RoundFails, LogSummary, LogLost, vars
  <2> QED
    BY <2>3, <2>4, <2>5, <2>6
<1>2. IType /\ FinalInv /\ EndsAgree /\ [Next]_vars =>
        [\A j \in Jobs : row[j] \in Terminal /\ row'[j] # row[j] =>
           /\ row'[j] \in Counted
           /\ j \in heard \/ \E m \in mail : m.job = j /\ Webhook(m)]_vars
  BY <1>1
<1>3. Init => EndsAgree
  BY StatusNames DEF Init, EndsAgree, Ends, Terminal
<1> QED
  BY <1>2, <1>3, InitIType, NextIType, InitFinalInv, NextFinalInv, NextEndsAgree, PTL DEF Spec, FinishedStays

-----------------------------------------------------------------------------
(***************************************************************************)
(* Jobs that do not move, while a listing is a single page.                *)
(***************************************************************************)
LEMMA InitKnownInv == Init => KnownInv /\ MirrorInv
  BY DEF Init, KnownInv, MirrorInv

\* A listing that fits on one page is done with one call.
LEMMA OneCallListsAll ==
  ASSUME IType, OnePage, ListPage, results = {}
  PROVE  page' = In(cur, StatusList[si]) /\ phase' = "describe"
<1> DEFINE listed == In(cur, StatusList[si])
<1>1. cur \in Queues /\ StatusList[si] \in Statuses
  BY StatusListFacts DEF IType, RoundInv, TypeOK, ListPage
<1>2. IsFiniteSet(listed) /\ Cardinality(listed) <= PageSize
  <2>1. listed \subseteq {j \in Jobs : QueueOf[j] = cur}
    BY DEF In
  <2> QED
    BY <1>1, <2>1, QueuesAreFinite, FS_Subset DEF OnePage
<1>3. PICK P \in SUBSET listed :
        /\ Cardinality(P) = PageSize \/ P = listed
        /\ page' = P
        /\ phase' = IF P = listed THEN "describe" ELSE "list"
  BY DEF ListPage, In
<1>4. ASSUME Cardinality(P) = PageSize PROVE P = listed
  <2>1. Cardinality(P) <= Cardinality(listed) /\ (Cardinality(listed) = Cardinality(P) => listed = P)
    BY <1>2, FS_Subset
  <2>2. Cardinality(listed) \in Nat
    BY <1>2, FS_CardinalityType
  <2> QED
    BY <1>2, <1>4, <2>1, <2>2, PageSizePositive
<1> QED
  BY <1>3, <1>4

\* Who does not move stays where it is.
LEMMA StillStays ==
  ASSUME IType, NEW j \in Jobs, Move(j)
  PROVE  /\ still' = still \ {j} /\ \A i \in Jobs : i # j => aws'[i] = aws[i]
         /\ \A q, s : still' \cap In(q, s)' \subseteq still \cap In(q, s)
<1>1. still' = still \ {j} /\ \A i \in Jobs : i # j => aws'[i] = aws[i]
  BY DEF Move, IType, TypeOK
<1> QED
  BY <1>1 DEF In

\* Every step keeps it that what AWS has not moved is known once its status was listed.
LEMMA NextKnownInv == IType /\ OnePage /\ KnownInv /\ [Next]_vars => KnownInv'
<1> SUFFICES ASSUME IType, OnePage, KnownInv, [Next]_vars PROVE KnownInv'
  OBVIOUS
<1> USE DEF awsVars, dbVars, roundVars, history
<1>0. Len(StatusList) = 7 /\ si \in 1..7 /\ StatusList[si] \in Statuses
  BY StatusListFacts DEF IType, TypeOK
<1>1. ASSUME NEW j \in Jobs, Move(j) PROVE KnownInv'
  <2>1. \A q, s : still' \cap In(q, s)' \subseteq still \cap In(q, s)
    BY <1>1, StillStays
  <2>2. \A r \in described : r.job \in still' => r.job \in still /\ aws'[r.job] = aws[r.job]
    BY <1>1, StillStays DEF IType, TypeOK, Readings
  <2> QED
    BY <1>1, <2>1, <2>2 DEF Move, KnownInv, Visited
<1>2. ASSUME NEW j \in Jobs, Age(j) PROVE KnownInv'
  BY <1>2 DEF Age, KnownInv, Visited, In
<1>3. ASSUME NEW q \in Queues, ToggleQueue(q) PROVE KnownInv'
  BY <1>3 DEF ToggleQueue, KnownInv, Visited, In
<1>4. ASSUME NEW m \in mail, Webhook(m) PROVE KnownInv'
  BY <1>4 DEF Webhook, KnownInv, Visited, In
<1>5. CASE StartRound
  <2>1. described' = {} /\ si' = 1 /\ left' = queues' /\ phase' = "next"
    BY <1>5 DEF StartRound, IType, RoundInv
  <2>2. \A q \in queues', k \in 1..7 : ~Visited(q, k)'
    BY <2>1 DEF Visited
  <2> QED
    BY <1>0, <2>1, <2>2 DEF KnownInv
<1>6. CASE NextQueue
  <2>1. results' = {} /\ phase' = "list"
    BY <1>6 DEF NextQueue, IType, RoundInv
  <2>2. \A q \in queues, k \in 1..7 : Visited(q, k)' => Visited(q, k)
    <3>1. phase = "next" /\ cur = NoQueue /\ left \subseteq left' \cup {cur'} /\ si' = si
      BY <1>6 DEF NextQueue, IType, RoundInv
    <3>2. queues \subseteq Queues
      BY DEF IType, TypeOK
    <3> QED
      BY <2>1, <3>1, <3>2, NoQueueIsNone DEF Visited
  <2> QED
    BY <1>0, <1>6, <2>1, <2>2 DEF NextQueue, KnownInv, In
<1>7. CASE NextStatus
  <2>1. \A q \in queues, k \in 1..7 : Visited(q, k)' => Visited(q, k)
    BY <1>0, <1>7, NoQueueIsNone DEF NextStatus, Visited, IType, TypeOK, RoundInv
  <2> QED
    BY <1>0, <1>7, <2>1 DEF NextStatus, KnownInv, In
<1>8. CASE ListPage
  <2>1. page' = In(cur, StatusList[si]) /\ phase' = "describe"
    BY <1>8, OneCallListsAll DEF ListPage, KnownInv
  <2>2. phase = "list"
    BY <1>8 DEF ListPage
  <2>3. \A q \in queues, k \in 1..7 : Visited(q, k)' => Visited(q, k)
    BY <1>8, <2>1, <2>2 DEF ListPage, Visited
  <2> QED
    BY <1>0, <1>8, <2>1, <2>2, <2>3 DEF ListPage, KnownInv, In
<1>9. CASE Describe
  <2>1. /\ described' = {[job |-> j, status |-> aws[j]] : j \in {i \in page : aws[i] # "forgotten"}}
        /\ phase = "describe" /\ phase' = "store"
    BY <1>9 DEF Describe
  <2>2. still \cap In(cur, StatusList[si]) \subseteq {r.job : r \in described'}
    <3> SUFFICES ASSUME NEW j \in still \cap In(cur, StatusList[si])
                 PROVE  \E r \in described' : r.job = j
      OBVIOUS
    <3>1. j \in page /\ aws[j] # "forgotten"
      BY <1>0, <2>1, StatusNames DEF KnownInv, In
    <3>2. [job |-> j, status |-> aws[j]] \in described'
      BY <2>1, <3>1
    <3> QED
      BY <3>2
  <2>3. \A r \in described' : r.status = aws[r.job]
    BY <2>1
  <2>4. \A q \in queues, k \in 1..7 : Visited(q, k)' => Visited(q, k)
    BY <1>9, <2>1 DEF Describe, Visited
  <2> QED
    BY <1>0, <1>9, <2>1, <2>2, <2>3, <2>4 DEF Describe, KnownInv, In
<1>10. ASSUME phase = "store", phase' = "next", Noted, cur' = NoQueue, described' = {},
              UNCHANGED <<aws, queues, si, left, still>>
       PROVE  KnownInv'
  <2>1. known' = known \cup {r.job : r \in described}
    BY <1>10 DEF Noted
  <2>2. ASSUME NEW q \in queues, NEW k \in 1..7, Visited(q, k)', NEW j \in still \cap In(q, StatusList[k])
        PROVE  j \in known'
    <3>1. CASE Visited(q, k)
      BY <1>0, <1>10, <2>1, <2>2, <3>1 DEF KnownInv
    <3>2. CASE ~Visited(q, k)
      <4>1. q = cur /\ k = si
        BY <1>0, <1>10, <2>2, <3>2 DEF Visited
      <4> QED
        BY <1>10, <2>1, <2>2, <4>1 DEF KnownInv
    <3> QED
      BY <3>1, <3>2
  <2> QED
    BY <1>0, <1>10, <2>2 DEF KnownInv, In
<1>11. CASE StoreBatch
  BY <1>10, <1>11 DEF StoreBatch, QueueEnds
<1>12. CASE StoreLost
  BY <1>10, <1>12 DEF StoreLost, QueueEnds
<1>13. CASE StaleOldJobs
  BY <1>13 DEF StaleOldJobs, RoundEnds, QueueEnds, KnownInv
<1>14. CASE RoundFails
  BY <1>14 DEF RoundFails, RoundEnds, QueueEnds, KnownInv
<1>15. ASSUME NEW q \in Queues, LogSummary(q) PROVE KnownInv'
  BY <1>15 DEF LogSummary, KnownInv, Visited, In
<1>16. ASSUME NEW q \in Queues, LogLost(q) PROVE KnownInv'
  BY <1>16 DEF LogLost, KnownInv, Visited, In
<1>17. CASE UNCHANGED vars
  BY <1>17 DEF vars, KnownInv, Visited, In
<1> QED
  BY <1>1, <1>2, <1>3, <1>4, <1>5, <1>6, <1>7, <1>8, <1>9, <1>11, <1>12, <1>13, <1>14,
     <1>15, <1>16, <1>17 DEF Next, Poll

\* At the end of a round it knows the jobs of its queues that AWS has listed in one
\* status since it began.
LEMMA StillIsKnown ==
  ASSUME IType, KnownInv, phase = "summary",
         NEW j \in still, Listed(j), QueueOf[j] \in queues
  PROVE  j \in known
<1>1. PICK k \in 1..7 : StatusList[k] = aws[j]
  BY StatusListFacts DEF Listed
<1>2. Visited(QueueOf[j], k)
  BY DEF Visited
<1>3. j \in In(QueueOf[j], StatusList[k])
  BY <1>1 DEF In, IType, TypeOK
<1> QED
  BY <1>1, <1>2, <1>3, StatusListFacts DEF KnownInv

\* While listings are a single page, a job that AWS has listed in one status all
\* through a round is not marked GONE by it, whatever fails and whoever else writes.
THEOREM PresentIsNeverGone == Spec /\ []OnePage => PresentIsNotGone
<1>1. IType /\ KnownInv /\ [Next]_vars =>
        [\A j \in Jobs : row'[j] = "GONE" /\ row[j] # "GONE" =>
           ~(j \in still /\ Listed(j) /\ QueueOf[j] \in queues)]_vars
  <2> SUFFICES ASSUME IType, KnownInv, [Next]_vars,
                      NEW j \in Jobs, row'[j] = "GONE", row[j] # "GONE",
                      j \in still, Listed(j), QueueOf[j] \in queues
               PROVE  FALSE
    OBVIOUS
  <2>1. ASSUME NEW R, R \subseteq Readings, \A r1, r2 \in R : r1.job = r2.job => r1 = r2, Upsert(R)
        PROVE  FALSE
    <3>1. \E r \in R : r.status = "GONE"
      BY <2>1, UpsertWrites DEF IType
    <3> QED
      BY <2>1, <3>1, StatusNames DEF Readings
  <2>2. CASE Upsert(described)
    BY <2>1, <2>2 DEF IType, TypeOK, RoundInv
  <2>3. ASSUME NEW m \in mail, Upsert({m}) PROVE FALSE
    BY <2>1, <2>3 DEF IType, TypeOK
  <2>4. CASE row' = Marked /\ phase = "summary"
    BY <2>4, StillIsKnown, MarksAreNotFinal
  <2>5. \/ UNCHANGED row \/ (row' = Marked /\ phase = "summary") \/ Upsert(described)
        \/ \E m \in mail : Upsert({m})
    BY DEF Next, Poll, Move, Age, ToggleQueue, Webhook, StartRound, NextQueue, NextStatus, ListPage,
       Describe, StoreBatch, StoreLost, StaleOldJobs, RoundFails, LogSummary, LogLost, vars, dbVars
  <2> QED
    BY <2>2, <2>3, <2>4, <2>5
<1>2. Init => IType /\ KnownInv
  BY InitIType, InitKnownInv
<1>3. IType /\ KnownInv /\ OnePage /\ [Next]_vars => IType' /\ KnownInv'
  BY NextIType, NextKnownInv
<1> QED
  BY <1>1, <1>2, <1>3, PTL DEF Spec, PresentIsNotGone

-----------------------------------------------------------------------------
(***************************************************************************)
(* The mirror.                                                             *)
(***************************************************************************)
LEMMA NextMirrorInv == IType /\ KnownInv /\ MirrorInv /\ [Next]_vars => MirrorInv'
<1> SUFFICES ASSUME IType, KnownInv, MirrorInv, [Next]_vars PROVE MirrorInv'
  OBVIOUS
<1> USE DEF awsVars, dbVars, roundVars, history
<1>1. ASSUME NEW j \in Jobs, Move(j) PROVE MirrorInv'
  <2>1. \A i \in still' : i \in still /\ i \in Jobs /\ aws'[i] = aws[i]
    BY <1>1, StillStays DEF IType, TypeOK
  <2> QED
    BY <1>1, <2>1 DEF Move, MirrorInv, Listed
<1>2. ASSUME NEW j \in Jobs, Age(j) PROVE MirrorInv'
  BY <1>2 DEF Age, MirrorInv, Listed
<1>3. ASSUME ~calm' PROVE MirrorInv'
  BY <1>3 DEF MirrorInv
<1>4. CASE StartRound
  BY <1>4 DEF StartRound, MirrorInv, IType, RoundInv
<1>5. ASSUME NextQueue \/ NextStatus \/ ListPage \/ Describe PROVE MirrorInv'
  BY <1>5 DEF NextQueue, NextStatus, ListPage, Describe, MirrorInv
<1>6. CASE StoreBatch
  <2>1. /\ \A j \in Jobs : row'[j] = row[j] \/ \E r \in described : r.job = j /\ row'[j] = r.status
        /\ \A r \in described : row'[r.job] = r.status
    BY <1>6, UpsertWrites DEF StoreBatch, IType, TypeOK, RoundInv
  <2>2. known' = known \cup {r.job : r \in described}
    BY <1>6 DEF StoreBatch, Noted
  <2>3. ASSUME calm, NEW j \in known' \cap still PROVE row'[j] = aws[j]
    <3>1. \A r \in described : r.job = j => r.status = aws[j]
      BY <2>3 DEF KnownInv
    <3>2. CASE j \in known
      BY <1>6, <2>1, <2>3, <3>1, <3>2 DEF StoreBatch, MirrorInv, IType, TypeOK
    <3>3. CASE j \notin known
      BY <2>1, <2>2, <2>3, <3>1, <3>3
    <3> QED
      BY <3>2, <3>3
  <2> QED
    BY <1>6, <2>3 DEF StoreBatch, MirrorInv
<1>7. CASE StaleOldJobs
  <2>1. ASSUME calm, NEW j \in still, Listed(j), QueueOf[j] \in queues PROVE row'[j] = aws[j]
    <3>1. j \in known /\ j \in Jobs
      BY <1>7, <2>1, StillIsKnown DEF StaleOldJobs, IType, TypeOK
    <3>2. row[j] = aws[j]
      BY <1>7, <2>1, <3>1 DEF StaleOldJobs, MirrorInv
    <3> QED
      BY <1>7, <3>1, <3>2 DEF StaleOldJobs, Marked
  <2> QED
    BY <1>7, <2>1 DEF StaleOldJobs, RoundEnds, MirrorInv, Listed
<1>8. CASE RoundFails
  BY <1>8 DEF RoundFails, RoundEnds, MirrorInv
<1>9. ASSUME NEW q \in Queues, LogSummary(q) PROVE MirrorInv'
  BY <1>9 DEF LogSummary, MirrorInv
<1>10. CASE UNCHANGED vars
  BY <1>10 DEF vars, MirrorInv, Listed
<1>11. (\E q \in Queues : ToggleQueue(q) \/ LogLost(q)) \/ (\E m \in mail : Webhook(m)) \/ StoreLost
         => ~calm'
  BY DEF ToggleQueue, LogLost, Webhook, StoreLost
<1> QED
  BY <1>1, <1>2, <1>3, <1>4, <1>5, <1>6, <1>7, <1>8, <1>9, <1>10, <1>11 DEF Next, Poll

-----------------------------------------------------------------------------
(***************************************************************************)
(* The summaries.                                                          *)
(***************************************************************************)
LEMMA InitCountInv == Init => CountInv
  BY DEF Init, CountInv

\* There are as many readings of one status as jobs.
LEMMA ReadingsOfOneStatus ==
  ASSUME NEW P, IsFiniteSet(P), NEW s
  PROVE  Cardinality({[job |-> j, status |-> s] : j \in P}) = Cardinality(P)
<1> DEFINE R == {[job |-> j, status |-> s] : j \in P}
           reading == [j \in P |-> [job |-> j, status |-> s]]
<1>1. reading \in [P -> R]
  OBVIOUS
<1>2. \A j, k \in P : reading[j] = reading[k] => j = k
  OBVIOUS
<1>3. \A r \in R : \E j \in P : reading[j] = r
  OBVIOUS
<1>4. reading \in Bijection(P, R)
  BY <1>1, <1>2, <1>3 DEF Bijection, Injection, Surjection, IsInjective
<1> QED
  BY <1>4, FS_Bijection DEF ExistsBijection

\* What a batch adds to the summary when no job moves: the jobs of the status it
\* was listed in.
LEMMA BatchIsCounted ==
  ASSUME IType, CountInv, still = Jobs, phase = "store", Noted
  PROVE  \A q \in queues, k \in 1..7 : StatusList[k] \in Counted =>
           summary'[q][StatusList[k]] =
             IF q = cur /\ k = si
               THEN summary[q][StatusList[k]] + Cardinality(In(cur, StatusList[si]))
               ELSE summary[q][StatusList[k]]
<1> DEFINE number(s) == Cardinality({r \in described : r.status = s})
<1>1. cur \in queues /\ cur \in Queues /\ si \in 1..7 /\ IsFiniteSet(page)
  BY StatusListFacts, DescribedIsFinite DEF IType, RoundInv, TypeOK
<1>2. summary' = [summary EXCEPT ![cur] = [s \in Counted |-> summary[cur][s] + number(s)]]
  BY DEF Noted
<1>3. described = {[job |-> j, status |-> StatusList[si]] : j \in page} /\ page = In(cur, StatusList[si])
  BY DEF CountInv
<1>4. number(StatusList[si]) = Cardinality(In(cur, StatusList[si]))
  <2>1. {r \in described : r.status = StatusList[si]} = described
    BY <1>3
  <2> QED
    BY <1>1, <1>3, <2>1, ReadingsOfOneStatus
<1>5. ASSUME NEW k \in 1..7, k # si PROVE number(StatusList[k]) = 0
  <2>1. StatusList[k] # StatusList[si]
    BY <1>1, <1>5, StatusListFacts
  <2>2. {r \in described : r.status = StatusList[k]} = {}
    BY <1>3, <2>1
  <2> QED
    BY <2>2, FS_EmptySet
<1> HIDE DEF number
<1>6. summary \in [Queues -> [Counted -> Nat]] /\ queues \subseteq Queues
  BY DEF IType, TypeOK
<1> SUFFICES ASSUME NEW q \in queues, NEW k \in 1..7, StatusList[k] \in Counted
             PROVE  summary'[q][StatusList[k]] =
                      IF q = cur /\ k = si
                        THEN summary[q][StatusList[k]] + Cardinality(In(cur, StatusList[si]))
                        ELSE summary[q][StatusList[k]]
  OBVIOUS
<1>7. CASE q # cur
  BY <1>2, <1>6, <1>7
<1>8. CASE q = cur
  <2>1. summary'[q][StatusList[k]] = summary[q][StatusList[k]] + number(StatusList[k])
    BY <1>1, <1>2, <1>6, <1>8
  <2>2. summary[q][StatusList[k]] \in Nat
    BY <1>1, <1>6, <1>8
  <2> QED
    BY <1>4, <1>5, <1>8, <2>1, <2>2
<1> QED
  BY <1>7, <1>8

\* The counts of a round in whose step no job moves and no batch is noted.
LEMMA CountsCarryOver ==
  ASSUME IType, CountInv, phase # "sleep", still = Jobs, UNCHANGED <<aws, queues, summary>>,
         \A q \in queues, k \in 1..7 : Visited(q, k)' <=> Visited(q, k)
  PROVE  \A q \in queues', k \in 1..Len(StatusList) : StatusList[k] \in Counted =>
           summary'[q][StatusList[k]] =
             IF Visited(q, k)' THEN Cardinality(In(q, StatusList[k])') ELSE 0
<1>1. \A q, s : In(q, s)' = In(q, s)
  BY DEF In
<1>2. Len(StatusList) = 7
  BY StatusListFacts
<1> QED
  BY <1>1, <1>2 DEF CountInv

\* A step that leaves these alone keeps the counts.
LEMMA CountsUnchanged ==
  ASSUME CountInv, UNCHANGED <<aws, queues, summary, phase, cur, si, left, page, described, logged, still, calm>>
  PROVE  CountInv'
<1>1. \A q, s : In(q, s)' = In(q, s)
  BY DEF In
<1>2. \A q, k : Visited(q, k)' <=> Visited(q, k)
  BY DEF Visited
<1>3. In(cur, StatusList[si])' = In(cur, StatusList[si])
  BY DEF In
<1> QED
  BY <1>1, <1>2, <1>3 DEF CountInv

\* Every step keeps the counts of a round in which nothing has moved.
LEMMA NextCountInv == IType /\ OnePage /\ KnownInv /\ CountInv /\ [Next]_vars => CountInv'
<1> SUFFICES ASSUME IType, OnePage, KnownInv, CountInv, [Next]_vars, still' = Jobs PROVE CountInv'
  BY DEF CountInv
<1> USE DEF awsVars, dbVars, roundVars, history
<1>0. Len(StatusList) = 7 /\ si \in 1..7 /\ \A k \in 1..7 : StatusList[k] \in Statuses
  BY StatusListFacts DEF IType, TypeOK
<1>1. ASSUME NEW j \in Jobs, Move(j) PROVE CountInv'
  BY <1>1 DEF Move
<1>2. ASSUME NEW j \in Jobs, Age(j) PROVE CountInv'
  BY <1>2, CountsUnchanged DEF Age
<1>3. ASSUME NEW q \in Queues, ToggleQueue(q) PROVE CountInv'
  BY <1>3 DEF ToggleQueue, CountInv, Visited, In
<1>4. ASSUME NEW m \in mail, Webhook(m) PROVE CountInv'
  BY <1>4 DEF Webhook, CountInv, Visited, In
<1>5. CASE StartRound
  <2>1. si' = 1 /\ left' = queues' /\ phase' = "next" /\ queues' \subseteq Queues
        /\ summary' = [q \in Queues |-> NoCount]
    BY <1>5 DEF StartRound, IType, TypeOK, RoundInv
  <2>2. \A q \in queues', k \in 1..7 : ~Visited(q, k)'
    BY <2>1 DEF Visited
  <2>3. \A q \in queues', s \in Counted : summary'[q][s] = 0
    BY <2>1 DEF NoCount
  <2> QED
    BY <1>0, <2>1, <2>2, <2>3 DEF CountInv
<1>6. CASE NextQueue
  <2>1. phase' = "list"
    BY <1>6 DEF NextQueue
  <2>2. \A q \in queues, k \in 1..7 : Visited(q, k)' <=> Visited(q, k)
    <3>1. /\ phase = "next" /\ cur = NoQueue /\ left = left' \cup {cur'} /\ si' = si
      BY <1>6 DEF NextQueue, IType, RoundInv
    <3>2. queues \subseteq Queues
      BY DEF IType, TypeOK
    <3> QED
      BY <2>1, <3>1, <3>2, NoQueueIsNone DEF Visited
  <2> QED
    BY <1>6, <2>1, <2>2, CountsCarryOver DEF NextQueue, CountInv
<1>7. CASE NextStatus
  <2>1. \A q \in queues, k \in 1..7 : Visited(q, k)' <=> Visited(q, k)
    BY <1>0, <1>7, NoQueueIsNone DEF NextStatus, Visited, IType, TypeOK, RoundInv
  <2>2. phase' = "summary" => queues' \ left' = {}
    BY <1>7 DEF NextStatus
  <2>3. phase' \in {"next", "summary"}
    BY <1>7 DEF NextStatus
  <2> QED
    BY <1>7, <2>1, <2>2, <2>3, CountsCarryOver DEF NextStatus, CountInv
<1>8. CASE ListPage
  <2>1. page' = In(cur, StatusList[si]) /\ phase' = "describe" /\ phase = "list"
    BY <1>8, OneCallListsAll DEF ListPage, KnownInv
  <2>2. \A q \in queues, k \in 1..7 : Visited(q, k)' <=> Visited(q, k)
    BY <1>8, <2>1 DEF ListPage, Visited
  <2>3. page' = In(cur, StatusList[si])'
    BY <1>8, <2>1 DEF ListPage, In
  <2> QED
    BY <1>8, <2>1, <2>2, <2>3, CountsCarryOver DEF ListPage, CountInv
<1>9. CASE Describe
  <2>1. /\ described' = {[job |-> j, status |-> aws[j]] : j \in {i \in page : aws[i] # "forgotten"}}
        /\ phase = "describe" /\ phase' = "store" /\ still = Jobs
    BY <1>9 DEF Describe
  <2>2. page = In(cur, StatusList[si])
    BY <2>1 DEF CountInv
  <2>3. \A j \in page : aws[j] = StatusList[si] /\ aws[j] # "forgotten"
    BY <1>0, <2>2, StatusNames DEF In
  <2>4. described' = {[job |-> j, status |-> StatusList[si]] : j \in page}
    BY <2>1, <2>3
  <2>5. \A q \in queues, k \in 1..7 : Visited(q, k)' <=> Visited(q, k)
    BY <1>9, <2>1 DEF Describe, Visited
  <2>6. page' = In(cur, StatusList[si])' /\ described' = {[job |-> j, status |-> StatusList[si']] : j \in page'}
    BY <1>9, <2>2, <2>4 DEF Describe, In
  <2> QED
    BY <1>9, <2>1, <2>5, <2>6, CountsCarryOver DEF Describe, CountInv
<1>10. ASSUME phase = "store", phase' = "next", Noted, cur' = NoQueue, described' = {},
              UNCHANGED <<aws, queues, si, left, still>>
       PROVE  CountInv'
  <2> SUFFICES ASSUME NEW q \in queues, NEW k \in 1..7, StatusList[k] \in Counted
               PROVE  summary'[q][StatusList[k]] =
                        IF Visited(q, k)' THEN Cardinality(In(q, StatusList[k])) ELSE 0
    BY <1>0, <1>10 DEF CountInv, In
  <2>1. cur \in queues \ left /\ queues \subseteq Queues
    BY <1>10 DEF IType, TypeOK, RoundInv
  <2>2. summary[q][StatusList[k]] = IF Visited(q, k) THEN Cardinality(In(q, StatusList[k])) ELSE 0
    BY <1>0, <1>10 DEF CountInv
  <2>3. CASE q = cur /\ k = si
    <3>1. ~Visited(q, k) /\ Visited(q, k)'
      BY <1>0, <1>10, <2>1, <2>3, NoQueueIsNone DEF Visited
    <3>2. IsFiniteSet(In(q, StatusList[k]))
      <4>1. In(q, StatusList[k]) \subseteq {j \in Jobs : QueueOf[j] = q}
        BY DEF In
      <4> QED
        BY <2>1, <4>1, QueuesAreFinite, FS_Subset
    <3>3. Cardinality(In(q, StatusList[k])) \in Nat
      BY <3>2, FS_CardinalityType
    <3> QED
      BY <1>10, <2>2, <2>3, <3>1, <3>3, BatchIsCounted
  <2>4. CASE ~(q = cur /\ k = si)
    <3>1. Visited(q, k)' <=> Visited(q, k)
      BY <1>0, <1>10, <2>1, <2>4, NoQueueIsNone DEF Visited
    <3> QED
      BY <1>10, <2>2, <2>4, <3>1, BatchIsCounted
  <2> QED
    BY <2>3, <2>4
<1>11. CASE StoreBatch
  BY <1>10, <1>11 DEF StoreBatch, QueueEnds
<1>12. CASE StoreLost
  BY <1>10, <1>12 DEF StoreLost, QueueEnds
<1>13. CASE StaleOldJobs
  <2>1. ASSUME calm, NEW q \in queues, NEW s \in Counted
        PROVE  logged[q][s] = Cardinality(In(q, s))
    <3>1. PICK k \in 1..7 : StatusList[k] = s
      BY StatusListFacts, StatusNames
    <3>2. Visited(q, k) /\ logged[q] = summary[q]
      BY <1>13, <2>1 DEF StaleOldJobs, CountInv, Visited
    <3>3. summary[q][StatusList[k]] = Cardinality(In(q, StatusList[k]))
      BY <1>0, <1>13, <3>1, <3>2 DEF StaleOldJobs, CountInv
    <3> QED
      BY <3>1, <3>2, <3>3
  <2> QED
    BY <1>13, <2>1 DEF StaleOldJobs, RoundEnds, QueueEnds, CountInv, In
<1>14. CASE RoundFails
  BY <1>14 DEF RoundFails, RoundEnds, QueueEnds, CountInv
<1>15. ASSUME NEW q \in Queues, LogSummary(q) PROVE CountInv'
  <2>1. calm => \A p \in queues \ left' : logged'[p] = summary[p]
    BY <1>15 DEF LogSummary, CountInv, IType, TypeOK
  <2> QED
    BY <1>15, <2>1 DEF LogSummary, CountInv, Visited, In
<1>16. ASSUME NEW q \in Queues, LogLost(q) PROVE CountInv'
  BY <1>16 DEF LogLost, CountInv, Visited, In
<1>17. CASE UNCHANGED vars
  BY <1>17, CountsUnchanged DEF vars
<1> QED
  BY <1>1, <1>2, <1>3, <1>4, <1>5, <1>6, <1>7, <1>8, <1>9, <1>11, <1>12, <1>13, <1>14,
     <1>15, <1>16, <1>17 DEF Next, Poll

\* While listings are a single page, the rows and the summaries of a round's queues
\* are what AWS has after a complete round in which nothing moved, no write was lost
\* and nobody else wrote.
THEOREM QuietRoundAlwaysMirrors == Spec /\ []OnePage => []QuietRoundMirrors
<1> DEFINE IMirror == IType /\ KnownInv /\ MirrorInv /\ CountInv
<1>1. Init => IMirror
  BY InitIType, InitKnownInv, InitCountInv
<1>2. IMirror /\ OnePage /\ [Next]_vars => IMirror'
  BY NextIType, NextKnownInv, NextMirrorInv, NextCountInv
<1>3. IMirror => QuietRoundMirrors
  <2> SUFFICES ASSUME IMirror, phase = "sleep", calm, still = Jobs
               PROVE  /\ \A j \in Jobs : Listed(j) /\ QueueOf[j] \in queues => row[j] = aws[j]
                      /\ \A q \in queues, s \in Counted :
                           logged[q][s] = Cardinality({j \in Jobs : QueueOf[j] = q /\ aws[j] = s})
    BY DEF QuietRoundMirrors
  <2> QED
    BY DEF MirrorInv, CountInv, In
<1> QED
  BY <1>1, <1>2, <1>3, PTL DEF Spec

\* A queue that never has more jobs than a page has no listing of two.
LEMMA FewJobsOnePage ==
  ASSUME \A q \in Queues : Cardinality({j \in Jobs : QueueOf[j] = q}) <= PageSize
  PROVE  OnePage
<1> SUFFICES ASSUME NEW q \in Queues, NEW s \in Statuses PROVE Cardinality(In(q, s)) <= PageSize
  BY DEF OnePage
<1> DEFINE all == {j \in Jobs : QueueOf[j] = q}
<1>1. IsFiniteSet(all) /\ Cardinality(all) <= PageSize
  BY QueuesAreFinite
<1>2. In(q, s) \in SUBSET all
  BY DEF In
<1> HIDE DEF all
<1>3. Cardinality(In(q, s)) <= Cardinality(all) /\ IsFiniteSet(In(q, s))
  BY <1>1, <1>2, FS_Subset
<1> QED
  BY <1>1, <1>3, FS_CardinalityType, PageSizePositive

\* Both hold in particular for queues of no more jobs than a page has room for.
COROLLARY FewJobsMirrored ==
  (\A q \in Queues : Cardinality({j \in Jobs : QueueOf[j] = q}) <= PageSize)
    => (Spec => PresentIsNotGone /\ []QuietRoundMirrors)
<1> SUFFICES ASSUME \A q \in Queues : Cardinality({j \in Jobs : QueueOf[j] = q}) <= PageSize
             PROVE  Spec => PresentIsNotGone /\ []QuietRoundMirrors
  OBVIOUS
<1>1. OnePage
  BY FewJobsOnePage
<1> QED
  BY <1>1, PresentIsNeverGone, QuietRoundAlwaysMirrors, PTL
=============================================================================
