-------------------------- MODULE ScalerLoopProofs --------------------------
(***************************************************************************)
(* Proofs about ScalerLoop, for any queues, environments and instances and *)
(* whatever the environment does or fails: types; that only an instance    *)
(* that is gone disappears; that a round without changes settles.          *)
(***************************************************************************)
EXTENDS ScalerLoop, FiniteSetTheorems, TLAPS

\* The loop updates an environment only while it scales.
IType == TypeOK /\ (pc # "scale" => doing = {})

\* What is or was seen has been there, and what is not seen, although it is behind
\* one of the round's queues, has ended if it ever was there.
BehindInv ==
  /\ \A i \in Instances : registered[i] = "alive" \/ i \in seen => instance[i] # "none"
  /\ pc = "write" => \A i \in Registry!Behind(queues) \ seen :
                       registered[i] = "alive" => instance[i] = "ended"

\* The instances alive are those behind the queues.
Settled == \E Q \in Registry!Answers : \A i \in Instances :
             registered[i] = "alive" <=> i \in Registry!Behind(Q) /\ instance[i] = "up"

\* In a calm round what was seen of the instances is so, and is written.
RegistryInv ==
  calm =>
    /\ pc = "write" => \E Q \in Registry!Answers : seen = {i \in Registry!Behind(Q) : instance[i] = "up"}
    /\ pc \notin {"ecs", "write"} => Settled

\* The sum of f over a set, as the scaler computes it.
Sum(f, S) == MapThenSumSet(LAMBDA q : f[q], S)

\* The environments that the scaler updates.
Scalable(c) == c \in Managed /\ ce[c].valid /\ ce[c].enabled

\* In a calm round an environment is wanted for the load of the queues that have
\* it first, has the minimum that is right for it once it is done, and is read and
\* then logged as it is, if it is kept.
Scales(c) ==
  LET F == Scaler!Followers(queues, c) IN
  /\ wanted[c] = Sum(load, F)
  /\ F # {} /\ c \notin todo => (Scalable(c) => ce[c].min = Scaler!Target(c))

ScalerInv ==
  /\ pc \in {"scale", "read", "log"} => queues # {}
  /\ calm /\ pc = "scale" => \A c \in Environments : Scales(c)
  /\ calm /\ pc \in {"read", "log", "kill", "sleep"} /\ queues # {} =>
       \A c \in Environments : Scaler!Follows(queues, c)
  /\ calm /\ pc = "log" => \A c \in Managed \cap WithRole : reading[c] = Scaler!Entry(c)
  /\ calm /\ pc \in {"kill", "sleep"} /\ queues # {} =>
       \A c \in Managed \cap WithRole : Scaler!InLog(c)

-----------------------------------------------------------------------------
(***************************************************************************)
(* Sums.  What MapThenSumSet computes is the number of units of all        *)
(* elements, by induction along the strict subsets of a finite set.        *)
(***************************************************************************)
\* The element the library adds first.
Any(s) == CHOOSE x \in s : TRUE

\* g has the sum of f over each subset of S.
IsSum(g, f, S) == g = [s \in SUBSET S |-> IF s = {} THEN 0 ELSE f[Any(s)] + g[s \ {Any(s)}]]

\* The units of the elements of s: f of each.
Units(f, s) == {p \in s \X Nat : p[2] \in 1..f[p[1]]}

\* Sum is what the library's recursive function gives.
LEMMA SumIsIter ==
  ASSUME NEW f, NEW S
  PROVE  Sum(f, S) = (CHOOSE g : IsSum(g, f, S))[S]
BY DEF Sum, IsSum, MapThenSumSet, MapThenFoldSet, Any

\* The units of one element are as many as it has.
LEMMA UnitsOfOne ==
  ASSUME NEW Q, NEW f \in [Q -> Nat], NEW x \in Q
  PROVE  IsFiniteSet(Units(f, {x})) /\ Cardinality(Units(f, {x})) = f[x]
<1> DEFINE h == [k \in 1..f[x] |-> <<x, k>>]
<1>0. f[x] \in Nat
  OBVIOUS
<1>1. Units(f, {x}) = {<<x, k>> : k \in 1..f[x]}
  BY <1>0 DEF Units
<1>2. h \in Bijection(1..f[x], Units(f, {x}))
  BY <1>1 DEF Bijection, Injection, Surjection, IsInjective
<1>3. IsFiniteSet(1..f[x]) /\ Cardinality(1..f[x]) = f[x]
  BY <1>0, FS_Interval
<1> HIDE DEF h
<1> QED BY <1>2, <1>3, FS_Bijection DEF ExistsBijection

\* One more element has its units, and the others theirs.
LEMMA UnitsOfMore ==
  ASSUME NEW Q, NEW f \in [Q -> Nat], NEW s \in SUBSET Q, NEW x \in s, IsFiniteSet(Units(f, s \ {x}))
  PROVE  /\ IsFiniteSet(Units(f, s))
         /\ Cardinality(Units(f, s)) = f[x] + Cardinality(Units(f, s \ {x}))
<1>1. Units(f, s) = Units(f, {x}) \cup Units(f, s \ {x})
  BY DEF Units
<1>2. Units(f, {x}) \cap Units(f, s \ {x}) = {}
  BY DEF Units
<1>3. IsFiniteSet(Units(f, {x})) /\ Cardinality(Units(f, {x})) = f[x]
  BY UnitsOfOne
<1>4. Cardinality(Units(f, s \ {x})) \in Nat
  BY FS_CardinalityType
<1> DEFINE one == Units(f, {x})
           others == Units(f, s \ {x})
<1>5. f[x] \in Nat
  OBVIOUS
<1> HIDE DEF one, others
<1>6. IsFiniteSet(one \cup others) /\
      Cardinality(one \cup others) = Cardinality(one) + Cardinality(others) - Cardinality(one \cap others)
  <2>1. IsFiniteSet(one) /\ IsFiniteSet(others)
    BY <1>3 DEF one, others
  <2> QED BY <2>1, FS_Union
<1>7. Cardinality(one \cap others) = 0
  BY <1>2, FS_EmptySet DEF one, others
<1> QED BY <1>1, <1>3, <1>4, <1>5, <1>6, <1>7 DEF one, others

\* Finitely many elements have finitely many units.
LEMMA UnitsAreFinite ==
  ASSUME NEW Q, NEW f \in [Q -> Nat], NEW S \in SUBSET Q, IsFiniteSet(S)
  PROVE  IsFiniteSet(Units(f, S))
<1> DEFINE T == {s \in FiniteSubsetsOf(S) : ~IsFiniteSet(Units(f, s))}
<1>1. SUFFICES ASSUME T # {} PROVE FALSE
  BY DEF FiniteSubsetsOf
<1>2. PICK s \in T : \A t \in T : <<t, s>> \notin StrictSubsetOrdering(S)
  BY <1>1, FS_StrictSubsetOrderingWellFounded, WFMin
<1>3. s # {}
  <2>1. Units(f, {}) = {}
    BY DEF Units
  <2> QED BY <2>1, FS_EmptySet
<1>4. PICK x \in s : TRUE
  BY <1>3
<1>5. s \ {x} \in FiniteSubsetsOf(S) /\ s \in SUBSET S /\ s \ {x} \subseteq s /\ s \ {x} # s
  BY <1>4, FS_RemoveElement DEF FiniteSubsetsOf
<1>6. <<s \ {x}, s>> \in StrictSubsetOrdering(S)
  BY <1>5 DEF StrictSubsetOrdering
<1>7. IsFiniteSet(Units(f, s \ {x}))
  BY <1>2, <1>5, <1>6
<1>8. IsFiniteSet(Units(f, s))
  BY <1>5, <1>7, UnitsOfMore
<1> QED BY <1>8

\* There is a function with the sums over all subsets.
LEMMA SumExists ==
  ASSUME NEW Q, NEW f \in [Q -> Nat], NEW S \in SUBSET Q, IsFiniteSet(S)
  PROVE  \E g : IsSum(g, f, S)
<1> DEFINE g == [s \in SUBSET S |-> Cardinality(Units(f, s))]
<1>1. ASSUME NEW s \in SUBSET S
      PROVE  g[s] = IF s = {} THEN 0 ELSE f[Any(s)] + g[s \ {Any(s)}]
  <2>1. CASE s = {}
    <3>1. Units(f, s) = {}
      BY <2>1 DEF Units
    <3> QED BY <2>1, <3>1, FS_EmptySet
  <2>2. CASE s # {}
    <3>1. Any(s) \in s
      BY <2>2 DEF Any
    <3>2. IsFiniteSet(Units(f, s \ {Any(s)}))
      BY UnitsAreFinite, FS_Subset
    <3>3. Cardinality(Units(f, s)) = f[Any(s)] + Cardinality(Units(f, s \ {Any(s)}))
      BY <3>1, <3>2, UnitsOfMore
    <3> QED BY <2>2, <3>3
  <2> QED BY <2>1, <2>2
<1>2. g = [s \in SUBSET S |-> g[s]]
  OBVIOUS
<1> HIDE DEF g
<1>3. g = [s \in SUBSET S |-> IF s = {} THEN 0 ELSE f[Any(s)] + g[s \ {Any(s)}]]
  BY <1>1, <1>2
<1> QED BY <1>3 DEF IsSum

\* A sum of natural numbers counts their units: it does not depend on the order
\* in which they are added.
LEMMA SumCounts ==
  ASSUME NEW Q, NEW f \in [Q -> Nat], NEW S \in SUBSET Q, IsFiniteSet(S)
  PROVE  Sum(f, S) = Cardinality(Units(f, S))
<1> DEFINE g == CHOOSE g : IsSum(g, f, S)
<1>1. IsSum(g, f, S)
  BY SumExists
<1>2. Sum(f, S) = g[S]
  BY SumIsIter
<1> HIDE DEF g
<1>3. \A s \in SUBSET S : g[s] = IF s = {} THEN 0 ELSE f[Any(s)] + g[s \ {Any(s)}]
  BY <1>1 DEF IsSum
<1> DEFINE T == {s \in FiniteSubsetsOf(S) : g[s] # Cardinality(Units(f, s))}
<1>4. SUFFICES ASSUME T # {} PROVE FALSE
  BY <1>2 DEF FiniteSubsetsOf
<1>5. PICK s \in T : \A t \in T : <<t, s>> \notin StrictSubsetOrdering(S)
  BY <1>4, FS_StrictSubsetOrderingWellFounded, WFMin
<1>6. s \in SUBSET S /\ IsFiniteSet(s)
  BY <1>5 DEF FiniteSubsetsOf
<1>7. s # {}
  <2>1. Units(f, {}) = {}
    BY DEF Units
  <2> QED BY <1>3, <1>5, <1>6, <2>1, FS_EmptySet
<1>8. Any(s) \in s
  BY <1>7 DEF Any
<1>9. s \ {Any(s)} \in FiniteSubsetsOf(S) /\ <<s \ {Any(s)}, s>> \in StrictSubsetOrdering(S)
  BY <1>6, <1>8, FS_RemoveElement DEF FiniteSubsetsOf, StrictSubsetOrdering
<1>10. g[s \ {Any(s)}] = Cardinality(Units(f, s \ {Any(s)}))
  BY <1>5, <1>9
<1>11. Cardinality(Units(f, s)) = f[Any(s)] + Cardinality(Units(f, s \ {Any(s)}))
  BY <1>6, <1>8, UnitsAreFinite, FS_Subset, UnitsOfMore
<1> QED BY <1>3, <1>5, <1>6, <1>7, <1>10, <1>11

\* A sum of natural numbers is one.
LEMMA SumNat ==
  ASSUME NEW Q, NEW f \in [Q -> Nat], NEW S \in SUBSET Q, IsFiniteSet(S)
  PROVE  Sum(f, S) \in Nat
BY SumCounts, UnitsAreFinite, FS_CardinalityType

-----------------------------------------------------------------------------
(***************************************************************************)
(* What the scaler computes.                                               *)
(***************************************************************************)
\* The load of the queues that have an environment first is a number.
LEMMA WantedIsNat ==
  ASSUME load \in [Queues -> Nat], NEW Q \in SUBSET Queues, NEW c
  PROVE  Sum(load, Scaler!Followers(Q, c)) \in Nat
<1>1. Scaler!Followers(Q, c) \in SUBSET Queues /\ IsFiniteSet(Scaler!Followers(Q, c))
  BY QueuesAreFinite, FS_Subset DEF Scaler!Followers
<1> QED BY <1>1, SumNat

\* What Estimate wants are these sums.
LEMMA EstimateSums ==
  Scaler!Estimate <=>
    /\ pc = "estimate" /\ queues # {}
    /\ todo' = {c \in Environments : Scaler!Followers(queues, c) # {}}
    /\ wanted' = [c \in Environments |-> Sum(load, Scaler!Followers(queues, c))]
    /\ pc' = "scale"
    /\ UNCHANGED <<ce, load, logged, queues, doing, reading>>
BY DEF Scaler!Estimate, Sum, MapThenSumSet, MapThenFoldSet, Scaler!MapThenSumSet, Scaler!MapThenFoldSet

\* An environment follows its queues if it has the least of their sum and its
\* maximum.
LEMMA FollowsSum ==
  ASSUME load \in [Queues -> Nat], NEW Q \in SUBSET Queues, NEW c \in Environments
  PROVE  Scaler!Follows(Q, c) <=>
           (Scaler!Followers(Q, c) # {} /\ Scalable(c) =>
              ce[c].min = Scaler!Least(Sum(load, Scaler!Followers(Q, c)), MaxvCpus[c]))
<1> DEFINE F == Scaler!Followers(Q, c)
           first == {q \in Q : Len(Order[q]) > 0 /\ Order[q][1] = c}
<1>1. F = first
  <2>1. ASSUME NEW q \in Q
        PROVE  Order[q] # <<>> /\ Head(Order[q]) = c <=> Len(Order[q]) > 0 /\ Order[q][1] = c
    BY OrderOfQueues
  <2> QED BY <2>1 DEF Scaler!Followers
<1>2. Scaler!Follows(Q, c) <=> (first # {} /\ Scalable(c) => ce[c].min = Min({Sum(load, first), MaxvCpus[c]}))
  BY DEF Scaler!Follows, Sum, MapThenSumSet, MapThenFoldSet, Scaler!MapThenSumSet, Scaler!MapThenFoldSet,
         Min, Scaler!Min, Scalable
<1>3. Sum(load, F) \in Nat /\ MaxvCpus[c] \in Nat
  BY WantedIsNat, MaximaAreNat
<1> HIDE DEF F, first
<1>4. Min({Sum(load, F), MaxvCpus[c]}) = Scaler!Least(Sum(load, F), MaxvCpus[c])
  <2> DEFINE a == Sum(load, F)
             b == MaxvCpus[c]
  <2> HIDE DEF a, b
  <2>1. a \in Nat /\ b \in Nat
    BY <1>3 DEF a, b
  <2>2. Min({a, b}) = Scaler!Least(a, b)
    <3>1. Scaler!Least(a, b) \in {a, b} /\ \A y \in {a, b} : Scaler!Least(a, b) =< y
      BY <2>1 DEF Scaler!Least
    <3>2. \A x \in {a, b} : (\A y \in {a, b} : x =< y) => x = Scaler!Least(a, b)
      BY <2>1 DEF Scaler!Least
    <3> QED BY <3>1, <3>2 DEF Min
  <2> QED BY <2>2 DEF a, b
<1> QED BY <1>1, <1>2, <1>4 DEF F

-----------------------------------------------------------------------------
(***************************************************************************)
(* Types.                                                                  *)
(***************************************************************************)
\* Initially all variables are typed.
LEMMA InitIType == Init => IType
<1> SUFFICES ASSUME Init PROVE IType
  OBVIOUS
<1>1. calm \in BOOLEAN
  BY DEF Init
<1>2. ce \in [Environments -> [valid : BOOLEAN, enabled : BOOLEAN, desired : Nat, min : Nat]]
  BY DEF Init, Scaler!InitScaler
<1> QED BY <1>1, <1>2, BoundsAreNat
   DEF Init, IType, TypeOK, Scaler!InitScaler, Scaler!ScalerTypeOK, Scaler!Nothing, Scaler!NoLoad,
       Registry!InitRegistry, Registry!RegistryTypeOK

\* A disturbance is counted, and ends the calm.
LEMMA DisturbsType ==
  ASSUME changes \in 0..MaxChanges, Disturbs
  PROVE  changes' \in 0..MaxChanges /\ calm' \in BOOLEAN
<1>1. calm' \in BOOLEAN
  BY DEF Disturbs
<1>2. changes' \in 0..MaxChanges
  BY BoundsAreNat DEF Disturbs
<1> QED BY <1>1, <1>2

\* The environment keeps the types.
LEMMA WorldIType == IType /\ World => IType'
<1> SUFFICES ASSUME IType, World PROVE IType'
  OBVIOUS
<1>5. changes' \in 0..MaxChanges /\ calm' \in BOOLEAN
  BY DisturbsType DEF World, LoadChanges, SetForced, Deactivate, EnvironmentChanges, InstanceChanges, IType, TypeOK
<1> USE <1>5, BoundsAreNat DEF World, IType, TypeOK, Scaler!ScalerTypeOK, Registry!RegistryTypeOK,
        loop, scalerVars, registryVars
<1>1. ASSUME NEW q \in Queues, LoadChanges(q) PROVE IType'
  BY <1>1 DEF LoadChanges
<1>2. ASSUME NEW q \in Queues, SetForced(q) \/ Deactivate(q) PROVE IType'
  BY <1>2 DEF SetForced, Deactivate
<1>3. ASSUME NEW c \in Environments, EnvironmentChanges(c) PROVE IType'
  <2> DEFINE E == [valid : BOOLEAN, enabled : BOOLEAN, desired : Nat, min : Nat]
  <2>1. PICK e \in E : ce' = [ce EXCEPT ![c] = e]
    <3>1. ce[c] \in E
      OBVIOUS
    <3>2. CASE ce' = [ce EXCEPT ![c].valid = ~@]
      <4>1. [ce[c] EXCEPT !.valid = ~@] \in E
        BY <3>1
      <4> QED BY <3>2, <4>1
    <3>3. CASE ce' = [ce EXCEPT ![c].enabled = ~@]
      <4>1. [ce[c] EXCEPT !.enabled = ~@] \in E
        BY <3>1
      <4> QED BY <3>3, <4>1
    <3>4. ASSUME NEW n \in Loads, ce' = [ce EXCEPT ![c].desired = n]
          PROVE  \E e \in E : ce' = [ce EXCEPT ![c] = e]
      <4>1. [ce[c] EXCEPT !.desired = n] \in E
        BY <3>1
      <4> QED BY <3>4, <4>1
    <3> QED BY <1>3, <3>2, <3>3, <3>4 DEF EnvironmentChanges
  <2> QED BY <1>3, <2>1 DEF EnvironmentChanges
<1>4. ASSUME NEW i \in Instances, InstanceChanges(i) PROVE IType'
  BY <1>4 DEF InstanceChanges
<1> QED BY <1>1, <1>2, <1>3, <1>4

\* What an environment should have is a number.
LEMMA TargetIsNat == IType => \A c \in Environments : Scaler!Target(c) \in Nat
BY MaximaAreNat DEF IType, TypeOK, Scaler!ScalerTypeOK, Scaler!Target, Scaler!Least

\* The steps of the scaler keep the types.
LEMMA ScaleIType == IType /\ Scale => IType'
<1> SUFFICES ASSUME IType, Scale PROVE IType'
  OBVIOUS
<1> USE DEF IType, TypeOK, Scaler!ScalerTypeOK, Registry!RegistryTypeOK, registryVars
<1>1. CASE Scaler!Estimate
  <2>1. wanted' \in [Environments -> Nat]
    BY <1>1, EstimateSums, WantedIsNat
  <2>2. doing = {} /\ todo' \subseteq Environments
    BY <1>1, EstimateSums
  <2>3. UNCHANGED <<ce, load, logged, queues, doing, reading, instance, forced, registryVars, changes, calm>> /\ pc' = "scale"
    BY <1>1, EstimateSums DEF Scale
  <2> QED BY <2>1, <2>2, <2>3
<1>2. CASE Scaler!NothingToScale
  BY <1>2 DEF Scale, Scaler!NothingToScale, Scaler!scalerVars
<1>3. CASE Scaler!Scaled
  BY <1>3 DEF Scale, Scaler!Scaled, Scaler!NoLoad
<1>4. CASE Scaler!ReadEnvironments
  <2>1. ASSUME NEW c \in Environments PROVE Scaler!Entry(c) \in Scaler!Entries
    BY DEF Scaler!Entry, Scaler!Entries
  <2>2. reading' \in [Environments -> Scaler!Entries \cup {NoEntry}]
    BY <1>4, <2>1 DEF Scaler!ReadEnvironments
  <2> QED BY <1>4, <2>2 DEF Scale, Scaler!ReadEnvironments
<1>5. CASE Scaler!UpdateLog
  <2>1. logged' \in [Environments -> Scaler!Entries \cup {NoEntry}]
    BY <1>5 DEF Scaler!UpdateLog
  <2> QED BY <1>5, <2>1 DEF Scale, Scaler!UpdateLog, Scaler!Nothing
<1>6. ASSUME NEW c \in Environments, Scaler!DescribeOne(c) PROVE IType'
  BY <1>6 DEF Scale, Scaler!DescribeOne
<1>7. ASSUME NEW c \in Environments, Scaler!UpdateOne(c) PROVE IType'
  <2>1. ce' \in [Environments -> [valid : BOOLEAN, enabled : BOOLEAN, desired : Nat, min : Nat]]
    BY <1>7, TargetIsNat DEF Scaler!UpdateOne
  <2> QED BY <1>7, <2>1 DEF Scale, Scaler!UpdateOne
<1> QED BY <1>1, <1>2, <1>3, <1>4, <1>5, <1>6, <1>7 DEF Scale, Scaler!ScalerStep

\* The steps of the registry, the failures and the rest of the loop keep them.
LEMMA ControlIType == IType /\ (Register \/ ListQueues \/ KillAndSleep \/ Fails \/ Crash) => IType'
<1> SUFFICES ASSUME IType, Register \/ ListQueues \/ KillAndSleep \/ Fails \/ Crash PROVE IType'
  OBVIOUS
<1>6. changes' \in 0..MaxChanges /\ calm' \in BOOLEAN
  <2>1. CASE Fails \/ Crash
    BY <2>1, DisturbsType DEF Fails, Crash, IType, TypeOK
  <2>2. CASE ListQueues
    <3>1. calm' \in BOOLEAN
      BY <2>2 DEF ListQueues
    <3> QED BY <2>2, <3>1 DEF ListQueues, IType, TypeOK
  <2>3. CASE Register \/ KillAndSleep
    BY <2>3 DEF Register, KillAndSleep, IType, TypeOK
  <2> QED BY <2>1, <2>2, <2>3
<1> USE <1>6, BoundsAreNat
    DEF IType, TypeOK, Scaler!ScalerTypeOK, Registry!RegistryTypeOK, registryVars, scalerVars, world
<1>1. CASE Register
  BY <1>1 DEF Register, Registry!RegistryStep, Registry!ReadClusters, Registry!UpdateECSInstances, Registry!Behind
<1>2. CASE ListQueues \/ KillAndSleep
  BY <1>2 DEF ListQueues, KillAndSleep
<1>3. CASE Fails /\ Scaler!ScalerFails /\ UNCHANGED <<instance, forced, registryVars>>
  BY <1>3 DEF Scaler!ScalerFails, Scaler!EstimateFails, Scaler!LogFails, Scaler!DescribeOneFails,
              Scaler!UpdateOneFails, Scaler!scalerVars, Scaler!Nothing
<1>4. CASE Fails /\ Registry!RegistryFails /\ UNCHANGED <<ce, load, forced, scalerVars>>
  BY <1>4 DEF Registry!RegistryFails, Registry!ClustersFail, Registry!UpdateFails
<1>5. CASE Crash
  BY <1>5 DEF Crash, Scaler!NoLoad, Scaler!Nothing
<1> QED BY <1>1, <1>2, <1>3, <1>4, <1>5 DEF Fails

\* Every step keeps the types.
LEMMA NextIType == IType /\ [Next]_vars => IType'
<1> SUFFICES ASSUME IType, [Next]_vars PROVE IType'
  OBVIOUS
<1>1. CASE Next
  BY <1>1, WorldIType, ScaleIType, ControlIType DEF Next, Loop
<1>2. CASE UNCHANGED vars
  BY <1>2 DEF vars, world, loop, scalerVars, registryVars, IType, TypeOK, Scaler!ScalerTypeOK, Registry!RegistryTypeOK
<1> QED BY <1>1, <1>2

\* The variables keep their types, and the loop only updates while it scales.
LEMMA ITypeAlways == Spec => []IType
BY InitIType, NextIType, PTL DEF Spec

\* The variables of the scaler's loop keep their types: its minima are numbers,
\* whatever sums it makes.
THEOREM TypeCorrect == Spec => []TypeOK
<1>1. IType => TypeOK
  BY DEF IType
<1> QED BY <1>1, ITypeAlways, PTL

-----------------------------------------------------------------------------
(***************************************************************************)
(* Only what is gone disappears.                                           *)
(***************************************************************************)
\* Most steps leave the instances and their table alone; those that leave the
\* writing behind need not look at it.
LEMMA OtherSteps ==
  ASSUME [Next]_vars
  PROVE  \/ \E i \in Instances : InstanceChanges(i)
         \/ Registry!ReadClusters \/ Registry!UpdateECSInstances
         \/ /\ UNCHANGED <<instance, registered>>
            /\ pc' # "write" \/ UNCHANGED <<pc, queues, seen>>
            /\ seen' = seen \/ seen' = {}
<1>1. CASE World \/ UNCHANGED vars
  BY <1>1 DEF World, LoadChanges, SetForced, Deactivate, EnvironmentChanges, vars, world, loop, registryVars
<1>2. CASE Scale
  BY <1>2 DEF Scale, Scaler!ScalerStep, Scaler!NothingToScale, Scaler!Scaled, Scaler!ReadEnvironments,
              Scaler!UpdateLog, Scaler!DescribeOne, Scaler!UpdateOne, registryVars, Scaler!Estimate
<1>3. CASE ListQueues \/ KillAndSleep \/ Crash
  BY <1>3 DEF ListQueues, KillAndSleep, Crash, world, registryVars
<1>4. CASE Fails
  BY <1>4 DEF Fails, Scaler!ScalerFails, Scaler!EstimateFails, Scaler!LogFails, Scaler!DescribeOneFails,
              Scaler!UpdateOneFails, registryVars, Registry!RegistryFails, Registry!ClustersFail, Registry!UpdateFails
<1>5. CASE Register
  BY <1>5 DEF Register, Registry!RegistryStep
<1> QED BY <1>1, <1>2, <1>3, <1>4, <1>5 DEF Next, Loop

\* Every step keeps it: instances begin once and end once, and what a round has
\* not seen behind its queues was not up when it looked.
LEMMA NextBehindInv == IType /\ BehindInv /\ [Next]_vars => BehindInv'
<1> SUFFICES ASSUME IType, BehindInv, [Next]_vars PROVE BehindInv'
  OBVIOUS
<1>1. ASSUME NEW i \in Instances, InstanceChanges(i) PROVE BehindInv'
  <2>1. UNCHANGED <<registered, seen, pc, queues>>
    BY <1>1 DEF InstanceChanges, loop, registryVars
  <2>2. \A k \in Instances : /\ instance[k] # "none" => instance'[k] # "none"
                             /\ instance[k] = "ended" => instance'[k] = "ended"
    BY <1>1 DEF InstanceChanges, IType, TypeOK, Registry!RegistryTypeOK
  <2> QED BY <2>1, <2>2 DEF BehindInv, Registry!Behind
<1>2. CASE Registry!ReadClusters
  <2>1. PICK Q \in Registry!Answers : seen' = {i \in Registry!Behind(Q) : instance[i] = "up"}
    BY <1>2 DEF Registry!ReadClusters
  <2>2. UNCHANGED <<instance, registered, queues>>
    BY <1>2 DEF Registry!ReadClusters
  <2>3. Registry!Behind(queues) \subseteq Registry!Behind(Q)
    BY <2>1 DEF Registry!Answers, Registry!Behind
  <2>4. \A i \in Registry!Behind(queues) \ seen' : instance[i] # "up"
    BY <2>1, <2>3
  <2>5. instance \in [Instances -> {"none", "up", "ended"}]
    BY DEF IType, TypeOK, Registry!RegistryTypeOK
  <2> QED BY <2>1, <2>2, <2>4, <2>5 DEF BehindInv, Registry!Behind
<1>3. CASE Registry!UpdateECSInstances
  BY <1>3 DEF Registry!UpdateECSInstances, BehindInv
<1>4. CASE /\ UNCHANGED <<instance, registered>>
           /\ pc' # "write" \/ UNCHANGED <<pc, queues, seen>>
           /\ seen' = seen \/ seen' = {}
  BY <1>4 DEF BehindInv, Registry!Behind
<1> QED BY <1>1, <1>2, <1>3, <1>4, OtherSteps

\* What a round does not see of the instances behind its queues has ended, if it
\* ever was there.
LEMMA BehindInvAlways == Spec => []BehindInv
<1>1. Init => BehindInv
  BY DEF Init, Registry!InitRegistry, BehindInv
<1> QED BY <1>1, ITypeAlways, NextBehindInv, PTL DEF Spec

\* An instance only disappears from the database if it has ended or is behind none
\* of the round's queues, whatever fails, and whatever AWS answers when the list of
\* queues is empty.
THEOREM OnlyGoneDisappears == Spec => DisappearedHasGone
<1>1. BehindInv /\ [Next]_vars =>
        [\A i \in Instances : registered[i] = "alive" /\ registered'[i] = "disappeared" =>
           instance[i] = "ended" \/ i \notin Registry!Behind(queues)]_vars
  <2> SUFFICES ASSUME BehindInv, [Next]_vars, NEW i \in Instances,
                      registered[i] = "alive", registered'[i] = "disappeared"
               PROVE  instance[i] = "ended" \/ i \notin Registry!Behind(queues)
    OBVIOUS
  <2>1. registered' # registered
    OBVIOUS
  <2>2. Registry!UpdateECSInstances
    <3>1. ~Registry!ReadClusters
      BY <2>1 DEF Registry!ReadClusters
    <3>2. ~\E k \in Instances : InstanceChanges(k)
      BY <2>1 DEF InstanceChanges, loop, registryVars
    <3> QED BY <2>1, <3>1, <3>2, OtherSteps
  <2> QED BY <2>2 DEF Registry!UpdateECSInstances, BehindInv
<1> QED BY <1>1, BehindInvAlways, PTL DEF Spec, DisappearedHasGone

-----------------------------------------------------------------------------
(***************************************************************************)
(* A calm round settles.                                                   *)
(***************************************************************************)
\* Only the loop's own steps leave a round calm, and only the start of the round
\* makes it so.
LEMMA CalmSteps ==
  ASSUME [Next]_vars, calm' = TRUE
  PROVE  \/ ListQueues
         \/ calm = TRUE /\ (Register \/ Scale \/ KillAndSleep \/ UNCHANGED vars)
BY DEF Next, World, Loop, LoadChanges, SetForced, Deactivate, EnvironmentChanges, InstanceChanges, Disturbs, Fails,
       Crash, Register, Scale, KillAndSleep, vars

\* While it is calm the scaler changes neither the instances nor their table.
LEMMA ScaleLeavesRegistry ==
  ASSUME Scale
  PROVE  /\ UNCHANGED <<instance, registered, seen, queues, calm>>
         /\ pc \notin {"ecs", "write", "sleep"} /\ pc' \notin {"ecs", "write"}
BY DEF Scale, registryVars, Scaler!scalerVars, Scaler!ScalerStep, Scaler!Estimate, Scaler!NothingToScale,
       Scaler!Scaled, Scaler!ReadEnvironments, Scaler!UpdateLog, Scaler!DescribeOne, Scaler!UpdateOne

\* Every step keeps that what a calm round saw of the instances is so, and then
\* that the table agrees with it.
LEMMA NextRegistryInv == IType /\ RegistryInv /\ [Next]_vars => RegistryInv'
<1> SUFFICES ASSUME IType, RegistryInv, [Next]_vars, calm' = TRUE
             PROVE  /\ pc' = "write" =>
                         \E Q \in Registry!Answers' : seen' = {i \in Registry!Behind(Q) : instance'[i] = "up"}
                    /\ pc' \notin {"ecs", "write"} => Settled'
  BY DEF RegistryInv, Registry!Behind
<1>1. CASE ListQueues
  BY <1>1 DEF ListQueues
<1>2. CASE calm = TRUE /\ Registry!ReadClusters
  BY <1>2 DEF Registry!ReadClusters, Registry!Answers
<1>3. CASE calm = TRUE /\ Registry!UpdateECSInstances
  <2>1. PICK Q \in Registry!Answers : seen = {i \in Registry!Behind(Q) : instance[i] = "up"}
    BY <1>3 DEF Registry!UpdateECSInstances, RegistryInv
  <2>2. UNCHANGED <<instance, queues>> /\ pc' = "estimate"
    BY <1>3 DEF Registry!UpdateECSInstances
  <2>3. Registry!Answers' = Registry!Answers
    BY <2>2 DEF Registry!Answers
  <2>4. ASSUME NEW i \in Instances
        PROVE  registered'[i] = "alive" <=> i \in Registry!Behind(Q) /\ instance[i] = "up"
    BY <1>3, <2>1 DEF Registry!UpdateECSInstances
  <2>5. Settled'
    BY <2>2, <2>3, <2>4 DEF Settled, Registry!Behind
  <2> QED BY <2>2, <2>5
<1>4. CASE calm = TRUE /\ (Scale \/ KillAndSleep \/ UNCHANGED vars)
  <2>1. UNCHANGED <<instance, registered, seen, queues>>
    BY <1>4, ScaleLeavesRegistry DEF KillAndSleep, vars, world, loop, registryVars
  <2>2. /\ pc' = "write" => pc = "write"
        /\ pc' \notin {"ecs", "write"} => pc \notin {"ecs", "write"}
    BY <1>4, ScaleLeavesRegistry DEF KillAndSleep, vars, loop
  <2>3. Registry!Answers' = Registry!Answers
    BY <2>1 DEF Registry!Answers
  <2>4. Settled => Settled'
    BY <2>1, <2>3 DEF Settled, Registry!Behind
  <2> QED BY <1>4, <2>1, <2>2, <2>3, <2>4 DEF RegistryInv
<1> QED BY <1>1, <1>2, <1>3, <1>4, CalmSteps DEF Register, Registry!RegistryStep

\* The loop only scales, reads and logs for some queues.
LEMMA QueuesStay ==
  ASSUME IType, ScalerInv, [Next]_vars
  PROVE  pc' \in {"scale", "read", "log"} => queues' # {}
<1>1. CASE World \/ UNCHANGED vars
  BY <1>1 DEF World, LoadChanges, SetForced, Deactivate, EnvironmentChanges, InstanceChanges, vars, loop, ScalerInv
<1>2. CASE Scale
  BY <1>2 DEF Scale, Scaler!scalerVars, Scaler!ScalerStep, Scaler!Estimate, Scaler!NothingToScale,
       Scaler!Scaled, Scaler!ReadEnvironments, Scaler!UpdateLog, Scaler!DescribeOne, Scaler!UpdateOne, ScalerInv
<1>3. CASE Fails
  BY <1>3 DEF Fails, Scaler!ScalerFails, Scaler!EstimateFails, Scaler!LogFails, Scaler!DescribeOneFails,
              Scaler!UpdateOneFails, Registry!RegistryFails, Registry!ClustersFail, Registry!UpdateFails, ScalerInv
<1>4. CASE ListQueues \/ Register \/ KillAndSleep \/ Crash
  BY <1>4 DEF ListQueues, Register, Registry!RegistryStep, Registry!ReadClusters, Registry!UpdateECSInstances,
              KillAndSleep, Crash
<1> QED BY <1>1, <1>2, <1>3, <1>4 DEF Next, Loop

\* Once the last environment is done each follows its queues.
LEMMA ScaledFollows ==
  ASSUME IType, NEW c \in Environments, Scales(c), c \notin todo
  PROVE  Scaler!Follows(queues, c)
BY FollowsSum DEF Scales, Scaler!Target, IType, TypeOK, Scaler!ScalerTypeOK

\* What it means to scale an environment depends on nothing else.
LEMMA ScalesSame ==
  ASSUME NEW c, UNCHANGED <<queues, load, wanted, ce, todo>>
  PROVE  Scales(c)' <=> Scales(c)
BY DEF Scales, Scalable, Sum, Scaler!Target, Scaler!Followers, MapThenSumSet, MapThenFoldSet

\* Nor does what it means to follow the load.
LEMMA FollowsSame ==
  ASSUME NEW c, UNCHANGED <<queues, load, ce>>
  PROVE  Scaler!Follows(queues, c)' <=> Scaler!Follows(queues, c)
BY DEF Scaler!Follows, Scaler!MapThenSumSet, Scaler!MapThenFoldSet

\* Nor what it means that it is logged.
LEMMA InLogSame ==
  ASSUME NEW c, UNCHANGED <<ce, logged>>
  PROVE  Scaler!InLog(c)' <=> Scaler!InLog(c)
BY DEF Scaler!InLog, Scaler!Entry

\* Each environment that is described or updated has the minimum that is right for
\* it, and the others keep theirs.
LEMMA ScaleOneScales ==
  ASSUME IType, NEW d \in Environments, Scaler!DescribeOne(d) \/ Scaler!UpdateOne(d),
         \A c \in Environments : Scales(c)
  PROVE  \A c \in Environments : Scales(c)'
<1> SUFFICES ASSUME NEW c \in Environments PROVE Scales(c)'
  OBVIOUS
<1>1. UNCHANGED <<queues, load, wanted>>
  BY DEF Scaler!DescribeOne, Scaler!UpdateOne
<1>2. Sum(load, Scaler!Followers(queues, c))' = Sum(load, Scaler!Followers(queues, c))
  BY <1>1 DEF Sum, Scaler!Followers, MapThenSumSet, MapThenFoldSet
<1>3. (Scaler!Followers(queues, c) # {})' <=> Scaler!Followers(queues, c) # {}
  BY <1>1 DEF Scaler!Followers
<1>4. Scaler!Target(c)' = Scaler!Target(c)
  BY <1>1 DEF Scaler!Target
<1>5. Scales(c)
  OBVIOUS
<1>6. Scaler!Followers(queues, c) # {} /\ c \notin todo' => (Scalable(c)' => ce'[c].min = Scaler!Target(c))
  <2>1. CASE Scaler!DescribeOne(d)
    BY <1>5, <2>1 DEF Scaler!DescribeOne, Scales, Scalable
  <2>2. CASE Scaler!UpdateOne(d)
    BY <1>5, <2>2 DEF Scaler!UpdateOne, Scales, Scalable, IType, TypeOK, Scaler!ScalerTypeOK
  <2> QED BY <2>1, <2>2
<1> QED BY <1>1, <1>2, <1>3, <1>4, <1>5, <1>6 DEF Scales

\* The steps of the scaler keep the sums, the minima and the log in a calm round.
LEMMA ScaleScalerInv ==
  ASSUME IType, ScalerInv, Scale, calm = TRUE
  PROVE  /\ pc' = "scale" => \A c \in Environments : Scales(c)'
         /\ pc' \in {"read", "log", "kill", "sleep"} /\ queues' # {} =>
              \A c \in Environments : Scaler!Follows(queues, c)'
         /\ pc' = "log" => \A c \in Managed \cap WithRole : reading'[c] = Scaler!Entry(c)'
         /\ pc' \in {"kill", "sleep"} /\ queues' # {} =>
              \A c \in Managed \cap WithRole : Scaler!InLog(c)'
<1>1. CASE Scaler!Estimate
  <2>1. pc' = "scale" /\ UNCHANGED <<load, queues>>
    BY <1>1, EstimateSums
  <2>2. ASSUME NEW c \in Environments
        PROVE  wanted'[c] = Sum(load, Scaler!Followers(queues, c))
    BY <1>1, EstimateSums
  <2>3. ASSUME NEW c \in Environments
        PROVE  Sum(load, Scaler!Followers(queues, c))' = Sum(load, Scaler!Followers(queues, c))
    BY <2>1 DEF Sum, Scaler!Followers, MapThenSumSet, MapThenFoldSet
  <2>4. ASSUME NEW c \in Environments, (Scaler!Followers(queues, c) # {})'
        PROVE  c \in todo'
    <3>1. Scaler!Followers(queues, c) # {}
      BY <2>1, <2>4 DEF Scaler!Followers
    <3> QED BY <1>1, <3>1, EstimateSums
  <2> QED BY <2>1, <2>2, <2>3, <2>4 DEF Scales
<1>2. CASE Scaler!NothingToScale
  BY <1>2 DEF Scaler!NothingToScale
<1>3. CASE Scaler!Scaled
  <2>1. pc' = "read" /\ UNCHANGED <<queues, load, ce>>
    BY <1>3 DEF Scaler!Scaled
  <2>2. ASSUME NEW c \in Environments
        PROVE  Scaler!Follows(queues, c)
    BY <1>3, ScaledFollows DEF Scaler!Scaled, ScalerInv
  <2> QED BY <2>1, <2>2, FollowsSame
<1>4. CASE Scaler!ReadEnvironments
  <2>1. pc' = "log" /\ pc = "read" /\ UNCHANGED <<queues, load, ce>>
    BY <1>4 DEF Scaler!ReadEnvironments
  <2>3. ASSUME NEW c \in Managed \cap WithRole PROVE reading'[c] = Scaler!Entry(c)'
    BY <1>4, TheseAreEnvironments DEF Scaler!ReadEnvironments, Scaler!Entry, Scaler!Kept
  <2>2. queues # {} => \A c \in Environments : Scaler!Follows(queues, c)
    BY <2>1 DEF ScalerInv
  <2> QED BY <2>1, <2>2, <2>3, FollowsSame
<1>5. CASE Scaler!UpdateLog
  <2>1. pc' = "kill" /\ pc = "log" /\ UNCHANGED <<queues, load, ce>>
    BY <1>5 DEF Scaler!UpdateLog
  <2>2. queues # {} => \A c \in Environments : Scaler!Follows(queues, c)
    BY <2>1 DEF ScalerInv
  <2>3. ASSUME NEW c \in Managed \cap WithRole PROVE Scaler!InLog(c)'
    <3>1. c \in Environments /\ reading[c] = Scaler!Entry(c)
      BY <2>1, TheseAreEnvironments DEF ScalerInv
    <3>2. Scaler!Entry(c) # NoEntry
      <4>1. Scaler!Entry(c) \in [enabled : BOOLEAN, desired : Nat, min : Nat]
        BY <3>1 DEF Scaler!Entry, IType, TypeOK, Scaler!ScalerTypeOK
      <4> QED BY <4>1, NoEntryIsNone
    <3>3. logged'[c] = Scaler!Entry(c)
      BY <1>5, <3>1, <3>2 DEF Scaler!UpdateLog, Scaler!Changed
    <3> QED BY <2>1, <3>3 DEF Scaler!InLog, Scaler!Entry
  <2> QED BY <2>1, <2>2, <2>3, FollowsSame
<1>6. ASSUME NEW d \in Environments, Scaler!DescribeOne(d) \/ Scaler!UpdateOne(d)
      PROVE  pc' = "scale" /\ \A c \in Environments : Scales(c)'
  <2>1. pc = "scale" /\ pc' = "scale"
    BY <1>6 DEF Scaler!DescribeOne, Scaler!UpdateOne
  <2>2. \A c \in Environments : Scales(c)
    BY <2>1 DEF ScalerInv
  <2> QED BY <1>6, <2>1, <2>2, ScaleOneScales
<1> QED BY <1>1, <1>2, <1>3, <1>4, <1>5, <1>6 DEF Scale, Scaler!ScalerStep

\* Every step keeps what the scaler has computed and written in a calm round.
LEMMA NextScalerInv == IType /\ ScalerInv /\ [Next]_vars => ScalerInv'
<1> SUFFICES ASSUME IType, ScalerInv, [Next]_vars PROVE ScalerInv'
  OBVIOUS
<1>4. pc' \in {"scale", "read", "log"} => queues' # {}
  BY QueuesStay
<1> SUFFICES ASSUME calm' = TRUE
             PROVE  /\ pc' = "scale" => \A c \in Environments : Scales(c)'
                    /\ pc' \in {"read", "log", "kill", "sleep"} /\ queues' # {} =>
                         \A c \in Environments : Scaler!Follows(queues, c)'
                    /\ pc' = "log" => \A c \in Managed \cap WithRole : reading'[c] = Scaler!Entry(c)'
                    /\ pc' \in {"kill", "sleep"} /\ queues' # {} =>
                         \A c \in Managed \cap WithRole : Scaler!InLog(c)'
  BY <1>4 DEF ScalerInv
<1>1. CASE ListQueues \/ Register
  BY <1>1 DEF ListQueues, Register, Registry!RegistryStep, Registry!ReadClusters, Registry!UpdateECSInstances
<1>2. CASE calm = TRUE /\ Scale
  BY <1>2, ScaleScalerInv
<1>3. CASE calm = TRUE /\ (KillAndSleep \/ UNCHANGED vars)
  <2>1. UNCHANGED <<queues, load, wanted, ce, todo, reading, logged>>
    BY <1>3 DEF KillAndSleep, vars, world, loop, scalerVars
  <2>2. pc' = pc \/ (pc = "kill" /\ pc' = "sleep")
    BY <1>3 DEF KillAndSleep, vars, loop
  <2>3. \A c : (Scales(c)' <=> Scales(c)) /\ (Scaler!Follows(queues, c)' <=> Scaler!Follows(queues, c))
               /\ (Scaler!InLog(c)' <=> Scaler!InLog(c))
               /\ Scaler!Entry(c)' = Scaler!Entry(c)
    BY <2>1, ScalesSame, FollowsSame, InLogSame DEF Scaler!Entry
  <2> QED BY <1>3, <2>1, <2>2, <2>3 DEF ScalerInv
<1> QED BY <1>1, <1>2, <1>3, CalmSteps

\* After a round in which nothing changed and nothing failed the minimum of each
\* environment that is VALID, ENABLED and has resources is the load of the queues that
\* have it first, at most its maximum; the log ends with what AWS has of each that
\* has resources and a role; and the instances alive are those behind the queues.
THEOREM QuietRoundAlwaysSettles == Spec => []QuietRoundSettles
<1>1. Init => RegistryInv /\ ScalerInv
  BY DEF Init, RegistryInv, ScalerInv
<1>2. RegistryInv /\ ScalerInv => QuietRoundSettles
  BY DEF RegistryInv, ScalerInv, QuietRoundSettles, Settled
<1> QED BY <1>1, <1>2, ITypeAlways, NextRegistryInv, NextScalerInv, PTL DEF Spec
=============================================================================
