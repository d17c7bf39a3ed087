-------------------------- MODULE GenerationProofs --------------------------
(***************************************************************************)
(* The schedule of analyzeFieldDependencies, for every processing order    *)
(* that names no key twice, every choice of dependencies and object        *)
(* fields, and every size of a batch.                                      *)
(*                                                                         *)
(* The argument has two halves.  A round that finds a batch puts only keys *)
(* into it whose dependencies are processed.  A round that finds none has  *)
(* processed a set of keys that is closed under the dependencies, so every *)
(* resolvable key is in it, and the key that is forced is not resolvable.  *)
(***************************************************************************)
EXTENDS Generation, FiniteSetTheorems, SequenceTheorems, WellFoundedInduction, TLAPS

\* No key is named twice by a ProcessingOrder (with a repeated key the loop of the code
\* does not end: README, known disagreements).
NoRepeats == \A s \in Orders : \A m, n \in DOMAIN s : s[m] = s[n] => m = n

\* The inductive invariant: the schedule, and what Init says of the input.
ScheduleIInv ==
    /\ ScheduleInv
    /\ orderedKeys \in Orders
    /\ \A k \in Keys : k \notin dependencies[k]

\* A set of natural numbers that is not empty has a least element.
LEMMA LeastOf ==
    ASSUME NEW T \in SUBSET Nat, T # {}
    PROVE  \E m \in T : \A k \in T : m <= k
<1>1. PICK R : R = OpToRel(<, Nat)
  BY Zenon
<1>2. IsWellFoundedOn(R, Nat)
  BY <1>1, NatLessThanWellFounded, Zenon
<1>3. R = {p \in Nat \X Nat : p[1] < p[2]}
  BY <1>1, Zenon DEF OpToRel
<1>4. PICK m \in T : \A k \in T : <<k, m>> \notin R
  BY <1>2, WFMin
<1>5. \A k \in T : ~(k < m)
  BY <1>3, <1>4
<1>6. QED BY <1>5

\* First is the first of the positions it is given.
LEMMA FirstIsLeast ==
    ASSUME NEW T \in SUBSET Nat, T # {}
    PROVE  First(T) \in T /\ \A j \in T : First(T) <= j
BY LeastOf DEF First

\* What is processed is in the order, and when there is as much of it as the order is long,
\* it is the whole order.
LEMMA FinishedIsAll ==
    ASSUME NEW s \in Seq(Keys), NEW P \in SUBSET ToSet(s)
    PROVE  Cardinality(P) >= Len(s) => P = ToSet(s)
<1>1. PICK n \in Nat : n = Len(s)
  OBVIOUS
<1>2. DOMAIN s = 1 .. n /\ s \in [1 .. n -> ToSet(s)]
  BY <1>1 DEF ToSet
<1>3. s \in Surjection(1 .. n, ToSet(s))
  BY <1>2 DEF Surjection, ToSet
<1>4. IsFiniteSet(1 .. n) /\ Cardinality(1 .. n) = n
  BY FS_Interval
<1>5. IsFiniteSet(ToSet(s)) /\ Cardinality(ToSet(s)) <= n
  BY <1>3, <1>4, FS_Surjection
<1>6. PICK t : t = ToSet(s)
  OBVIOUS
<1>7. PICK c : c = Cardinality(P)
  OBVIOUS
<1>8. PICK d : d = Cardinality(t)
  OBVIOUS
<1>9. IsFiniteSet(P) /\ c <= d /\ (d = c => t = P)
  BY <1>5, <1>6, <1>7, <1>8, FS_Subset
<1>10. c \in Nat /\ d \in Nat /\ d <= n
  BY <1>5, <1>6, <1>7, <1>8, <1>9, FS_CardinalityType
<1>11. c >= n => c = d
  BY <1>9, <1>10
<1>12. QED BY <1>1, <1>6, <1>7, <1>9, <1>11

\* The start of every schedule.
LEMMA ScheduleStarts ==
    ASSUME SchedulerAssumption, Init
    PROVE  ScheduleIInv
<1>1. /\ orderedKeys \in Orders /\ orderedKeys \in Seq(Keys)
      /\ dependencies \in [Keys -> SUBSET (Keys \cup Outside)]
      /\ \A k \in Keys : k \notin dependencies[k]
      /\ objects \subseteq Keys /\ processed = {} /\ batches = <<>>
  BY DEF Init, SchedulerAssumption
<1>2. TypeOK
  BY <1>1 DEF TypeOK
<1>3. Scheduled(Len(batches)) = {}
  BY <1>1 DEF Scheduled
<1>4. Finished => processed = ToSet(orderedKeys)
  BY <1>1, FinishedIsAll DEF Finished
<1>5. ScheduledOnce
  BY <1>1, <1>3, <1>4 DEF ScheduledOnce
<1>6. DependenciesFirst /\ BatchIndependent
  BY <1>1 DEF DependenciesFirst, BatchIndependent
<1>7. QED BY <1>1, <1>2, <1>5, <1>6 DEF ScheduleIInv, ScheduleInv

\* A round that adds unprocessed positions keeps the invariant when their resolvable keys
\* depend on processed keys only, and none of them on another one.
LEMMA RoundKept ==
    ASSUME SchedulerAssumption, NoRepeats, ScheduleIInv,
           NEW S \in SUBSET Unprocessed, S # {},
           \A k \in KeysAt(S) \cap Resolvable : dependencies[k] \subseteq processed,
           \A k, l \in KeysAt(S) : l \notin dependencies[k] /\ (k \in objects => l = k),
           Schedule(S)
    PROVE  ScheduleIInv'
<1> USE DEF ScheduleIInv, ScheduleInv
<1>1. /\ batches' = Append(batches, S) /\ processed' = processed \cup KeysAt(S)
      /\ orderedKeys' = orderedKeys /\ dependencies' = dependencies /\ objects' = objects
  BY DEF Schedule
<1>2. /\ orderedKeys \in Seq(Keys) /\ batches \in Seq(SUBSET DOMAIN orderedKeys)
      /\ processed \subseteq Keys
  BY DEF TypeOK
<1>3. PICK n \in Nat : n = Len(batches)
  BY <1>2
<1>4. S \in SUBSET DOMAIN orderedKeys /\ KeysAt(S) \subseteq ToSet(orderedKeys)
      /\ KeysAt(S) \cap processed = {} /\ ToSet(orderedKeys) \subseteq Keys
  BY <1>2 DEF Unprocessed, KeysAt, ToSet
<1>5. /\ DOMAIN batches = 1 .. n /\ DOMAIN batches' = 1 .. n + 1 /\ Len(batches') = n + 1
      /\ batches'[n + 1] = S /\ \A i \in 1 .. n : batches'[i] = batches[i]
  BY <1>1, <1>2, <1>3, <1>4
<1>6. \A T : KeysAt(T)' = KeysAt(T)
  BY <1>1 DEF KeysAt
<1>7. ASSUME NEW m \in 0 .. n PROVE Scheduled(m)' = Scheduled(m)
  <2>1. \A i \in 1 .. m : KeysAt(batches[i])' = KeysAt(batches[i])
    <3>1. TAKE i \in 1 .. m
    <3>2. i \in 1 .. n
      OBVIOUS
    <3>3. QED BY <1>1, <1>5, <3>2 DEF KeysAt
  <2>2. QED BY <2>1 DEF Scheduled
<1>8. Scheduled(n + 1)' = Scheduled(n) \cup KeysAt(S)
  <2>1. Scheduled(n + 1)' = Scheduled(n)' \cup KeysAt(batches[n + 1])'
    <3>1. 1 .. n + 1 = (1 .. n) \cup {n + 1}
      OBVIOUS
    <3>2. QED BY <3>1 DEF Scheduled
  <2>2. KeysAt(batches[n + 1])' = KeysAt(S)
    BY <1>1, <1>5 DEF KeysAt
  <2>3. QED BY <1>7, <2>1, <2>2
<1>9. TypeOK'
  <2>1. batches' \in Seq(SUBSET DOMAIN orderedKeys)
    BY <1>1, <1>2, <1>4
  <2>2. QED BY <1>1, <1>2, <1>4, <2>1 DEF TypeOK
<1>10. processed = Scheduled(n) /\ processed \subseteq ToSet(orderedKeys)
  <2>1. processed = Scheduled(n)
    BY <1>3 DEF ScheduledOnce
  <2>2. \A i \in 1 .. n : batches[i] \in SUBSET DOMAIN orderedKeys
    BY <1>2, <1>5
  <2>3. QED BY <2>1, <2>2 DEF Scheduled, KeysAt, ToSet
<1>11. ScheduledOnce'
  <2>1. processed' = Scheduled(Len(batches))'
    BY <1>1, <1>5, <1>8, <1>10
  <2>2. ASSUME NEW i \in 1 .. n + 1
        PROVE /\ batches'[i] # {}
              /\ \A p, q \in batches'[i] : orderedKeys[p] = orderedKeys[q] => p = q
              /\ KeysAt(batches'[i]) \cap Scheduled(i - 1)' = {}
    <3>1. CASE i = n + 1
      <4>1. \A p, q \in S : orderedKeys[p] = orderedKeys[q] => p = q
        BY <1>4 DEF NoRepeats
      <4>2. Scheduled(i - 1)' = processed
        BY <3>1, <1>7, <1>10
      <4>3. QED BY <3>1, <4>1, <4>2, <1>4, <1>5
    <3>2. CASE i # n + 1
      <4>1. i \in 1 .. n /\ i - 1 \in 0 .. n
        BY <3>2
      <4>2. batches'[i] = batches[i] /\ Scheduled(i - 1)' = Scheduled(i - 1)
        BY <4>1, <1>5, <1>7
      <4>3. QED BY <4>1, <4>2, <1>5 DEF ScheduledOnce
    <3>3. QED BY <3>1, <3>2
  <2>3. Finished' => processed' = ToSet(orderedKeys')
    <3>1. processed' \in SUBSET ToSet(orderedKeys)
      BY <1>1, <1>4, <1>10
    <3>2. QED BY <1>1, <1>2, <3>1, FinishedIsAll DEF Finished
  <2>4. ASSUME NEW i \in 1 .. n + 1 PROVE KeysAt(batches[i])' = KeysAt(batches'[i])
    BY <1>1 DEF KeysAt
  <2>5. QED BY <1>1, <1>5, <2>1, <2>2, <2>3, <2>4 DEF ScheduledOnce
<1>12. Resolvable' = Resolvable
  BY <1>1 DEF Resolvable
<1>13. ASSUME NEW i \in 1 .. n + 1 PROVE KeysAt(batches[i])' = KeysAt(batches'[i])
  BY <1>1 DEF KeysAt
<1>14. DependenciesFirst'
  <2>1. ASSUME NEW i \in 1 .. n + 1, NEW k \in KeysAt(batches'[i]) \cap Resolvable
        PROVE dependencies[k] \subseteq Scheduled(i - 1)'
    <3>1. CASE i = n + 1
      BY <3>1, <1>5, <1>7, <1>10
    <3>2. CASE i # n + 1
      <4>1. i \in 1 .. n /\ i - 1 \in 0 .. n
        BY <3>2
      <4>2. QED BY <4>1, <1>5, <1>7 DEF DependenciesFirst
    <3>3. QED BY <3>1, <3>2
  <2>2. QED BY <1>1, <1>5, <1>12, <1>13, <2>1 DEF DependenciesFirst
<1>15. BatchIndependent'
  <2>1. ASSUME NEW i \in 1 .. n + 1, NEW k \in KeysAt(batches'[i]), NEW l \in KeysAt(batches'[i])
        PROVE l \notin dependencies[k] /\ (k \in objects => l = k)
    <3>1. CASE i = n + 1
      BY <3>1, <1>5
    <3>2. CASE i # n + 1
      <4>1. i \in 1 .. n
        BY <3>2
      <4>2. QED BY <4>1, <1>5 DEF BatchIndependent
    <3>3. QED BY <3>1, <3>2
  <2>2. QED BY <1>1, <1>5, <1>13, <2>1 DEF BatchIndependent
<1>16. QED BY <1>1, <1>9, <1>11, <1>14, <1>15

\* What a round takes is unprocessed and ready, it is not nothing, and an object is alone.
LEMMA TakenSound ==
    ASSUME SchedulerAssumption, orderedKeys \in Seq(Keys), Ready # {}
    PROVE  /\ Taken \subseteq Ready /\ Taken # {}
           /\ \A k, l \in KeysAt(Taken) : k \in objects => l = k
<1>1. Ready \subseteq Nat
  BY DEF Ready, Unprocessed
<1>2. PICK f : f = First(Ready)
  OBVIOUS
<1>3. f \in Ready /\ \A j \in Ready : f <= j
  BY <1>1, <1>2, FirstIsLeast
<1>4. CASE orderedKeys[f] \in objects
  BY <1>2, <1>3, <1>4 DEF Taken, KeysAt
<1>5. CASE orderedKeys[f] \notin objects
  <2>1. Taken = {i \in Ready :
            /\ Cardinality({j \in Ready : j < i}) < MaxBatch
            /\ \A j \in {j \in Ready : j < i} \cup {i} : orderedKeys[j] \notin objects}
    BY <1>2, <1>5 DEF Taken
  <2>2. {j \in Ready : j < f} = {}
    <3>1. \A j \in Ready : j \in Nat /\ f \in Nat /\ f <= j
      BY <1>1, <1>3
    <3>2. \A j \in Ready : ~(j < f)
      BY <3>1
    <3>3. QED BY <3>2
  <2>3. Cardinality({}) = 0
    BY FS_EmptySet
  <2>4. f \in Taken
    <3>1. Cardinality({j \in Ready : j < f}) < MaxBatch
      <4>1. Cardinality({j \in Ready : j < f}) = 0
        BY <2>2, <2>3, Zenon
      <4>2. MaxBatch \in Nat /\ 0 < MaxBatch
        BY DEF SchedulerAssumption
      <4>3. QED BY <4>1, <4>2
    <3>2. \A j \in {j \in Ready : j < f} \cup {f} : orderedKeys[j] \notin objects
      BY <1>5, <2>2
    <3>3. QED BY <1>3, <2>1, <3>1, <3>2
  <2>5. \A i \in Taken : orderedKeys[i] \notin objects
    BY <2>1
  <2>6. QED BY <2>1, <2>4, <2>5 DEF KeysAt
<1>6. QED BY <1>4, <1>5

\* With nothing ready, the processed keys are closed under the dependencies: every
\* resolvable key is among them.
LEMMA ClosedWhenStuck ==
    ASSUME TypeOK, Ready = {}
    PROVE  Resolvable \subseteq processed
<1>1. processed \in SUBSET Keys
  BY DEF TypeOK
<1>2. \A l \in ToSet(orderedKeys) : dependencies[l] \subseteq processed => l \in processed
  BY DEF ToSet, Ready, Unprocessed, CanProcess
<1>3. QED BY <1>1, <1>2 DEF Resolvable

\* Every round keeps the invariant.
LEMMA ScheduleStep ==
    ASSUME SchedulerAssumption, NoRepeats, ScheduleIInv, [Next]_vars
    PROVE  ScheduleIInv'
<1>1. TypeOK /\ orderedKeys \in Seq(Keys)
  BY DEF ScheduleIInv, ScheduleInv, TypeOK
<1>2. CASE Batch
  <2>1. Ready # {} /\ Schedule(Taken)
    BY <1>2 DEF Batch
  <2>2. /\ Taken \subseteq Ready /\ Taken # {}
        /\ \A k, l \in KeysAt(Taken) : k \in objects => l = k
    BY <1>1, <2>1, TakenSound
  <2>3. Taken \in SUBSET Unprocessed
    BY <2>2 DEF Ready
  <2>4. \A k \in KeysAt(Taken) : dependencies[k] \subseteq processed /\ k \notin processed
    BY <2>2 DEF KeysAt, Ready, Unprocessed, CanProcess
  <2>5. QED BY <2>1, <2>2, <2>3, <2>4, RoundKept
<1>3. CASE ForceKey
  <2>1. Ready = {} /\ Unprocessed # {} /\ Schedule({First(Unprocessed)})
    BY <1>3 DEF ForceKey
  <2>2. Unprocessed \subseteq Nat
    BY <1>1 DEF Unprocessed
  <2>3. PICK f : f = First(Unprocessed)
    OBVIOUS
  <2>4. f \in Unprocessed
    BY <2>1, <2>2, <2>3, FirstIsLeast
  <2>5. KeysAt({f}) = {orderedKeys[f]} /\ orderedKeys[f] \in Keys /\ orderedKeys[f] \notin processed
    BY <1>1, <2>4 DEF KeysAt, Unprocessed
  <2>6. orderedKeys[f] \notin Resolvable
    BY <1>1, <2>1, <2>5, ClosedWhenStuck
  <2>7. orderedKeys[f] \notin dependencies[orderedKeys[f]]
    BY <2>5 DEF ScheduleIInv
  <2>8. QED BY <2>1, <2>3, <2>4, <2>5, <2>6, <2>7, RoundKept
<1>4. CASE UNCHANGED vars
  <2>1. Resolvable' = Resolvable /\ \A n : Scheduled(n)' = Scheduled(n)
    BY <1>4 DEF vars, Resolvable, Scheduled, KeysAt
  <2>2. QED BY <1>4, <2>1 DEF vars, ScheduleIInv, ScheduleInv, TypeOK, ScheduledOnce,
                           DependenciesFirst, BatchIndependent, KeysAt, Finished
<1>5. QED BY <1>2, <1>3, <1>4 DEF Next

\* The schedule that analyzeFieldDependencies makes names every key of the order once, a key
\* after all it selects from whenever that is possible, and no two keys of a batch depend
\* on each other.
THEOREM SchedulesSound ==
    ASSUME NoRepeats
    PROVE  Spec => []ScheduleInv
<1>1. Init => ScheduleIInv
  BY ScheduleStarts, SchedulerAssumption
<1>2. ScheduleIInv /\ [Next]_vars => ScheduleIInv'
  BY ScheduleStep, SchedulerAssumption
<1>3. ScheduleIInv => ScheduleInv
  BY DEF ScheduleIInv
<1>4. QED BY <1>1, <1>2, <1>3, PTL DEF Spec

-----------------------------------------------------------------------------
(* The operators of Assembly on the paths and values a generation has. *)

\* A path of one key leads to the value of the key, if there is one.
LEMMA ResolveOne ==
    ASSUME NEW k, NEW g
    PROVE  ResolveFieldPath(<<k>>, g) = IF k \in DOMAIN g THEN <<g[k]>> ELSE <<>>
<1> DEFINE path == <<k>>
           start == IF k \in DOMAIN g THEN <<g[k]>> ELSE <<>>
           Def(u) == u = [i \in 1 .. Len(path) |->
               IF i = 1
               THEN IF path[1] \in DOMAIN g THEN <<g[path[1]]>> ELSE <<>>
               ELSE IF u[i - 1] = <<>> THEN <<>> ELSE Down(u[i - 1][1], path, i)]
<1>1. 1 .. Len(path) = {1} /\ path[1] = k /\ Len(path) = 1
  OBVIOUS
<1>2. Def([i \in {1} |-> start])
  BY <1>1
<1>3. PICK u : u = CHOOSE v : Def(v)
  OBVIOUS
<1>4. Def(u)
  BY <1>2, <1>3
<1>5. ResolveFieldPath(path, g) = u[Len(path)]
  BY <1>3 DEF ResolveFieldPath
<1>6. u[1] = start
  BY <1>1, <1>4
<1>7. QED BY <1>1, <1>5, <1>6

\* A path of two keys leads into the value of the first.
LEMMA ResolveTwo ==
    ASSUME NEW k, NEW p, NEW g
    PROVE  ResolveFieldPath(<<k, p>>, g) = IF k \in DOMAIN g THEN Down(g[k], <<k, p>>, 2) ELSE <<>>
<1> DEFINE path == <<k, p>>
           start == IF k \in DOMAIN g THEN <<g[k]>> ELSE <<>>
           Def(u) == u = [i \in 1 .. Len(path) |->
               IF i = 1
               THEN IF path[1] \in DOMAIN g THEN <<g[path[1]]>> ELSE <<>>
               ELSE IF u[i - 1] = <<>> THEN <<>> ELSE Down(u[i - 1][1], path, i)]
           second == IF k \in DOMAIN g THEN Down(g[k], <<k, p>>, 2) ELSE <<>>
<1>1. 1 .. Len(path) = {1, 2} /\ path[1] = k /\ path[2] = p /\ Len(path) = 2
  OBVIOUS
<1>2. Def([i \in {1, 2} |-> IF i = 1 THEN start ELSE second])
  BY <1>1
<1>3. PICK u : u = CHOOSE v : Def(v)
  OBVIOUS
<1>4. Def(u)
  BY <1>2, <1>3
<1>5. ResolveFieldPath(path, g) = u[Len(path)]
  BY <1>3 DEF ResolveFieldPath
<1>6. u[1] = start
  BY <1>1, <1>4
<1>7. u[2] = second
  BY <1>1, <1>4, <1>6
<1>8. QED BY <1>1, <1>5, <1>7

\* setNestedValue under a single key puts the value there.
LEMMA SetSingle ==
    ASSUME NEW root, NEW k, NEW v
    PROVE  setNestedValue(root, <<k>>, v) = <<Put(root, k, v)>>
<1> DEFINE path == <<k>>
           DefMap(u) == u = [i \in 1 .. Len(path) |->
               IF i = 1 THEN <<root>>
               ELSE IF u[i - 1] = <<>> THEN <<>>
               ELSE LET here == u[i - 1][1]
                        key == path[i - 1]
                    IN  IF key \notin DOMAIN here THEN <<EmptyMap>>
                        ELSE IF IsMap(here[key]) THEN <<here[key].of>> ELSE <<>>]
           maps == Parents(root, path)
           DefTree(u) == u = [i \in 1 .. Len(path) |->
               Put(maps[i][1], path[i], IF i = Len(path) THEN v ELSE MapOf(u[i + 1]))]
<1>1. 1 .. Len(path) = {1} /\ path[1] = k /\ Len(path) = 1
  OBVIOUS
<1>2. DefMap([i \in {1} |-> <<root>>])
  BY <1>1
<1>3. maps = CHOOSE u : DefMap(u)
  BY DEF Parents
<1>4. maps[1] = <<root>>
  <2>1. DefMap(maps)
    BY <1>2, <1>3
  <2>2. QED BY <1>1, <2>1
<1>5. DefTree([i \in {1} |-> Put(root, k, v)])
  BY <1>1, <1>4
<1>6. PICK u : u = CHOOSE t : DefTree(t)
  OBVIOUS
<1>7. u[1] = Put(root, k, v)
  <2>1. DefTree(u)
    BY <1>5, <1>6
  <2>2. QED BY <1>1, <1>4, <2>1
<1>8. setNestedValue(root, path, v) = IF maps[Len(path)] = <<>> THEN <<>> ELSE <<u[1]>>
  BY <1>6 DEF setNestedValue
<1>9. QED BY <1>1, <1>4, <1>7, <1>8

\* Of two items of which the first alone has the part, that part is taken.
LEMMA PartsOfPair ==
    ASSUME NEW a, NEW b, NEW part, IsMap(a), part \in DOMAIN a.of,
           ~(IsMap(b) /\ part \in DOMAIN b.of)
    PROVE  PartOfItems(<<a, b>>, part) = <<a.of[part]>>
<1> DEFINE items == <<a, b>>
           Def(u) == u = [i \in 0 .. Len(items) |->
               IF i = 0 THEN <<>>
               ELSE IF IsMap(items[i]) /\ part \in DOMAIN items[i].of
                    THEN Append(u[i - 1], items[i].of[part]) ELSE u[i - 1]]
<1>1. 0 .. Len(items) = {0, 1, 2} /\ items[1] = a /\ items[2] = b /\ Len(items) = 2
  OBVIOUS
<1> HIDE DEF items
<1>2. PICK e : e = a.of[part]
  OBVIOUS
<1>3. Append(<<>>, e) = <<e>>
  OBVIOUS
<1>4. Def([i \in {0, 1, 2} |-> IF i = 0 THEN <<>> ELSE <<e>>])
  BY <1>1, <1>2, <1>3
<1>5. PICK u : u = CHOOSE v : Def(v)
  OBVIOUS
<1>6. Def(u)
  BY <1>4, <1>5
<1>7. PartOfItems(items, part) = u[Len(items)]
  BY <1>5 DEF PartOfItems
<1>8. u[0] = <<>>
  BY <1>1, <1>6
<1>9. u[1] = <<e>>
  <2>1. u[1] = IF IsMap(items[1]) /\ part \in DOMAIN items[1].of
               THEN Append(u[1 - 1], items[1].of[part]) ELSE u[1 - 1]
    BY <1>1, <1>6
  <2>2. u[1] = Append(u[0], e)
    BY <1>1, <1>2, <2>1
  <2>3. QED BY <1>3, <1>8, <2>2
<1>10. u[2] = u[1]
  <2>1. PICK i : i = 2
    OBVIOUS
  <2>2. ~(IsMap(items[i]) /\ part \in DOMAIN items[i].of) /\ i \in 0 .. Len(items) /\ i # 0
    BY <1>1, <2>1
  <2>3. u[i] = IF i = 0 THEN <<>>
               ELSE IF IsMap(items[i]) /\ part \in DOMAIN items[i].of
                    THEN Append(u[i - 1], items[i].of[part]) ELSE u[i - 1]
    BY <1>6, <2>2, Zenon
  <2>4. u[i] = u[i - 1]
    BY <2>2, <2>3
  <2>5. QED BY <2>1, <2>4
<1>11. QED BY <1>1, <1>2, <1>7, <1>9, <1>10 DEF items

\* The paths of the results are these keys, each a different one.
KeyedBy(order, K) ==
    /\ \A i \in 1 .. Len(order) : order[i].path = <<K[i]>>
    /\ \A i, j \in 1 .. Len(order) : K[i] = K[j] => i = j

\* The map has the value of every result at its key, and nothing else.
MadeOf(order, K, M) ==
    /\ DOMAIN M = {K[i] : i \in 1 .. Len(order)}
    /\ \A i \in 1 .. Len(order) : M[K[i]] = order[i].value

\* Results with one key for a path and no key twice are put together whole.
LEMMA AssembleFlat ==
    ASSUME NEW S, NEW order \in Seq(S), NEW K, KeyedBy(order, K)
    PROVE  \E M : Assemble(order) = <<M>> /\ MadeOf(order, K, M)
<1>1. PICK n \in Nat : n = Len(order)
  OBVIOUS
<1> DEFINE At(k) == CHOOSE j \in 1 .. n : K[j] = k
           Upto(i) == [k \in {K[j] : j \in 1 .. i} |-> order[At(k)].value]
           W == [i \in 0 .. n |-> <<Upto(i)>>]
           Def(u) == u = [i \in 0 .. Len(order) |->
               IF i = 0 THEN <<EmptyMap>>
               ELSE IF u[i - 1] = <<>> THEN <<>>
               ELSE setNestedValue(u[i - 1][1], order[i].path, order[i].value)]
<1>2. \A j \in 1 .. n : At(K[j]) = j
  BY <1>1 DEF KeyedBy
<1> HIDE DEF At
<1>3. Upto(0) = EmptyMap
  <2>1. 1 .. 0 = {}
    OBVIOUS
  <2>2. QED BY <2>1 DEF EmptyMap
<1>4. ASSUME NEW i \in 1 .. n
      PROVE  setNestedValue(Upto(i - 1), order[i].path, order[i].value) = <<Upto(i)>>
  <2>1. order[i].path = <<K[i]>>
    BY <1>1 DEF KeyedBy
  <2>2. setNestedValue(Upto(i - 1), <<K[i]>>, order[i].value)
          = <<Put(Upto(i - 1), K[i], order[i].value)>>
    BY SetSingle
  <2>3. Put(Upto(i - 1), K[i], order[i].value) = Upto(i)
    <3>1. {K[j] : j \in 1 .. i - 1} \cup {K[i]} = {K[j] : j \in 1 .. i}
      <4>1. 1 .. i = (1 .. i - 1) \cup {i}
        OBVIOUS
      <4>2. QED BY <4>1
    <3>2. At(K[i]) = i
      BY <1>2
    <3>3. PICK g : g = Upto(i - 1)
      OBVIOUS
    <3>4. PICK h : h = Put(g, K[i], order[i].value)
      OBVIOUS
    <3>5. /\ DOMAIN g = {K[j] : j \in 1 .. i - 1}
          /\ \A k \in DOMAIN g : g[k] = order[At(k)].value
      BY <3>3
    <3>6. h = [k \in DOMAIN g \cup {K[i]} |-> IF k = K[i] THEN order[i].value ELSE g[k]]
      BY <3>4, Zenon DEF Put
    <3>7. h = [k \in {K[j] : j \in 1 .. i} |-> order[At(k)].value]
      <4>1. DOMAIN h = {K[j] : j \in 1 .. i}
        BY <3>1, <3>5, <3>6
      <4>2. \A k \in DOMAIN g \cup {K[i]} : h[k] = order[At(k)].value
        BY <3>2, <3>5, <3>6
      <4>3. QED BY <3>1, <3>5, <3>6, <4>1, <4>2
    <3>8. QED BY <3>3, <3>4, <3>7
  <2>4. QED BY <2>1, <2>2, <2>3
<1> HIDE DEF Upto
<1>5. Def(W)
  <2>1. ASSUME NEW i \in 0 .. n
        PROVE  W[i] = IF i = 0 THEN <<EmptyMap>>
                      ELSE IF W[i - 1] = <<>> THEN <<>>
                      ELSE setNestedValue(W[i - 1][1], order[i].path, order[i].value)
    <3>1. CASE i = 0
      BY <1>3, <3>1
    <3>2. CASE i # 0
      <4>1. i \in 1 .. n /\ i - 1 \in 0 .. n
        BY <3>2
      <4>2. W[i - 1] = <<Upto(i - 1)>> /\ W[i] = <<Upto(i)>>
        BY <4>1
      <4>3. W[i - 1] # <<>> /\ W[i - 1][1] = Upto(i - 1)
        BY <4>2
      <4>4. QED BY <3>2, <4>1, <4>2, <4>3, <1>4
    <3>3. QED BY <3>1, <3>2
  <2>2. QED BY <1>1, <2>1
<1>6. PICK u : u = CHOOSE v : Def(v)
  OBVIOUS
<1>7. Def(u)
  BY <1>5, <1>6
<1>8. u[n] = W[n]
  <2> DEFINE Bad == {i \in 0 .. n : u[i] # W[i]}
  <2>0. n \in 0 .. n /\ (u[n] # W[n] => n \in Bad)
    <3>1. n \in 0 .. n
      OBVIOUS
    <3>2. QED BY <3>1, Zenon
  <2>1. SUFFICES ASSUME Bad # {} PROVE FALSE
    BY <2>0, Zenon
  <2>2. PICK i \in Bad : \A j \in Bad : i <= j
    <3>1. Bad \in SUBSET Nat
      OBVIOUS
    <3>2. QED BY <2>1, <3>1, LeastOf
  <2>3. CASE i = 0
    BY <1>1, <1>5, <1>7, <2>2, <2>3
  <2>4. CASE i # 0
    <3>1. i \in 1 .. n /\ i - 1 \in 0 .. n /\ i \in 0 .. n
      BY <2>2, <2>4
    <3>2. u[i - 1] = W[i - 1]
      BY <2>2, <3>1
    <3>3. \A v : Def(v) => v[i] = IF v[i - 1] = <<>> THEN <<>>
                      ELSE setNestedValue(v[i - 1][1], order[i].path, order[i].value)
      BY <1>1, <2>4, <3>1
    <3>4. u[i] = W[i]
      BY <1>5, <1>7, <3>2, <3>3
    <3>5. QED BY <2>2, <3>4
  <2>5. QED BY <2>3, <2>4
<1>9. Assemble(order) = u[Len(order)]
  BY <1>6 DEF Assemble
<1>10. Assemble(order) = <<Upto(n)>>
  BY <1>1, <1>8, <1>9
<1>11. DOMAIN Upto(n) = {K[i] : i \in 1 .. n} /\ \A i \in 1 .. n : Upto(n)[K[i]] = order[i].value
  BY <1>2 DEF Upto
<1>12. QED BY <1>1, <1>10, <1>11 DEF MadeOf

-----------------------------------------------------------------------------
(* From the schedule to the object. *)

\* The path under which a field selects another one.
PathTo(d) == IF Shape(d) # "leaf" THEN <<d, Part>> ELSE <<d>>

\* What a request quoted of a field is what there is to quote of it.
QuotesRight(k, d) ==
    /\ Quotable(d) <=> PathTo(d) \in DOMAIN quoted[k]
    /\ Quotable(d) => quoted[k][PathTo(d)] = Quote(d)

\* A value is in the context, and among the results, exactly when its field was made.
ValuesKept ==
    /\ field \in [Keys -> {"idle", "asked", "made", "none"}]
    /\ DOMAIN quoted = Keys
    /\ \A k \in Keys : k \in DOMAIN generated <=> field[k] = "made"
    /\ \A k \in Keys : field[k] = "made" => generated[k] \in Values(k)
    /\ \A k \in objects : field[k] # "none"
    /\ results = {[path |-> <<k>>, value |-> generated[k]] : k \in {j \in Keys : field[j] = "made"}}

\* No batch starts before the schedule is complete, nor before the ones ahead of it have
\* settled.
BatchesInTurn ==
    /\ turn \in 1 .. Len(batches) + 2
    /\ ~Finished => turn = 1 /\ \A k \in Keys : field[k] = "idle"
    /\ turn <= Len(batches) + 1 => \A k \in Scheduled(turn - 1) : Settled(k)

\* Whatever a field relies on had settled when it was asked for, and was quoted right.
QuotesKept ==
    \A k \in Keys : field[k] # "idle" =>
        \A d \in ReliesOn(k) : d \in Keys /\ Settled(d) /\ QuotesRight(k, d)

\* The inductive invariant of a generation.
GenerationIInv ==
    /\ ScheduleIInv
    /\ ValuesKept
    /\ BatchesInTurn
    /\ QuotesKept
    /\ AssembledWhole

\* A settled field is found under its path exactly when there is something to quote of it.
LEMMA FoundRight ==
    ASSUME GenerationAssumption, ValuesKept, NEW d \in Keys, Settled(d)
    PROVE  /\ Quotable(d) => ResolveFieldPath(PathTo(d), generated) = <<Quote(d)>>
           /\ ~Quotable(d) => ResolveFieldPath(PathTo(d), generated) = <<>>
<1>1. field[d] \in {"made", "none"} /\ (d \in DOMAIN generated <=> field[d] = "made")
      /\ (field[d] = "made" => generated[d] \in Values(d)) /\ (d \in objects => field[d] = "made")
  BY DEF ValuesKept, Settled
<1>2. PICK r : r = ResolveFieldPath(PathTo(d), generated)
  OBVIOUS
<1>3. CASE Shape(d) = "leaf"
  <2>1. PathTo(d) = <<d>> /\ Quote(d) = Leaf(d) /\ d \notin objects /\ Values(d) = {Leaf(d)}
    BY <1>3 DEF PathTo, Quote, Shape, Values
  <2>2. r = IF d \in DOMAIN generated THEN <<generated[d]>> ELSE <<>>
    BY <1>2, <2>1, ResolveOne
  <2>3. QED BY <1>1, <1>2, <2>1, <2>2 DEF Quotable
<1>4. CASE Shape(d) # "leaf"
  <2>1. r = IF d \in DOMAIN generated THEN Down(generated[d], <<d, Part>>, 2) ELSE <<>>
    BY <1>2, <1>4, ResolveTwo DEF PathTo
  <2>2. CASE field[d] # "made"
    BY <1>1, <1>2, <2>1, <2>2 DEF Quotable
  <2>3. CASE field[d] = "made" /\ d \in objects
    <3>1. Shape(d) = "map" /\ Quote(d) = Leaf(d)
          /\ generated[d] \in {MapOf(EmptyMap), MapOf(Whole(d))}
      BY <1>1, <2>3 DEF Shape, Quote, Values
    <3>2. PICK v : v = generated[d]
      OBVIOUS
    <3>3. PICK path : path = <<d, Part>>
      OBVIOUS
    <3>4. path[2] = Part
      BY <3>3
    <3>5. r = Down(v, path, 2)
      BY <1>1, <2>1, <2>3, <3>2, <3>3
    <3>6. IsMap(v)
      BY <3>1, <3>2 DEF IsMap, MapOf
    <3>7. r = IF Part \in DOMAIN v.of THEN <<v.of[Part]>> ELSE <<>>
      BY <3>4, <3>5, <3>6 DEF Down, IsMap
    <3>8. CASE v = MapOf(Whole(d))
      <4>1. DOMAIN v.of = {Part} /\ v.of[Part] = Leaf(d)
        BY <3>8 DEF MapOf, Whole
      <4>2. QED BY <1>2, <2>3, <3>1, <3>2, <3>7, <3>8, <4>1 DEF Quotable
    <3>9. CASE v = MapOf(EmptyMap)
      <4>1. DOMAIN v.of = {}
        BY <3>9 DEF MapOf, EmptyMap
      <4>2. DOMAIN MapOf(Whole(d)).of = {Part}
        BY DEF MapOf, Whole
      <4>3. v # MapOf(Whole(d))
        BY <4>1, <4>2
      <4>4. QED BY <1>2, <2>3, <3>2, <3>7, <4>1, <4>3 DEF Quotable
    <3>10. QED BY <3>1, <3>2, <3>8, <3>9
  <2>4. CASE field[d] = "made" /\ d \notin objects
    <3>1. Shape(d) = "list" /\ Quote(d) = ListOf(<<Leaf(d)>>) /\ Quotable(d)
          /\ generated[d] = ListOf(<<MapOf(Whole(d)), MapOf(EmptyMap)>>)
      BY <1>1, <1>4, <2>4 DEF Shape, Quote, Values, Quotable
    <3>2. PICK a : a = MapOf(Whole(d))
      OBVIOUS
    <3>3. PICK b : b = MapOf(EmptyMap)
      OBVIOUS
    <3>4. IsMap(a) /\ Part \in DOMAIN a.of /\ a.of[Part] = Leaf(d)
      BY <3>2 DEF IsMap, MapOf, Whole
    <3>5. Part \notin DOMAIN b.of
      BY <3>3 DEF MapOf, EmptyMap
    <3>6. PartOfItems(<<a, b>>, Part) = <<Leaf(d)>>
      BY <3>4, <3>5, PartsOfPair
    <3>7. PICK v : v = ListOf(<<a, b>>)
      OBVIOUS
    <3>8. v.is = "list" /\ v.of = <<a, b>> /\ ~IsMap(v)
      BY <3>7 DEF ListOf, IsMap
    <3>9. PICK path : path = <<d, Part>>
      OBVIOUS
    <3>10. path[2] = Part /\ Len(path) = 2
      BY <3>9
    <3>11. Down(v, path, 2) = <<ListOf(<<Leaf(d)>>)>>
      <4>1. PICK parts : parts = PartOfItems(v.of, path[2])
        OBVIOUS
      <4>2. parts = <<Leaf(d)>> /\ parts # <<>>
        BY <4>1, <3>6, <3>8, <3>10
      <4>3. Down(v, path, 2) = <<ListOf(parts)>>
        BY <4>1, <4>2, <3>8, <3>10 DEF Down
      <4>4. QED BY <4>2, <4>3
    <3>12. r = Down(v, path, 2)
      BY <1>1, <2>1, <2>4, <3>1, <3>2, <3>3, <3>7, <3>9
    <3>13. QED BY <1>2, <3>1, <3>11, <3>12
  <2>5. QED BY <2>2, <2>3, <2>4
<1>5. QED BY <1>3, <1>4

\* A request built now quotes every settled field it selects from right.
LEMMA AskedRight ==
    ASSUME GenerationAssumption, ValuesKept, NEW k \in Keys, NEW d \in Keys, Settled(d),
           d \in dependencies[k], NEW q, q = Quoted(SelectFields(k), generated)
    PROVE  /\ Quotable(d) <=> PathTo(d) \in DOMAIN q
           /\ Quotable(d) => q[PathTo(d)] = Quote(d)
<1>1. PICK p : p = PathTo(d)
  OBVIOUS
<1>2. p \in SelectFields(k)
  BY <1>1 DEF SelectFields, PathTo
<1>3. /\ DOMAIN q = {x \in SelectFields(k) : ResolveFieldPath(x, generated) # <<>>}
      /\ p \in DOMAIN q => q[p] = ResolveFieldPath(p, generated)[1]
  BY DEF Quoted
<1>4. /\ Quotable(d) => ResolveFieldPath(p, generated) = <<Quote(d)>>
      /\ ~Quotable(d) => ResolveFieldPath(p, generated) = <<>>
  BY <1>1, FoundRight
<1>5. CASE Quotable(d)
  <2>1. ResolveFieldPath(p, generated) # <<>> /\ ResolveFieldPath(p, generated)[1] = Quote(d)
    BY <1>4, <1>5
  <2>2. QED BY <1>1, <1>2, <1>3, <1>5, <2>1
<1>6. CASE ~Quotable(d)
  BY <1>1, <1>3, <1>4, <1>6
<1>7. QED BY <1>5, <1>6

\* Only a key of the order is resolvable.
LEMMA ResolvableInOrder ==
    ASSUME TypeOK
    PROVE  Resolvable \subseteq ToSet(orderedKeys) /\ ToSet(orderedKeys) \subseteq Keys
<1>1. ToSet(orderedKeys) \in SUBSET Keys
  BY DEF TypeOK, ToSet
<1>2. QED BY <1>1 DEF Resolvable

\* A field that may run is asked for in the turn of its batch, and what it relies on is
\* among the fields of the batches before.
LEMMA RunningRelies ==
    ASSUME ScheduleInv, BatchesInTurn, NEW k \in Running
    PROVE  /\ Finished /\ turn <= Len(batches) + 1 /\ k \in Keys
           /\ \A d \in ReliesOn(k) : d \in Keys /\ Settled(d) /\ d \in dependencies[k]
<1>1. TypeOK /\ ScheduledOnce /\ DependenciesFirst
  BY DEF ScheduleInv
<1>2. PICK n \in Nat : n = Len(batches)
  BY <1>1 DEF TypeOK
<1>3. /\ DOMAIN batches = 1 .. n /\ \A i \in 1 .. n : batches[i] \in SUBSET DOMAIN orderedKeys
  BY <1>1, <1>2 DEF TypeOK
<1>4. turn \in 1 .. n + 2 /\ (turn <= n + 1 => \A d \in Scheduled(turn - 1) : Settled(d))
  BY <1>2 DEF BatchesInTurn
<1>5. Finished /\ turn <= n + 1
  BY <1>2, <1>4 DEF Running
<1>6. \A m \in 0 .. n : Scheduled(m) \subseteq Keys
  <2>1. ToSet(orderedKeys) \subseteq Keys
    BY <1>1, ResolvableInOrder
  <2>2. \A i \in 1 .. n : KeysAt(batches[i]) \subseteq ToSet(orderedKeys)
    BY <1>3 DEF KeysAt, ToSet
  <2>3. QED BY <2>1, <2>2 DEF Scheduled
<1>7. CASE turn = n + 1
  <2>1. k \in Remaining
    BY <1>2, <1>5, <1>7 DEF Running
  <2>2. k \in Keys /\ k \notin ToSet(orderedKeys) /\ k \notin Resolvable
    BY <1>1, <2>1, ResolvableInOrder DEF Remaining
  <2>3. ReliesOn(k) = dependencies[k] \cap ToSet(orderedKeys)
    BY <2>1, <2>2 DEF ReliesOn
  <2>4. ToSet(orderedKeys) = Scheduled(n)
    BY <1>1, <1>2, <1>5 DEF ScheduledOnce
  <2>5. \A d \in Scheduled(n) : Settled(d) /\ d \in Keys
    BY <1>4, <1>6, <1>7
  <2>6. QED BY <1>2, <1>5, <2>2, <2>3, <2>4, <2>5
<1>8. CASE turn # n + 1
  <2>1. turn \in 1 .. n /\ turn - 1 \in 0 .. n
    BY <1>4, <1>5, <1>8
  <2>2. k \in KeysAt(batches[turn])
    BY <1>2, <1>5, <1>8, <2>1 DEF Running
  <2>3. k \in ToSet(orderedKeys) /\ k \in Keys
    <3>1. k \in ToSet(orderedKeys)
      BY <1>3, <2>1, <2>2 DEF KeysAt, ToSet
    <3>2. QED BY <1>1, <3>1, ResolvableInOrder
  <2>4. ReliesOn(k) = IF k \in Resolvable THEN dependencies[k] ELSE {}
    BY <2>3 DEF ReliesOn, Remaining
  <2>5. k \in Resolvable => dependencies[k] \subseteq Scheduled(turn - 1)
    BY <1>1, <1>3, <2>1, <2>2 DEF DependenciesFirst
  <2>6. \A d \in Scheduled(turn - 1) : Settled(d) /\ d \in Keys
    BY <1>4, <1>5, <1>6, <2>1
  <2>7. QED BY <1>2, <1>5, <2>3, <2>4, <2>5, <2>6
<1>9. QED BY <1>7, <1>8

\* Settled fields and their values stay, so what was quoted right stays right.
LEMMA QuotesPersist ==
    ASSUME ValuesKept, QuotesKept, UNCHANGED vars,
           \A d \in Keys : Settled(d) => field'[d] = field[d],
           \A d \in Keys : Settled(d) /\ field[d] = "made" => generated'[d] = generated[d],
           NEW k \in Keys, field[k] # "idle", quoted'[k] = quoted[k]
    PROVE  \A d \in ReliesOn(k)' : d \in Keys /\ Settled(d)' /\ QuotesRight(k, d)'
<1>1. ReliesOn(k)' = ReliesOn(k) /\ objects' = objects
  BY DEF vars, ReliesOn, Resolvable, Remaining
<1>2. SUFFICES ASSUME NEW d \in ReliesOn(k) PROVE d \in Keys /\ Settled(d)' /\ QuotesRight(k, d)'
  BY <1>1
<1>3. d \in Keys /\ Settled(d) /\ QuotesRight(k, d)
  BY DEF QuotesKept
<1>4. field'[d] = field[d] /\ (field[d] = "made" => generated'[d] = generated[d])
  BY <1>3
<1>5. Settled(d)'
  BY <1>3, <1>4 DEF Settled
<1>6. PathTo(d)' = PathTo(d) /\ Quote(d)' = Quote(d)
  BY <1>1 DEF PathTo, Quote, Shape
<1>7. Quotable(d)' <=> Quotable(d)
  BY <1>1, <1>4 DEF Quotable
<1>8. QuotesRight(k, d)'
  BY <1>3, <1>6, <1>7 DEF QuotesRight
<1>9. QED BY <1>3, <1>5, <1>8

\* What the schedule says is not touched by a step of the generation.
LEMMA ScheduleUntouched ==
    ASSUME SchedulerAssumption, NoRepeats, ScheduleIInv, UNCHANGED vars
    PROVE  /\ ScheduleIInv'
           /\ batches' = batches /\ objects' = objects /\ orderedKeys' = orderedKeys
           /\ dependencies' = dependencies /\ Finished' = Finished
           /\ \A n : Scheduled(n)' = Scheduled(n)
           /\ \A k : Values(k)' = Values(k)
<1>1. ScheduleIInv'
  BY ScheduleStep
<1>2. QED BY <1>1 DEF vars, Finished, Scheduled, KeysAt, Values, Shape

\* The analysis of the dependencies comes before everything else.
LEMMA AnalyseKept ==
    ASSUME SchedulerAssumption, NoRepeats, GenerationIInv, Analyse
    PROVE  GenerationIInv'
<1>1. ScheduleIInv'
  BY ScheduleStep DEF GenerationIInv, Analyse
<1>2. /\ turn' = turn /\ field' = field /\ quoted' = quoted /\ generated' = generated
      /\ results' = results /\ object' = object
  BY DEF Analyse, generationVars
<1>3. ~Finished /\ objects' = objects
  BY DEF Analyse, Next, Batch, ForceKey, Schedule
<1>4. turn = 1 /\ \A k \in Keys : field[k] = "idle"
  BY <1>3 DEF GenerationIInv, BatchesInTurn
<1>5. ValuesKept'
  <2>1. \A k : Values(k)' = Values(k)
    BY <1>3 DEF Values, Shape
  <2>2. QED BY <1>2, <1>3, <2>1 DEF GenerationIInv, ValuesKept
<1>6. Len(batches') \in Nat
  BY <1>1 DEF ScheduleIInv, ScheduleInv, TypeOK
<1>7. Scheduled(turn - 1)' = {}
  BY <1>2, <1>4 DEF Scheduled
<1>8. BatchesInTurn'
  BY <1>2, <1>4, <1>6, <1>7 DEF BatchesInTurn
<1>9. QuotesKept'
  BY <1>2, <1>4 DEF QuotesKept
<1>10. AssembledWhole'
  BY <1>2, <1>4, <1>6 DEF AssembledWhole
<1>11. QED BY <1>1, <1>5, <1>8, <1>9, <1>10 DEF GenerationIInv

\* A request is built from settled values.
LEMMA AskKept ==
    ASSUME SchedulerAssumption, GenerationAssumption, NoRepeats, GenerationIInv,
           NEW k \in Keys, Ask(k)
    PROVE  GenerationIInv'
<1>1. /\ ScheduleIInv /\ ScheduleInv /\ ValuesKept /\ BatchesInTurn /\ QuotesKept
  BY DEF GenerationIInv, ScheduleIInv
<1>2. /\ k \in Running /\ field[k] = "idle" /\ UNCHANGED vars
      /\ field' = [field EXCEPT ![k] = "asked"]
      /\ quoted' = [quoted EXCEPT ![k] = Quoted(SelectFields(k), generated)]
      /\ turn' = turn /\ generated' = generated /\ results' = results /\ object' = object
  BY DEF Ask
<1>3. /\ ScheduleIInv' /\ batches' = batches /\ objects' = objects /\ Finished' = Finished
      /\ dependencies' = dependencies
      /\ (\A n : Scheduled(n)' = Scheduled(n)) /\ (\A j : Values(j)' = Values(j))
  BY <1>1, <1>2, ScheduleUntouched
<1>4. /\ Finished /\ turn <= Len(batches) + 1
      /\ \A d \in ReliesOn(k) : d \in Keys /\ Settled(d) /\ d \in dependencies[k]
  BY <1>1, <1>2, RunningRelies
<1>5. /\ field \in [Keys -> {"idle", "asked", "made", "none"}] /\ DOMAIN quoted = Keys
  BY <1>1 DEF ValuesKept
<1>6. /\ field' \in [Keys -> {"idle", "asked", "made", "none"}] /\ DOMAIN quoted' = Keys
      /\ field'[k] = "asked" /\ quoted'[k] = Quoted(SelectFields(k), generated)
      /\ \A j \in Keys \ {k} : field'[j] = field[j] /\ quoted'[j] = quoted[j]
  BY <1>2, <1>5
<1>7. \A j \in Keys : field'[j] = "made" <=> field[j] = "made"
  BY <1>2, <1>6
<1>8. \A j \in Keys : Settled(j) => field'[j] = field[j] /\ Settled(j)'
  BY <1>2, <1>6 DEF Settled
<1>9. ValuesKept'
  <2>1. {j \in Keys : field'[j] = "made"} = {j \in Keys : field[j] = "made"}
    BY <1>7
  <2>2. results' = {[path |-> <<j>>, value |-> generated'[j]] : j \in {j \in Keys : field'[j] = "made"}}
    BY <1>1, <1>2, <2>1 DEF ValuesKept
  <2>3. \A j \in objects : field'[j] # "none"
    BY <1>1, <1>2, <1>5 DEF ValuesKept
  <2>4. QED BY <1>1, <1>2, <1>3, <1>6, <1>7, <2>2, <2>3 DEF ValuesKept
<1>10. BatchesInTurn'
  <2>1. TypeOK /\ turn \in 1 .. Len(batches) + 2
    BY <1>1 DEF ScheduleInv, BatchesInTurn
  <2>2. \A j \in Scheduled(turn - 1) : Settled(j) /\ j # k
    BY <1>1, <1>2, <1>4 DEF BatchesInTurn, Settled
  <2>3. \A j \in Scheduled(turn - 1) : Settled(j)'
    BY <1>2, <1>5, <2>2 DEF Settled
  <2>4. QED BY <1>2, <1>3, <1>4, <2>1, <2>3 DEF BatchesInTurn
<1>11. QuotesKept'
  <2>1. ASSUME NEW j \in Keys, field'[j] # "idle"
        PROVE  \A d \in ReliesOn(j)' : d \in Keys /\ Settled(d)' /\ QuotesRight(j, d)'
    <3>1. CASE j # k
      <4>1. field[j] # "idle" /\ quoted'[j] = quoted[j]
        BY <1>6, <2>1, <3>1
      <4>2. QED BY <1>1, <1>2, <1>8, <4>1, QuotesPersist
    <3>2. CASE j = k
      <4>1. ReliesOn(k)' = ReliesOn(k)
        BY <1>2 DEF vars, ReliesOn, Resolvable, Remaining
      <4>2. SUFFICES ASSUME NEW d \in ReliesOn(k)
                     PROVE  d \in Keys /\ Settled(d)' /\ QuotesRight(k, d)'
        BY <3>2, <4>1
      <4>3. d \in Keys /\ Settled(d) /\ d \in dependencies[k]
        BY <1>4
      <4>4. PICK q : q = Quoted(SelectFields(k), generated)
        OBVIOUS
      <4>5. /\ Quotable(d) <=> PathTo(d) \in DOMAIN q
            /\ Quotable(d) => q[PathTo(d)] = Quote(d)
        BY <1>1, <4>3, <4>4, AskedRight
      <4>6. quoted'[k] = q /\ field'[d] = field[d] /\ Settled(d)'
        BY <1>6, <1>8, <4>3, <4>4
      <4>7. PathTo(d)' = PathTo(d) /\ Quote(d)' = Quote(d)
        BY <1>3 DEF PathTo, Quote, Shape
      <4>8. Quotable(d)' <=> Quotable(d)
        BY <1>2, <1>3, <4>6 DEF Quotable
      <4>9. QED BY <4>3, <4>5, <4>6, <4>7, <4>8 DEF QuotesRight
    <3>3. QED BY <3>1, <3>2
  <2>2. QED BY <2>1 DEF QuotesKept
<1>12. AssembledWhole'
  <2>1. PICK n \in Nat : n = Len(batches)
    BY <1>1 DEF ScheduleInv, TypeOK
  <2>2. turn \in Nat /\ turn # n + 2
    BY <1>1, <1>4, <2>1 DEF BatchesInTurn
  <2>3. QED BY <1>2, <1>3, <2>1, <2>2 DEF AssembledWhole
<1>13. QED BY <1>3, <1>9, <1>10, <1>11, <1>12 DEF GenerationIInv

\* A field ends with a value of its own, which reaches the context and the results alike.
LEMMA MadeKept ==
    ASSUME SchedulerAssumption, GenerationAssumption, NoRepeats, GenerationIInv,
           NEW k \in Keys, Made(k)
    PROVE  GenerationIInv'
<1>1. /\ ScheduleIInv /\ ScheduleInv /\ ValuesKept /\ BatchesInTurn /\ QuotesKept /\ AssembledWhole
  BY DEF GenerationIInv, ScheduleIInv
<1>2. /\ field[k] = "asked" /\ UNCHANGED vars
      /\ turn' = turn /\ quoted' = quoted /\ object' = object
  BY DEF Made
<1>3. /\ ScheduleIInv' /\ batches' = batches /\ objects' = objects /\ Finished' = Finished
      /\ (\A n : Scheduled(n)' = Scheduled(n)) /\ (\A j : Values(j)' = Values(j))
  BY <1>1, <1>2, ScheduleUntouched
<1>4. field \in [Keys -> {"idle", "asked", "made", "none"}] /\ ~Settled(k) /\ field[k] # "made"
  BY <1>1, <1>2 DEF ValuesKept, Settled
<1>5. /\ \A j \in Keys : j \in DOMAIN generated <=> field[j] = "made"
      /\ \A j \in Keys : field[j] = "made" => generated[j] \in Values(j)
      /\ \A j \in objects : field[j] # "none"
      /\ results = {[path |-> <<j>>, value |-> generated[j]] : j \in {j \in Keys : field[j] = "made"}}
      /\ DOMAIN quoted = Keys
  BY <1>1 DEF ValuesKept
<1>6. ValuesKept' /\ (\A j \in Keys \ {k} : field'[j] = field[j])
      /\ (\A j \in Keys \ {k} : field[j] = "made" => generated'[j] = generated[j])
  <2>1. CASE k \notin objects /\ field' = [field EXCEPT ![k] = "none"]
             /\ generated' = generated /\ results' = results
    <3>1. /\ field' \in [Keys -> {"idle", "asked", "made", "none"}]
          /\ field'[k] = "none" /\ \A j \in Keys \ {k} : field'[j] = field[j]
      BY <1>4, <2>1
    <3>2. \A j \in Keys : field'[j] = "made" <=> field[j] = "made"
      BY <1>4, <3>1
    <3>3. {j \in Keys : field'[j] = "made"} = {j \in Keys : field[j] = "made"}
      BY <3>2
    <3>4. results' = {[path |-> <<j>>, value |-> generated'[j]] : j \in {j \in Keys : field'[j] = "made"}}
      BY <1>5, <2>1, <3>3
    <3>5. \A j \in objects : field'[j] # "none"
      BY <1>4, <1>5, <2>1
    <3>6. QED BY <1>2, <1>3, <1>5, <2>1, <3>1, <3>2, <3>4, <3>5 DEF ValuesKept
  <2>2. ASSUME NEW v \in Values(k), NEW byField \in BOOLEAN,
               field' = [field EXCEPT ![k] = "made"],
               generated' = SetGenerated(k, v, byField),
               results' = results \cup {[path |-> <<k>>, value |-> v]}
        PROVE  ValuesKept' /\ (\A j \in Keys \ {k} : field'[j] = field[j])
               /\ (\A j \in Keys \ {k} : field[j] = "made" => generated'[j] = generated[j])
    <3>1. /\ field' \in [Keys -> {"idle", "asked", "made", "none"}]
          /\ field'[k] = "made" /\ \A j \in Keys \ {k} : field'[j] = field[j]
      BY <1>4, <2>2
    <3>2. PICK inside : inside = IF byField THEN Put(generated, Part, v.of[Part]) ELSE generated
      OBVIOUS
    <3>3. /\ \A j \in Keys : j \in DOMAIN inside <=> j \in DOMAIN generated
          /\ \A j \in Keys : j \in DOMAIN generated => inside[j] = generated[j]
      BY <3>2 DEF Put, GenerationAssumption
    <3>4. generated' = Put(inside, k, v)
      BY <2>2, <3>2 DEF SetGenerated
    <3>5. /\ DOMAIN generated' = DOMAIN inside \cup {k} /\ generated'[k] = v
          /\ \A j \in DOMAIN inside \ {k} : generated'[j] = inside[j]
      BY <3>4 DEF Put
    <3>6. \A j \in Keys \ {k} : field[j] = "made" => generated'[j] = generated[j]
      BY <1>5, <3>3, <3>5
    <3>7. \A j \in Keys : j \in DOMAIN generated' <=> field'[j] = "made"
      BY <1>5, <3>1, <3>3, <3>5
    <3>8. \A j \in Keys : field'[j] = "made" => generated'[j] \in Values(j)
      BY <1>5, <2>2, <3>1, <3>5, <3>6
    <3>9. PICK old : old = {j \in Keys : field[j] = "made"}
      OBVIOUS
    <3>10. {j \in Keys : field'[j] = "made"} = old \cup {k} /\ k \notin old
      BY <1>4, <3>1, <3>9
    <3>11. results = {[path |-> <<j>>, value |-> generated[j]] : j \in old}
      BY <1>5, <3>9
    <3>12. {[path |-> <<j>>, value |-> generated'[j]] : j \in old}
             = {[path |-> <<j>>, value |-> generated[j]] : j \in old}
      <4>1. \A j \in old : generated'[j] = generated[j]
        BY <3>6, <3>9, <3>10
      <4>2. QED BY <4>1
    <3>13. {[path |-> <<j>>, value |-> generated'[j]] : j \in old \cup {k}}
             = {[path |-> <<j>>, value |-> generated'[j]] : j \in old}
                 \cup {[path |-> <<k>>, value |-> generated'[k]]}
      OBVIOUS
    <3>14. results' = {[path |-> <<j>>, value |-> generated'[j]] : j \in {j \in Keys : field'[j] = "made"}}
      BY <2>2, <3>5, <3>10, <3>11, <3>12, <3>13
    <3>15. \A j \in objects : field'[j] # "none"
      BY <1>4, <1>5, <2>2
    <3>16. QED BY <1>2, <1>3, <1>5, <3>1, <3>6, <3>7, <3>8, <3>14, <3>15 DEF ValuesKept
  <2>3. QED BY <2>1, <2>2 DEF Made
<1>7. \A j \in Keys : Settled(j) => j # k /\ field'[j] = field[j] /\ Settled(j)'
  BY <1>4, <1>6 DEF Settled
<1>8. PICK n \in Nat : n = Len(batches)
  BY <1>1 DEF ScheduleInv, TypeOK
<1>9. turn \in 1 .. n + 2 /\ turn # n + 2
  BY <1>1, <1>4, <1>8 DEF BatchesInTurn, AssembledWhole
<1>10. BatchesInTurn'
  <2>1. Finished
    BY <1>1, <1>2 DEF BatchesInTurn
  <2>2. \A j \in Scheduled(turn - 1) : Settled(j) /\ j \in Keys
    <3>1. \A j \in Scheduled(turn - 1) : Settled(j)
      BY <1>1, <1>8, <1>9 DEF BatchesInTurn
    <3>2. Scheduled(turn - 1) \subseteq Keys
      <4>1. \A i \in 1 .. n : batches[i] \in SUBSET DOMAIN orderedKeys
        BY <1>1, <1>8 DEF ScheduleInv, TypeOK
      <4>2. \A i \in 1 .. turn - 1 : KeysAt(batches[i]) \subseteq Keys
        BY <1>1, <1>9, <4>1 DEF KeysAt, ScheduleInv, TypeOK
      <4>3. QED BY <4>2 DEF Scheduled
    <3>3. QED BY <3>1, <3>2
  <2>3. \A j \in Scheduled(turn - 1) : Settled(j)'
    BY <1>7, <2>2
  <2>4. QED BY <1>2, <1>3, <1>8, <1>9, <2>1, <2>3 DEF BatchesInTurn
<1>11. QuotesKept'
  <2>1. ASSUME NEW j \in Keys, field'[j] # "idle"
        PROVE  \A d \in ReliesOn(j)' : d \in Keys /\ Settled(d)' /\ QuotesRight(j, d)'
    <3>1. field[j] # "idle" /\ quoted'[j] = quoted[j]
      BY <1>2, <1>6, <2>1
    <3>2. \A d \in Keys : Settled(d) /\ field[d] = "made" => generated'[d] = generated[d]
      BY <1>6, <1>7
    <3>3. QED BY <1>1, <1>2, <1>7, <3>1, <3>2, QuotesPersist
  <2>2. QED BY <2>1 DEF QuotesKept
<1>12. AssembledWhole'
  BY <1>2, <1>3, <1>8, <1>9 DEF AssembledWhole
<1>13. QED BY <1>3, <1>6, <1>10, <1>11, <1>12 DEF GenerationIInv

\* What neither the schedule nor a field changes keeps the values and the quotes.
LEMMA TurnKept ==
    ASSUME SchedulerAssumption, NoRepeats, GenerationIInv, UNCHANGED vars,
           UNCHANGED <<field, quoted, generated, results>>
    PROVE  ValuesKept' /\ QuotesKept' /\ \A j : Settled(j)' <=> Settled(j)
<1>1. /\ ScheduleIInv /\ ValuesKept /\ QuotesKept
  BY DEF GenerationIInv
<1>2. objects' = objects /\ (\A j : Values(j)' = Values(j))
  BY <1>1, ScheduleUntouched
<1>3. ValuesKept'
  BY <1>1, <1>2 DEF ValuesKept
<1>4. \A j \in Keys : field'[j] # "idle" =>
        \A d \in ReliesOn(j)' : d \in Keys /\ Settled(d)' /\ QuotesRight(j, d)'
  BY <1>1, QuotesPersist
<1>5. QED BY <1>3, <1>4 DEF QuotesKept, Settled

\* The next batch starts when the one before it has settled.
LEMMA NextBatchKept ==
    ASSUME SchedulerAssumption, NoRepeats, GenerationIInv, NextBatch
    PROVE  GenerationIInv'
<1>1. /\ ScheduleIInv /\ ScheduleInv /\ BatchesInTurn
  BY DEF GenerationIInv, ScheduleIInv
<1>2. /\ Finished /\ turn <= Len(batches) /\ turn' = turn + 1 /\ UNCHANGED vars
      /\ (\A k \in Running : Settled(k)) /\ UNCHANGED <<field, quoted, generated, results>>
  BY DEF NextBatch
<1>3. /\ ScheduleIInv' /\ batches' = batches /\ Finished' = Finished
      /\ (\A n : Scheduled(n)' = Scheduled(n))
  BY <1>1, <1>2, ScheduleUntouched
<1>4. ValuesKept' /\ QuotesKept' /\ \A j : Settled(j)' <=> Settled(j)
  BY <1>2, TurnKept
<1>5. PICK n \in Nat : n = Len(batches)
  BY <1>1 DEF ScheduleInv, TypeOK
<1>6. turn \in 1 .. n
  BY <1>1, <1>2, <1>5 DEF BatchesInTurn
<1>7. Running = KeysAt(batches[turn])
  BY <1>2, <1>5, <1>6 DEF Running
<1>8. Scheduled(turn) = Scheduled(turn - 1) \cup KeysAt(batches[turn])
  <2>1. 1 .. turn = (1 .. turn - 1) \cup {turn}
    BY <1>6
  <2>2. QED BY <2>1 DEF Scheduled
<1>9. \A k \in Scheduled(turn) : Settled(k)
  BY <1>1, <1>2, <1>5, <1>6, <1>7, <1>8 DEF BatchesInTurn
<1>10. BatchesInTurn'
  <2>1. turn' - 1 = turn /\ turn' \in 1 .. n + 2
    BY <1>2, <1>6
  <2>2. \A k \in Scheduled(turn - 1)' : Settled(k)'
    <3>1. Scheduled(turn - 1)' = Scheduled(turn)
      BY <1>2, <2>1 DEF Scheduled, KeysAt, vars
    <3>2. QED BY <1>4, <1>9, <3>1
  <2>3. QED BY <1>2, <1>3, <1>5, <2>1, <2>2 DEF BatchesInTurn
<1>11. AssembledWhole'
  <2>1. turn' # n + 2
    BY <1>2, <1>6
  <2>2. QED BY <1>3, <1>5, <2>1 DEF AssembledWhole
<1>12. QED BY <1>3, <1>4, <1>10, <1>11 DEF GenerationIInv

\* The results, each of a key of its own, make up the object in any order.
LEMMA FinishKept ==
    ASSUME SchedulerAssumption, NoRepeats, GenerationIInv, Finish
    PROVE  GenerationIInv'
<1>1. /\ ScheduleIInv /\ ScheduleInv /\ BatchesInTurn /\ ValuesKept
  BY DEF GenerationIInv, ScheduleIInv
<1>2. /\ Finished /\ turn = Len(batches) + 1 /\ turn' = turn + 1 /\ UNCHANGED vars
      /\ (\A k \in Running : Settled(k)) /\ UNCHANGED <<field, quoted, generated, results>>
  BY DEF Finish
<1>3. /\ ScheduleIInv' /\ batches' = batches /\ Finished' = Finished
      /\ (\A n : Scheduled(n)' = Scheduled(n))
  BY <1>1, <1>2, ScheduleUntouched
<1>4. ValuesKept' /\ QuotesKept' /\ \A j : Settled(j)' <=> Settled(j)
  BY <1>2, TurnKept
<1>5. PICK n \in Nat : n = Len(batches)
  BY <1>1 DEF ScheduleInv, TypeOK
<1>6. BatchesInTurn'
  BY <1>2, <1>3, <1>5 DEF BatchesInTurn
<1>7. \A k \in Keys : Settled(k)
  <2>1. Running = Remaining
    BY <1>2, <1>5 DEF Running
  <2>2. Scheduled(n) = ToSet(orderedKeys)
    BY <1>1, <1>2, <1>5 DEF ScheduleInv, ScheduledOnce
  <2>3. \A k \in Scheduled(n) : Settled(k)
    BY <1>1, <1>2, <1>5 DEF BatchesInTurn
  <2>4. QED BY <1>2, <2>1, <2>2, <2>3 DEF Remaining
<1>8. PICK made : made = {k \in Keys : field[k] = "made"}
  OBVIOUS
<1>9. results = {[path |-> <<k>>, value |-> generated[k]] : k \in made}
  BY <1>1, <1>8 DEF ValuesKept
<1>10. PICK order \in SetToSeqs(results) : object' = Assemble(order)
  BY DEF Finish
<1>11. IsFiniteSet(results)
  <2>1. IsFiniteSet(made)
    BY <1>8, FS_Subset DEF SchedulerAssumption
  <2> DEFINE R == [k \in made |-> [path |-> <<k>>, value |-> generated[k]]]
  <2>2. R \in Surjection(made, results)
    BY <1>9 DEF Surjection
  <2>3. QED BY <2>1, <2>2, FS_Surjection
<1>12. PICK m \in Nat : m = Cardinality(results)
  BY <1>11, FS_CardinalityType
<1>13. order \in [1 .. m -> results] /\ \A i, j \in 1 .. m : order[i] = order[j] => i = j
  BY <1>10, <1>12 DEF SetToSeqs
<1>14. order \in Seq(results) /\ Len(order) = m
  BY <1>13
<1>15. \A r \in results : \E i \in 1 .. m : order[i] = r
  <2>1. order \in Injection(1 .. m, results)
    BY <1>13 DEF Injection, IsInjective
  <2>2. Cardinality(1 .. m) = m
    BY FS_Interval
  <2>3. order \in Surjection(1 .. m, results)
    BY <1>11, <1>12, <2>1, <2>2, FS_Injection
  <2>4. QED BY <2>3 DEF Surjection
<1>16. PICK K : K = [i \in 1 .. m |-> order[i].path[1]]
  OBVIOUS
<1>17. ASSUME NEW i \in 1 .. m
       PROVE  K[i] \in made /\ order[i] = [path |-> <<K[i]>>, value |-> generated[K[i]]]
  <2>1. PICK k \in made : order[i] = [path |-> <<k>>, value |-> generated[k]]
    BY <1>9, <1>13
  <2>2. K[i] = k
    BY <1>16, <2>1
  <2>3. QED BY <2>1, <2>2
<1>18. \A i, j \in 1 .. m : K[i] = K[j] => i = j
  BY <1>13, <1>17
<1>19. made = {K[i] : i \in 1 .. m}
  <2>1. ASSUME NEW k \in made PROVE \E i \in 1 .. m : K[i] = k
    <3>1. [path |-> <<k>>, value |-> generated[k]] \in results
      BY <1>9
    <3>2. PICK i \in 1 .. m : order[i] = [path |-> <<k>>, value |-> generated[k]]
      BY <1>15, <3>1
    <3>3. QED BY <1>16, <3>2
  <2>2. QED BY <1>17, <2>1
<1>20. PICK M : /\ Assemble(order) = <<M>> /\ DOMAIN M = {K[i] : i \in 1 .. m}
                /\ \A i \in 1 .. m : M[K[i]] = order[i].value
  <2>1. KeyedBy(order, K)
    BY <1>14, <1>17, <1>18 DEF KeyedBy
  <2>2. \E M : Assemble(order) = <<M>> /\ MadeOf(order, K, M)
    BY <1>14, <2>1, AssembleFlat
  <2>3. QED BY <1>14, <2>2 DEF MadeOf
<1>21. \A k \in made : M[k] = generated[k]
  <2>1. TAKE k \in made
  <2>2. PICK i \in 1 .. m : k = K[i]
    BY <1>19
  <2>3. order[i] = [path |-> <<K[i]>>, value |-> generated[K[i]]]
    BY <1>17
  <2>4. order[i].value = generated[K[i]]
    BY <2>3
  <2>5. QED BY <1>20, <2>2, <2>4
<1>22. AssembledWhole'
  <2>1. object' = <<M>> /\ object' # <<>> /\ object'[1] = M
    BY <1>10, <1>20
  <2>2. DOMAIN M = {k \in Keys : field'[k] = "made"}
    BY <1>2, <1>8, <1>19, <1>20
  <2>3. \A k \in DOMAIN M : M[k] = generated'[k]
    BY <1>2, <1>19, <1>20, <1>21
  <2>4. QED BY <1>4, <1>7, <2>1, <2>2, <2>3 DEF AssembledWhole
<1>23. QED BY <1>3, <1>4, <1>6, <1>22 DEF GenerationIInv

\* A generation starts with nothing.
LEMMA GenerationStarts ==
    ASSUME SchedulerAssumption, GenerationInit
    PROVE  GenerationIInv
<1>1. ScheduleIInv
  BY ScheduleStarts DEF GenerationInit
<1>2. /\ batches = <<>> /\ objects \subseteq Keys /\ turn = 1 /\ field = [k \in Keys |-> "idle"]
      /\ quoted = [k \in Keys |-> EmptyMap] /\ generated = EmptyMap /\ results = {}
  BY DEF GenerationInit, Init
<1>3. ValuesKept
  BY <1>2 DEF ValuesKept, EmptyMap
<1>4. Scheduled(turn - 1) = {}
  BY <1>2 DEF Scheduled
<1>5. BatchesInTurn /\ QuotesKept /\ AssembledWhole
  BY <1>2, <1>4 DEF BatchesInTurn, QuotesKept, AssembledWhole
<1>6. QED BY <1>1, <1>3, <1>5 DEF GenerationIInv

\* Every step keeps the invariant of a generation.
LEMMA GenerationStep ==
    ASSUME SchedulerAssumption, GenerationAssumption, NoRepeats, GenerationIInv,
           [GenerationNext]_allVars
    PROVE  GenerationIInv'
<1>1. CASE Analyse
  BY <1>1, AnalyseKept
<1>2. CASE \E k \in Keys : Ask(k) \/ Made(k)
  BY <1>2, AskKept, MadeKept
<1>3. CASE NextBatch
  BY <1>3, NextBatchKept
<1>4. CASE Finish
  BY <1>4, FinishKept
<1>5. CASE UNCHANGED allVars
  <2>1. UNCHANGED vars /\ UNCHANGED <<field, quoted, generated, results>>
        /\ turn' = turn /\ object' = object
    BY <1>5 DEF allVars, generationVars
  <2>2. ValuesKept' /\ QuotesKept' /\ \A j : Settled(j)' <=> Settled(j)
    BY <2>1, TurnKept
  <2>3. /\ ScheduleIInv' /\ batches' = batches /\ Finished' = Finished
        /\ (\A n : Scheduled(n)' = Scheduled(n))
    BY <2>1, ScheduleUntouched DEF GenerationIInv
  <2>4. BatchesInTurn' /\ AssembledWhole'
    BY <2>1, <2>2, <2>3 DEF GenerationIInv, BatchesInTurn, AssembledWhole
  <2>5. QED BY <2>2, <2>3, <2>4 DEF GenerationIInv
<1>6. QED BY <1>1, <1>2, <1>3, <1>4, <1>5 DEF GenerationNext

\* What is kept of the quotes is what is claimed of them.
LEMMA QuotesImplied ==
    ASSUME QuotesKept
    PROVE  QuotesFinalValues
<1>1. SUFFICES ASSUME NEW k \in Keys, field[k] # "idle", NEW p \in SelectFields(k), p[1] \in ReliesOn(k)
               PROVE  /\ Settled(p[1])
                      /\ Quotable(p[1]) <=> p \in DOMAIN quoted[k]
                      /\ Quotable(p[1]) => quoted[k][p] = Quote(p[1])
  BY DEF QuotesFinalValues
<1>2. PICK d \in dependencies[k] :
        p = IF d \in Keys /\ Shape(d) # "leaf" THEN <<d, Part>> ELSE <<d>>
  BY DEF SelectFields
<1>3. p[1] = d
  BY <1>2
<1>4. d \in Keys /\ Settled(d) /\ QuotesRight(k, d)
  BY <1>1, <1>3 DEF QuotesKept
<1>5. p = PathTo(d)
  BY <1>2, <1>4 DEF PathTo
<1>6. QED BY <1>3, <1>4, <1>5 DEF QuotesRight

\* No field works from a stale or missing value: whatever the schema selects and however
\* the fields of a batch interleave, a request quotes the final values of the fields it may
\* rely on, and leaves out none that exists.
THEOREM QuotesSound ==
    ASSUME NoRepeats
    PROVE  GenerationSpec => [](ScheduleInv /\ QuotesFinalValues)
<1>1. GenerationInit => GenerationIInv
  BY GenerationStarts, SchedulerAssumption
<1>2. GenerationIInv /\ [GenerationNext]_allVars => GenerationIInv'
  BY GenerationStep, SchedulerAssumption, GenerationAssumption
<1>3. GenerationIInv => ScheduleInv /\ QuotesFinalValues
  BY QuotesImplied DEF GenerationIInv, ScheduleIInv
<1>4. QED BY <1>1, <1>2, <1>3, PTL DEF GenerationSpec

\* The assembled object has exactly the values that were made, each at its own key, in
\* whichever order the results came in, and no field was left unasked.
THEOREM AssemblySound ==
    ASSUME NoRepeats
    PROVE  GenerationSpec => []AssembledWhole
<1>1. GenerationInit => GenerationIInv
  BY GenerationStarts, SchedulerAssumption
<1>2. GenerationIInv /\ [GenerationNext]_allVars => GenerationIInv'
  BY GenerationStep, SchedulerAssumption, GenerationAssumption
<1>3. GenerationIInv => AssembledWhole
  BY DEF GenerationIInv
<1>4. QED BY <1>1, <1>2, <1>3, PTL DEF GenerationSpec
=============================================================================
