------------------------ MODULE JobOrchestratorProofs ------------------------
(***************************************************************************)
(* Proofs about JobOrchestrator, for any set of jobs, any number of        *)
(* workers and any limits: the pipeline keeps every job in one place and   *)
(* implements JobService.  A job is counted wherever it is held; every     *)
(* step moves it from one place to one other or takes it out with its      *)
(* answer.                                                                 *)
(***************************************************************************)
EXTENDS JobOrchestrator, FiniteSetTheorems, SequenceTheorems, WellFoundedInduction, TLAPS

-----------------------------------------------------------------------------
(* The inductive invariant *)

Replies == {"nil", "reply", "chat"}

\* What a job's submitter, its result channel and its history have to do with each other.
JobOK(j) ==
    /\ submit[j] = "idle" => result[j] = "empty" /\ outcome[j] = "none"
    /\ submit[j] = "waiting" => result[j] \in {"empty"} \cup Replies /\ outcome[j] = "none"
    /\ submit[j] \in {"returned", "failed", "panic"} => result[j] = "closed" /\ outcome[j] \in Replies
    /\ j \in dropped => submit[j] = "waiting" /\ result[j] = "empty"

Live(j) == submit[j] = "waiting" /\ result[j] = "empty" /\ j \notin dropped

\* How often a job is in a sequence, in a variable, with the workers and in the batches.
Occ(s, j) == Cardinality(In(s, j))
Lone(S, j) == IF j \in S THEN 1 ELSE 0
Busy(j) == {w \in Workers : cur[w] = j}
Watch(M, j) == UNION {{b} \X In(b.jobs, j) : b \in M}

MonitorOK(b) ==
    /\ b.at \in {"wait", "read"} => b.calls = 0
    /\ b.at = "notify" => b.calls <= RetryAttempts

Typed ==
    /\ TypeOK
    /\ \A j \in Jobs : IsFiniteSet(Watch(monitors, j))
    /\ \A b \in monitors : MonitorOK(b)

\* Who holds a job, and where it then stands.
Holding ==
    /\ \A w \in Workers : wpc[w] \in {"limit", "call", "backoff"} <=> cur[w] # None
    /\ adding # None => bridge = adding /\ ToBatch(adding)
    /\ adding = None <=> fpc["add"] = "idle"
    /\ \A f \in Flushers : snap[f] = <<>> <=> fpc[f] \notin {"convert", "send", "create"}

\* How far each goroutine is once Stop has come to it.
Stopping ==
    /\ \A w \in Workers : wpc[w] = "exit" => manager = "exit" /\ jobChan = <<>>
    /\ manager = "exit" => held = None /\ stop \in {"closed", "stopped"}
    /\ stop = "stopped" => manager = "exit" /\ \A w \in Workers : wpc[w] = "exit"
    /\ routine = "exit" => fpc["routine"] = "idle"
    /\ batchStop \in {"flushing", "stopped"} => routine = "exit"
    /\ batchStop # "flushing" => fpc["stop"] = "idle"
    /\ Batching /\ stop \in {"closed", "stopped"} => batchStop = "stopped"

\* How often a job is in the queues and in the batches.
Queued(j) ==
    Occ(channel, j) + Lone({bridge}, j) + Lone(jobQueue, j) + Lone({held}, j) + Occ(jobChan, j)
      + Cardinality(Busy(j))
Batched(j) ==
    Occ(pendingJobs, j) + Occ(snap["add"], j) + Occ(snap["routine"], j) + Occ(snap["stop"], j)
      + Cardinality(Watch(monitors, j))

Counted == \A j \in Jobs : Queued(j) + Batched(j) = IF Live(j) THEN 1 ELSE 0

PipelineIInv ==
    /\ Typed
    /\ \A j \in Jobs : JobOK(j)
    /\ Holding
    /\ Stopping
    /\ Counted

-----------------------------------------------------------------------------
(* Counting the occurrences of a job *)

\* Positions shifted by k are as many.
LEMMA Shifted ==
    ASSUME NEW S, IsFiniteSet(S), S \subseteq Nat, NEW k \in Nat
    PROVE  /\ IsFiniteSet({i + k : i \in S})
           /\ Cardinality({i + k : i \in S}) = Cardinality(S)
<1> DEFINE T == {i + k : i \in S}
           f == [i \in S |-> i + k]
<1>1. f \in Bijection(S, T)
  BY DEF Bijection, Injection, Surjection, IsInjective
<1>2. ExistsBijection(S, T)
  BY <1>1 DEF ExistsBijection
<1>3. QED BY <1>2, FS_Bijection

\* A job is in a sequence a finite number of times, and none when it is not in it.
LEMMA OccType ==
    ASSUME NEW s \in Seq(Jobs), NEW j
    PROVE  /\ IsFiniteSet(In(s, j)) /\ Occ(s, j) \in Nat
           /\ Occ(s, j) = 0 <=> \A i \in DOMAIN s : s[i] # j
           /\ In(s, j) \subseteq 1 .. Len(s)
<1>1. In(s, j) \in SUBSET (1 .. Len(s)) /\ Len(s) \in Nat
  BY DEF In
<1>2. IsFiniteSet(1 .. Len(s))
  BY <1>1, FS_Interval
<1>3. IsFiniteSet(In(s, j))
  BY <1>1, <1>2, FS_Subset
<1>4. QED BY <1>1, <1>3, FS_CardinalityType, FS_EmptySet, ZenonT(40) DEF Occ, In

\* No job is in the empty sequence.
LEMMA OccEmpty == \A j : Occ(<<>>, j) = 0
<1> TAKE j
<1>1. In(<<>>, j) = {}
  BY DEF In
<1>2. QED BY <1>1, FS_EmptySet DEF Occ

\* A send on a channel.
LEMMA OccAppend ==
    ASSUME NEW s \in Seq(Jobs), NEW k \in Jobs, NEW j
    PROVE  Occ(Append(s, k), j) = Occ(s, j) + Lone({k}, j)
<1>1. IsFiniteSet(In(s, j)) /\ In(s, j) \subseteq 1 .. Len(s)
  BY OccType
<1>2. CASE k = j
  <2>1. In(Append(s, k), j) = In(s, j) \cup {Len(s) + 1}
    BY <1>2 DEF In
  <2>2. Len(s) + 1 \notin In(s, j)
    BY <1>1
  <2>3. QED BY <1>1, <1>2, <2>1, <2>2, FS_AddElement, ZenonT(40) DEF Occ, Lone
<1>3. CASE k # j
  <2>1. In(Append(s, k), j) = In(s, j)
    BY <1>3 DEF In
  <2>2. QED BY <1>3, <2>1, OccType DEF Occ, Lone
<1>4. QED BY <1>2, <1>3

\* A receive from a channel.
LEMMA OccTail ==
    ASSUME NEW s \in Seq(Jobs), s # <<>>, NEW j
    PROVE  Occ(Tail(s), j) = Occ(s, j) - Lone({Head(s)}, j)
<1>1. Tail(s) \in Seq(Jobs) /\ Head(s) = s[1] /\ Len(s) \in Nat \ {0} /\ Len(Tail(s)) = Len(s) - 1
  BY EmptySeq
<1>2. \A i \in 1 .. Len(Tail(s)) : Tail(s)[i] = s[i + 1]
  BY <1>1
<1> DEFINE S == In(Tail(s), j)
           T == {i + 1 : i \in S}
<1>3. /\ IsFiniteSet(S) /\ S \subseteq 1 .. Len(Tail(s)) /\ Occ(Tail(s), j) \in Nat
  BY <1>1, OccType
<1>4. IsFiniteSet(T) /\ Cardinality(T) = Cardinality(S)
  BY <1>3, Shifted
<1>5. CASE Head(s) = j
  <2>1. In(s, j) = T \cup {1}
    <3>1. ASSUME NEW i \in In(s, j) PROVE i \in T \cup {1}
      <4>1. i \in 1 .. Len(s) /\ s[i] = j
        BY DEF In
      <4>2. CASE i # 1
        <5>1. i - 1 \in 1 .. Len(Tail(s)) /\ s[(i - 1) + 1] = j
          BY <4>1, <4>2, <1>1
        <5>2. i - 1 \in S
          BY <5>1, <1>1, <1>2 DEF In
        <5>3. QED BY <5>2, <4>1
      <4>3. QED BY <4>2
    <3>2. ASSUME NEW i \in T PROVE i \in In(s, j)
      <4>1. PICK h \in S : i = h + 1
        OBVIOUS
      <4>2. h \in 1 .. Len(Tail(s)) /\ Tail(s)[h] = j
        BY <1>3 DEF In
      <4>3. QED BY <4>1, <4>2, <1>1, <1>2 DEF In
    <3>3. 1 \in In(s, j)
      BY <1>5, <1>1 DEF In
    <3>4. QED BY <3>1, <3>2, <3>3
  <2>2. 1 \notin T
    BY <1>3
  <2>3. Occ(s, j) = Cardinality(T) + 1
    BY <2>1, <2>2, <1>4, FS_AddElement DEF Occ
  <2>4. QED BY <2>3, <1>3, <1>4, <1>5 DEF Occ, Lone
<1>6. CASE Head(s) # j
  <2>1. ASSUME NEW i \in In(s, j) PROVE i \in T
    <3>1. i \in 1 .. Len(s) /\ s[i] = j /\ i # 1
      BY <1>6, <1>1 DEF In
    <3>2. i - 1 \in 1 .. Len(Tail(s)) /\ s[(i - 1) + 1] = j
      BY <3>1, <1>1
    <3>3. i - 1 \in S
      BY <3>2, <1>1, <1>2 DEF In
    <3>4. QED BY <3>3, <3>1
  <2>2. ASSUME NEW i \in T PROVE i \in In(s, j)
    <3>1. PICK h \in S : i = h + 1
      OBVIOUS
    <3>2. h \in 1 .. Len(Tail(s)) /\ Tail(s)[h] = j
      BY <1>3 DEF In
    <3>3. QED BY <3>1, <3>2, <1>1, <1>2 DEF In
  <2>3. In(s, j) = T
    BY <2>1, <2>2
  <2>4. QED BY <2>3, <1>3, <1>4, <1>6 DEF Occ, Lone
<1>7. QED BY <1>5, <1>6

\* Jobs put back behind the others.
LEMMA OccConcat ==
    ASSUME NEW s \in Seq(Jobs), NEW t \in Seq(Jobs), NEW j
    PROVE  Occ(s \o t, j) = Occ(s, j) + Occ(t, j)
<1> DEFINE T == {i + Len(s) : i \in In(t, j)}
<1>1. /\ IsFiniteSet(In(s, j)) /\ In(s, j) \subseteq 1 .. Len(s) /\ Len(s) \in Nat
      /\ IsFiniteSet(In(t, j)) /\ In(t, j) \subseteq 1 .. Len(t) /\ Len(t) \in Nat
      /\ Occ(s, j) \in Nat /\ Occ(t, j) \in Nat
  BY OccType
<1>2. IsFiniteSet(T) /\ Cardinality(T) = Occ(t, j)
  BY <1>1, Shifted, SMTT(40) DEF Occ
<1>3. /\ Len(s \o t) = Len(s) + Len(t) /\ DOMAIN (s \o t) = 1 .. Len(s) + Len(t)
      /\ \A i \in 1 .. Len(s) + Len(t) :
            (s \o t)[i] = IF i <= Len(s) THEN s[i] ELSE t[i - Len(s)]
  OBVIOUS
<1>4. In(s \o t, j) = In(s, j) \cup T
  <2>1. ASSUME NEW i \in In(s \o t, j), i \notin In(s, j) PROVE i \in T
    <3>1. i \in 1 .. Len(s) + Len(t) /\ (s \o t)[i] = j
      BY <1>3 DEF In
    <3>2. ~(i <= Len(s))
      BY <3>1, <2>1, <1>1, <1>3 DEF In
    <3>3. i - Len(s) \in 1 .. Len(t) /\ t[i - Len(s)] = j
      BY <3>1, <3>2, <1>1, <1>3
    <3>4. i - Len(s) \in In(t, j)
      BY <3>3 DEF In
    <3>5. QED BY <3>4, <3>1, <1>1
  <2>2. ASSUME NEW i \in In(s, j) PROVE i \in In(s \o t, j)
    BY <1>1, <1>3 DEF In
  <2>3. ASSUME NEW i \in T PROVE i \in In(s \o t, j)
    <3>1. PICK h \in In(t, j) : i = h + Len(s)
      OBVIOUS
    <3>2. h \in 1 .. Len(t) /\ t[h] = j
      BY <1>1 DEF In
    <3>3. i \in 1 .. Len(s) + Len(t) /\ ~(i <= Len(s)) /\ i - Len(s) = h
      BY <3>1, <3>2, <1>1
    <3>4. QED BY <3>2, <3>3, <1>3 DEF In
  <2>4. QED BY <2>1, <2>2, <2>3
<1>5. In(s, j) \cap T = {}
  BY <1>1
<1>6. Cardinality(In(s, j) \cup T) = Cardinality(In(s, j)) + Cardinality(T) - Cardinality({})
  BY <1>1, <1>2, <1>5, FS_Union
<1>7. QED BY <1>1, <1>2, <1>4, <1>6, FS_EmptySet DEF Occ

\* A batch gets its monitor.
LEMMA WatchAdd ==
    ASSUME NEW M, NEW b, b \notin M, b.jobs \in Seq(Jobs), NEW j, IsFiniteSet(Watch(M, j))
    PROVE  /\ IsFiniteSet(Watch(M \cup {b}, j))
           /\ Cardinality(Watch(M \cup {b}, j)) = Cardinality(Watch(M, j)) + Occ(b.jobs, j)
<1> DEFINE S == {b} \X In(b.jobs, j)
<1>1. IsFiniteSet(In(b.jobs, j)) /\ Occ(b.jobs, j) \in Nat
  BY OccType
<1>2. IsFiniteSet({b}) /\ Cardinality({b}) = 1
  BY FS_Singleton
<1>3. IsFiniteSet(S) /\ Cardinality(S) = Cardinality({b}) * Occ(b.jobs, j)
  BY <1>1, <1>2, FS_Product DEF Occ
<1> HIDE DEF S
<1>4. PICK W : W = Watch(M, j) \cup S
  OBVIOUS
<1>5. Watch(M \cup {b}, j) = W /\ Watch(M, j) \cap S = {}
  BY <1>4 DEF Watch, S
<1>6. IsFiniteSet(W) /\ Cardinality(W) = Cardinality(Watch(M, j)) + Cardinality(S) - Cardinality({})
  BY <1>3, <1>4, <1>5, FS_Union
<1>7. Cardinality(Watch(M, j)) \in Nat
  BY FS_CardinalityType
<1>8. Cardinality({}) = 0
  BY FS_EmptySet
<1>9. Cardinality(S) = Occ(b.jobs, j)
  BY <1>1, <1>2, <1>3
<1>10. QED BY <1>1, <1>5, <1>6, <1>7, <1>8, <1>9

\* A monitor ends.
LEMMA WatchRemove ==
    ASSUME NEW M, NEW b \in M, b.jobs \in Seq(Jobs), NEW j, IsFiniteSet(Watch(M, j))
    PROVE  /\ IsFiniteSet(Watch(M \ {b}, j))
           /\ Cardinality(Watch(M \ {b}, j)) \in Nat
           /\ Cardinality(Watch(M, j)) = Cardinality(Watch(M \ {b}, j)) + Occ(b.jobs, j)
<1>1. Watch(M \ {b}, j) \subseteq Watch(M, j)
  BY DEF Watch
<1>2. IsFiniteSet(Watch(M \ {b}, j))
  BY <1>1, FS_Subset
<1>3. b \notin M \ {b} /\ (M \ {b}) \cup {b} = M
  OBVIOUS
<1>4. Cardinality(Watch((M \ {b}) \cup {b}, j)) = Cardinality(Watch(M \ {b}, j)) + Occ(b.jobs, j)
  BY <1>2, <1>3, WatchAdd
<1>5. QED BY <1>2, <1>3, <1>4, FS_CardinalityType

\* A monitor goes on, with a record that no other monitor has.
LEMMA WatchAdvance ==
    ASSUME NEW M, NEW b \in M, b.jobs \in Seq(Jobs), NEW c, c.jobs \in Seq(Jobs),
           c \notin M \ {b}, NEW j, IsFiniteSet(Watch(M, j))
    PROVE  /\ IsFiniteSet(Watch((M \ {b}) \cup {c}, j))
           /\ Cardinality(Watch((M \ {b}) \cup {c}, j))
                = Cardinality(Watch(M, j)) - Occ(b.jobs, j) + Occ(c.jobs, j)
<1>1. /\ IsFiniteSet(Watch(M \ {b}, j))
      /\ Cardinality(Watch(M \ {b}, j)) \in Nat
      /\ Cardinality(Watch(M, j)) = Cardinality(Watch(M \ {b}, j)) + Occ(b.jobs, j)
  BY WatchRemove
<1>2. /\ IsFiniteSet(Watch((M \ {b}) \cup {c}, j))
      /\ Cardinality(Watch((M \ {b}) \cup {c}, j))
           = Cardinality(Watch(M \ {b}, j)) + Occ(c.jobs, j)
  BY <1>1, WatchAdd
<1>3. Occ(b.jobs, j) \in Nat /\ Occ(c.jobs, j) \in Nat
  BY OccType
<1>4. QED BY <1>1, <1>2, <1>3

\* Two monitors that both wait for a job count it twice.
LEMMA WatchTwice ==
    ASSUME NEW M, NEW b \in M, NEW c \in M, b # c, b.jobs \in Seq(Jobs), c.jobs \in Seq(Jobs),
           NEW j, IsFiniteSet(Watch(M, j)), Occ(b.jobs, j) # 0, Occ(c.jobs, j) # 0
    PROVE  Cardinality(Watch(M, j)) >= 2
<1>1. /\ IsFiniteSet(Watch(M \ {b}, j))
      /\ Cardinality(Watch(M \ {b}, j)) \in Nat
      /\ Cardinality(Watch(M, j)) = Cardinality(Watch(M \ {b}, j)) + Occ(b.jobs, j)
  BY WatchRemove
<1>2. c \in M \ {b}
  OBVIOUS
<1>3. /\ Cardinality(Watch((M \ {b}) \ {c}, j)) \in Nat
      /\ Cardinality(Watch(M \ {b}, j)) = Cardinality(Watch((M \ {b}) \ {c}, j)) + Occ(c.jobs, j)
  BY <1>1, <1>2, WatchRemove
<1>4. Occ(b.jobs, j) \in Nat /\ Occ(c.jobs, j) \in Nat
  BY OccType
<1>5. QED BY <1>1, <1>3, <1>4

\* The jobs the workers hold.
LEMMA BusyType == \A j : IsFiniteSet(Busy(j)) /\ Cardinality(Busy(j)) \in Nat
<1> TAKE j
<1>1. Busy(j) \in SUBSET (1 .. Concurrency) /\ Concurrency \in Int
  BY OrchestratorAssumption DEF Busy, Workers
<1>2. IsFiniteSet(1 .. Concurrency)
  BY <1>1, FS_Interval
<1>3. IsFiniteSet(Busy(j))
  BY <1>1, <1>2, FS_Subset
<1>4. QED BY <1>3, FS_CardinalityType

\* An idle worker takes a job.
LEMMA BusyTake ==
    ASSUME NEW w \in Workers, NEW k \in Jobs, cur \in [Workers -> Jobs \cup {None}],
           cur[w] = None, cur' = [cur EXCEPT ![w] = k], NEW j \in Jobs
    PROVE  Cardinality(Busy(j)') = Cardinality(Busy(j)) + Lone({k}, j)
<1>1. None # j
  BY BatchAssumption
<1>2. CASE k = j
  <2>1. Busy(j)' = Busy(j) \cup {w} /\ w \notin Busy(j)
    BY <1>1, <1>2 DEF Busy
  <2>2. QED BY <1>2, <2>1, BusyType, FS_AddElement, SMTT(40) DEF Lone
<1>3. CASE k # j
  <2>1. Busy(j)' = Busy(j)
    BY <1>1, <1>3 DEF Busy
  <2>2. QED BY <1>3, <2>1, BusyType DEF Lone
<1>4. QED BY <1>2, <1>3

\* A worker is done with its job.
LEMMA BusyDone ==
    ASSUME NEW w \in Workers, cur \in [Workers -> Jobs \cup {None}],
           cur' = [cur EXCEPT ![w] = None], NEW j \in Jobs
    PROVE  Cardinality(Busy(j)') = Cardinality(Busy(j)) - Lone({cur[w]}, j)
<1>1. None # j
  BY BatchAssumption
<1>2. CASE cur[w] = j
  <2>1. Busy(j)' = Busy(j) \ {w} /\ w \in Busy(j)
    BY <1>1, <1>2 DEF Busy
  <2>2. QED BY <1>2, <2>1, BusyType, FS_RemoveElement, SMTT(40) DEF Lone
<1>3. CASE cur[w] # j
  <2>1. Busy(j)' = Busy(j)
    BY <1>1, <1>3 DEF Busy
  <2>2. QED BY <1>3, <2>1, BusyType DEF Lone
<1>4. QED BY <1>2, <1>3

\* Pairs with a new first component add their number.
LEMMA Tagged ==
    ASSUME NEW P, IsFiniteSet(P), NEW S, IsFiniteSet(S), NEW t, \A p \in P : p[1] # t
    PROVE  /\ IsFiniteSet(P \cup ({t} \X S))
           /\ Cardinality(P \cup ({t} \X S)) = Cardinality(P) + Cardinality(S)
<1>1. IsFiniteSet({t}) /\ Cardinality({t}) = 1
  BY FS_Singleton
<1>2. IsFiniteSet({t} \X S) /\ Cardinality({t} \X S) = 1 * Cardinality(S)
  BY <1>1, FS_Product
<1>3. P \cap ({t} \X S) = {}
  OBVIOUS
<1>4. /\ IsFiniteSet(P \cup ({t} \X S))
      /\ Cardinality(P \cup ({t} \X S))
           = Cardinality(P) + Cardinality({t} \X S) - Cardinality({})
  BY <1>2, <1>3, FS_Union
<1>5. Cardinality(P) \in Nat /\ Cardinality(S) \in Nat
  BY FS_CardinalityType
<1>6. QED BY <1>2, <1>4, <1>5, FS_EmptySet

\* A variable holds a job or does not.
LEMMA LoneCounted ==
    ASSUME NEW S, NEW j
    PROVE  /\ IsFiniteSet({x \in S : x = j}) /\ Cardinality({x \in S : x = j}) = Lone(S, j)
           /\ IsFiniteSet(S \cap {j}) /\ Cardinality(S \cap {j}) = Lone(S, j)
<1>1. CASE j \in S
  <2>1. {x \in S : x = j} = {j} /\ S \cap {j} = {j}
    BY <1>1
  <2>2. QED BY <1>1, <2>1, FS_Singleton DEF Lone
<1>2. CASE j \notin S
  <2>1. {x \in S : x = j} = {} /\ S \cap {j} = {}
    BY <1>2
  <2>2. QED BY <1>2, <2>1, FS_EmptySet DEF Lone
<1>3. QED BY <1>1, <1>2

\* The places of a job are as many as its occurrences.
LEMMA PlacesCounted ==
    ASSUME Typed, NEW j \in Jobs
    PROVE  Cardinality(Places(j)) = Queued(j) + Batched(j)
<1>1. /\ channel \in Seq(Jobs) /\ jobChan \in Seq(Jobs) /\ pendingJobs \in Seq(Jobs)
      /\ snap \in [Flushers -> Seq(Jobs)] /\ IsFiniteSet(Watch(monitors, j))
  BY DEF Typed, TypeOK, BatchTypeOK
<1>2. PICK a, r, q : a = "add" /\ r = "routine" /\ q = "stop"
  OBVIOUS
<1>3. Flushers = {a, r, q} /\ r # a /\ q # a /\ q # r
  BY <1>2 DEF Flushers
<1>4. /\ snap[a] \in Seq(Jobs) /\ snap[r] \in Seq(Jobs) /\ snap[q] \in Seq(Jobs)
      /\ snap["add"] = snap[a] /\ snap["routine"] = snap[r] /\ snap["stop"] = snap[q]
  BY <1>1, <1>2, <1>3
<1>5. /\ IsFiniteSet(In(snap[a], j)) /\ Occ(snap[a], j) \in Nat
      /\ IsFiniteSet(In(snap[r], j)) /\ Occ(snap[r], j) \in Nat
      /\ IsFiniteSet(In(snap[q], j)) /\ Occ(snap[q], j) \in Nat
  BY <1>4, OccType
<1>6. PICK G1, G2, G3 : G1 = In(snap[a], j) /\ G2 = In(snap[r], j) /\ G3 = In(snap[q], j)
  OBVIOUS
<1>7. PICK F0, F1, F2, S8 :
        /\ F0 = {} /\ F1 = F0 \cup ({a} \X G1) /\ F2 = F1 \cup ({r} \X G2)
        /\ S8 = F2 \cup ({q} \X G3)
  OBVIOUS
<1>8. UNION {{f} \X In(snap[f], j) : f \in Flushers} = S8
  BY <1>3, <1>6, <1>7
<1>9. /\ IsFiniteSet(G1) /\ IsFiniteSet(G2) /\ IsFiniteSet(G3)
      /\ Cardinality(G1) = Occ(snap[a], j) /\ Cardinality(G2) = Occ(snap[r], j)
      /\ Cardinality(G3) = Occ(snap[q], j)
  BY <1>5, <1>6 DEF Occ
<1>10. IsFiniteSet(S8) /\ Cardinality(S8) = Cardinality(G1) + Cardinality(G2) + Cardinality(G3)
  <2>1. IsFiniteSet(F0) /\ Cardinality(F0) = 0 /\ \A p \in F0 : p[1] # a
    BY <1>7, FS_EmptySet
  <2>2. IsFiniteSet(F1) /\ Cardinality(F1) = Cardinality(F0) + Cardinality(G1)
    BY <1>7, <1>9, <2>1, Tagged
  <2>3. \A p \in F1 : p[1] # r
    BY <1>3, <1>7
  <2>4. IsFiniteSet(F2) /\ Cardinality(F2) = Cardinality(F1) + Cardinality(G2)
    BY <1>7, <1>9, <2>2, <2>3, Tagged
  <2>5. \A p \in F2 : p[1] # q
    BY <1>3, <1>7
  <2>6. IsFiniteSet(S8) /\ Cardinality(S8) = Cardinality(F2) + Cardinality(G3)
    <3>1. S8 = F2 \cup ({q} \X G3)
      BY <1>7
    <3>2. QED BY <1>9, <2>4, <2>5, <3>1, Tagged
  <2>7. QED BY <1>5, <1>9, <2>1, <2>2, <2>4, <2>6
<1>11. Cardinality(S8) = Occ(snap[a], j) + Occ(snap[r], j) + Occ(snap[q], j)
  BY <1>9, <1>10
<1>13. /\ IsFiniteSet(In(channel, j)) /\ Occ(channel, j) \in Nat
       /\ IsFiniteSet(In(jobChan, j)) /\ Occ(jobChan, j) \in Nat
       /\ IsFiniteSet(In(pendingJobs, j)) /\ Occ(pendingJobs, j) \in Nat
  BY <1>1, OccType
<1>14. /\ IsFiniteSet({b \in {bridge} : b = j})
       /\ Cardinality({b \in {bridge} : b = j}) = Lone({bridge}, j)
       /\ IsFiniteSet({h \in {held} : h = j})
       /\ Cardinality({h \in {held} : h = j}) = Lone({held}, j)
       /\ IsFiniteSet(jobQueue \cap {j}) /\ Cardinality(jobQueue \cap {j}) = Lone(jobQueue, j)
  BY LoneCounted
<1>15. IsFiniteSet(Busy(j)) /\ Cardinality(Busy(j)) \in Nat /\ Cardinality(Watch(monitors, j)) \in Nat
  BY <1>1, BusyType, FS_CardinalityType
<1>16. PICK S1, S2, S3, S4, S5, S6, S7, S9 :
         /\ S1 = In(channel, j) /\ S2 = {b \in {bridge} : b = j} /\ S3 = jobQueue \cap {j}
         /\ S4 = {h \in {held} : h = j} /\ S5 = In(jobChan, j) /\ S6 = Busy(j)
         /\ S7 = In(pendingJobs, j) /\ S9 = Watch(monitors, j)
  OBVIOUS
<1>17. PICK t1, t2, t3, t4, t5, t6, t7, t8, t9 :
         /\ t1 = "channel" /\ t2 = "bridge" /\ t3 = "queue" /\ t4 = "manager" /\ t5 = "jobChan"
         /\ t6 = "worker" /\ t7 = "pending" /\ t8 = "flush" /\ t9 = "batch"
  OBVIOUS
<1>18. /\ IsFiniteSet(S1) /\ IsFiniteSet(S2) /\ IsFiniteSet(S3) /\ IsFiniteSet(S4)
       /\ IsFiniteSet(S5) /\ IsFiniteSet(S6) /\ IsFiniteSet(S7) /\ IsFiniteSet(S8)
       /\ IsFiniteSet(S9)
  BY <1>1, <1>10, <1>13, <1>14, <1>15, <1>16
<1>19. /\ t2 \notin {t1} /\ t3 \notin {t1, t2} /\ t4 \notin {t1, t2, t3}
       /\ t5 \notin {t1, t2, t3, t4} /\ t6 \notin {t1, t2, t3, t4, t5}
       /\ t7 \notin {t1, t2, t3, t4, t5, t6} /\ t8 \notin {t1, t2, t3, t4, t5, t6, t7}
       /\ t9 \notin {t1, t2, t3, t4, t5, t6, t7, t8}
  BY <1>17
<1>20. PICK A0, A1, A2, A3 :
          /\ A0 = {}
          /\ A1 = A0 \cup ({t1} \X S1)
          /\ A2 = A1 \cup ({t2} \X S2)
          /\ A3 = A2 \cup ({t3} \X S3)
  OBVIOUS
<1>21. PICK A4, A5, A6 :
          /\ A4 = A3 \cup ({t4} \X S4)
          /\ A5 = A4 \cup ({t5} \X S5)
          /\ A6 = A5 \cup ({t6} \X S6)
  OBVIOUS
<1>22. PICK A7, A8, A9 :
          /\ A7 = A6 \cup ({t7} \X S7)
          /\ A8 = A7 \cup ({t8} \X S8)
          /\ A9 = A8 \cup ({t9} \X S9)
  OBVIOUS
<1>23. /\ Cardinality(S1) \in Nat /\ Cardinality(S2) \in Nat /\ Cardinality(S3) \in Nat
       /\ Cardinality(S4) \in Nat /\ Cardinality(S5) \in Nat /\ Cardinality(S6) \in Nat
       /\ Cardinality(S7) \in Nat /\ Cardinality(S8) \in Nat /\ Cardinality(S9) \in Nat
  BY <1>18, FS_CardinalityType
<1>24. Cardinality(A9)
         = Cardinality(S1) + Cardinality(S2) + Cardinality(S3) + Cardinality(S4)
           + Cardinality(S5) + Cardinality(S6) + Cardinality(S7) + Cardinality(S8)
           + Cardinality(S9)
  <2>0. IsFiniteSet(A0) /\ Cardinality(A0) = 0 /\ \A p \in A0 : p[1] # t1
    BY <1>20, FS_EmptySet
  <2>1. /\ IsFiniteSet(A1) /\ Cardinality(A1) = Cardinality(A0) + Cardinality(S1)
       /\ \A p \in A1 : p[1] \in {t1}
    <3>1. \A p \in A0 : p[1] # t1
      BY <1>19, <2>0
    <3>2. A1 = A0 \cup ({t1} \X S1)
      BY <1>20
    <3>3. \A p \in A1 : p[1] \in {t1}
      BY <2>0, <3>2, <1>20
    <3>4. QED BY <1>18, <2>0, <3>1, <3>2, <3>3, Tagged
  <2>2. /\ IsFiniteSet(A2) /\ Cardinality(A2) = Cardinality(A1) + Cardinality(S2)
       /\ \A p \in A2 : p[1] \in {t1, t2}
    <3>1. \A p \in A1 : p[1] # t2
      BY <1>19, <2>1
    <3>2. A2 = A1 \cup ({t2} \X S2)
      BY <1>20
    <3>3. \A p \in A2 : p[1] \in {t1, t2}
      BY <2>1, <3>2
    <3>4. QED BY <1>18, <2>1, <3>1, <3>2, <3>3, Tagged
  <2>3. /\ IsFiniteSet(A3) /\ Cardinality(A3) = Cardinality(A2) + Cardinality(S3)
       /\ \A p \in A3 : p[1] \in {t1, t2, t3}
    <3>1. \A p \in A2 : p[1] # t3
      BY <1>19, <2>2
    <3>2. A3 = A2 \cup ({t3} \X S3)
      BY <1>20
    <3>3. \A p \in A3 : p[1] \in {t1, t2, t3}
      BY <2>2, <3>2
    <3>4. QED BY <1>18, <2>2, <3>1, <3>2, <3>3, Tagged
  <2>4. /\ IsFiniteSet(A4) /\ Cardinality(A4) = Cardinality(A3) + Cardinality(S4)
       /\ \A p \in A4 : p[1] \in {t1, t2, t3, t4}
    <3>1. \A p \in A3 : p[1] # t4
      BY <1>19, <2>3
    <3>2. A4 = A3 \cup ({t4} \X S4)
      BY <1>21
    <3>3. \A p \in A4 : p[1] \in {t1, t2, t3, t4}
      BY <2>3, <3>2
    <3>4. QED BY <1>18, <2>3, <3>1, <3>2, <3>3, Tagged
  <2>5. /\ IsFiniteSet(A5) /\ Cardinality(A5) = Cardinality(A4) + Cardinality(S5)
       /\ \A p \in A5 : p[1] \in {t1, t2, t3, t4, t5}
    <3>1. \A p \in A4 : p[1] # t5
      BY <1>19, <2>4
    <3>2. A5 = A4 \cup ({t5} \X S5)
      BY <1>21
    <3>3. \A p \in A5 : p[1] \in {t1, t2, t3, t4, t5}
      BY <2>4, <3>2
    <3>4. QED BY <1>18, <2>4, <3>1, <3>2, <3>3, Tagged
  <2>6. /\ IsFiniteSet(A6) /\ Cardinality(A6) = Cardinality(A5) + Cardinality(S6)
       /\ \A p \in A6 : p[1] \in {t1, t2, t3, t4, t5, t6}
    <3>1. \A p \in A5 : p[1] # t6
      BY <1>19, <2>5
    <3>2. A6 = A5 \cup ({t6} \X S6)
      BY <1>21
    <3>3. \A p \in A6 : p[1] \in {t1, t2, t3, t4, t5, t6}
      BY <2>5, <3>2
    <3>4. QED BY <1>18, <2>5, <3>1, <3>2, <3>3, Tagged
  <2>7. /\ IsFiniteSet(A7) /\ Cardinality(A7) = Cardinality(A6) + Cardinality(S7)
       /\ \A p \in A7 : p[1] \in {t1, t2, t3, t4, t5, t6, t7}
    <3>1. \A p \in A6 : p[1] # t7
      BY <1>19, <2>6
    <3>2. A7 = A6 \cup ({t7} \X S7)
      BY <1>22
    <3>3. \A p \in A7 : p[1] \in {t1, t2, t3, t4, t5, t6, t7}
      BY <2>6, <3>2
    <3>4. QED BY <1>18, <2>6, <3>1, <3>2, <3>3, Tagged
  <2>8. /\ IsFiniteSet(A8) /\ Cardinality(A8) = Cardinality(A7) + Cardinality(S8)
       /\ \A p \in A8 : p[1] \in {t1, t2, t3, t4, t5, t6, t7, t8}
    <3>1. \A p \in A7 : p[1] # t8
      BY <1>19, <2>7
    <3>2. A8 = A7 \cup ({t8} \X S8)
      BY <1>22
    <3>3. \A p \in A8 : p[1] \in {t1, t2, t3, t4, t5, t6, t7, t8}
      BY <2>7, <3>2
    <3>4. QED BY <1>18, <2>7, <3>1, <3>2, <3>3, Tagged
  <2>9. /\ IsFiniteSet(A9) /\ Cardinality(A9) = Cardinality(A8) + Cardinality(S9)
       /\ \A p \in A9 : p[1] \in {t1, t2, t3, t4, t5, t6, t7, t8, t9}
    <3>1. \A p \in A8 : p[1] # t9
      BY <1>19, <2>8
    <3>2. A9 = A8 \cup ({t9} \X S9)
      BY <1>22
    <3>3. \A p \in A9 : p[1] \in {t1, t2, t3, t4, t5, t6, t7, t8, t9}
      BY <2>8, <3>2
    <3>4. QED BY <1>18, <2>8, <3>1, <3>2, <3>3, Tagged
  <2>10. QED
    BY <1>23, <2>0, <2>1, <2>2, <2>3, <2>4, <2>5, <2>6, <2>7, <2>8, <2>9
<1>25. Places(j) = A9
  BY <1>8, <1>16, <1>17, <1>20, <1>21, <1>22 DEF Places, Busy, Watch
<1>26. Cardinality(S1) + Cardinality(S2) + Cardinality(S3) + Cardinality(S4) + Cardinality(S5)
         + Cardinality(S6) + Cardinality(S7) + Cardinality(S8) + Cardinality(S9)
       = Queued(j) + Batched(j)
  <2>1. /\ Cardinality(S1) = Occ(channel, j) /\ Cardinality(S2) = Lone({bridge}, j)
        /\ Cardinality(S3) = Lone(jobQueue, j) /\ Cardinality(S4) = Lone({held}, j)
        /\ Cardinality(S5) = Occ(jobChan, j) /\ Cardinality(S6) = Cardinality(Busy(j))
        /\ Cardinality(S7) = Occ(pendingJobs, j)
        /\ Cardinality(S9) = Cardinality(Watch(monitors, j))
    BY <1>14, <1>16 DEF Occ
  <2>2. Cardinality(S8) = Occ(snap["add"], j) + Occ(snap["routine"], j) + Occ(snap["stop"], j)
    BY <1>2, <1>11
  <2>3. /\ Occ(snap["add"], j) \in Nat /\ Occ(snap["routine"], j) \in Nat
        /\ Occ(snap["stop"], j) \in Nat
    BY <1>2, <1>5
  <2>4. QED BY <1>13, <1>15, <1>23, <2>1, <2>2, <2>3 DEF Queued, Batched
<1>27. QED BY <1>24, <1>25, <1>26

-----------------------------------------------------------------------------
(* What a place says of the job in it *)

\* Every count is a number.
LEMMA Counts ==
    ASSUME Typed, NEW j \in Jobs
    PROVE  /\ Occ(channel, j) \in Nat /\ Occ(jobChan, j) \in Nat /\ Occ(pendingJobs, j) \in Nat
           /\ \A f \in Flushers : Occ(snap[f], j) \in Nat
           /\ \A S : Lone(S, j) \in {0, 1}
           /\ Cardinality(Busy(j)) \in Nat /\ Cardinality(Watch(monitors, j)) \in Nat
           /\ IsFiniteSet(Watch(monitors, j))
           /\ Queued(j) \in Nat /\ Batched(j) \in Nat
<1>1. /\ channel \in Seq(Jobs) /\ jobChan \in Seq(Jobs) /\ pendingJobs \in Seq(Jobs)
      /\ snap \in [Flushers -> Seq(Jobs)] /\ IsFiniteSet(Watch(monitors, j))
  BY DEF Typed, TypeOK, BatchTypeOK
<1>2. Occ(channel, j) \in Nat /\ Occ(jobChan, j) \in Nat /\ Occ(pendingJobs, j) \in Nat
  BY <1>1, OccType
<1>3. \A f \in Flushers : Occ(snap[f], j) \in Nat
  BY <1>1, OccType
<1>4. \A S : Lone(S, j) \in {0, 1}
  BY DEF Lone
<1>5. Cardinality(Busy(j)) \in Nat /\ Cardinality(Watch(monitors, j)) \in Nat
  BY <1>1, BusyType, FS_CardinalityType
<1>6. Occ(snap["add"], j) \in Nat /\ Occ(snap["routine"], j) \in Nat /\ Occ(snap["stop"], j) \in Nat
  BY <1>3 DEF Flushers
<1>7. Lone({bridge}, j) \in Nat /\ Lone(jobQueue, j) \in Nat /\ Lone({held}, j) \in Nat
  BY <1>4
<1>8. Queued(j) \in Nat /\ Batched(j) \in Nat
  BY <1>2, <1>5, <1>6, <1>7 DEF Queued, Batched
<1>9. QED BY <1>1, <1>2, <1>3, <1>4, <1>5, <1>8

\* Whoever holds a job holds one that is waiting for its answer.
LEMMA HeldIsLive ==
    ASSUME PipelineIInv, NEW j \in Jobs,
           \/ bridge = j \/ held = j \/ j \in jobQueue \/ \E w \in Workers : cur[w] = j
           \/ \E f \in Flushers : j \in ToSet(snap[f])
           \/ \E b \in monitors : j \in ToSet(b.jobs)
    PROVE  Live(j)
<1>1. Typed /\ Queued(j) + Batched(j) = IF Live(j) THEN 1 ELSE 0
  BY DEF PipelineIInv, Counted
<1>2. /\ Occ(channel, j) \in Nat /\ Occ(jobChan, j) \in Nat /\ Occ(pendingJobs, j) \in Nat
      /\ \A f \in Flushers : Occ(snap[f], j) \in Nat
      /\ \A S : Lone(S, j) \in {0, 1}
      /\ Cardinality(Busy(j)) \in Nat /\ Cardinality(Watch(monitors, j)) \in Nat
      /\ IsFiniteSet(Watch(monitors, j))
      /\ Queued(j) \in Nat /\ Batched(j) \in Nat
  BY <1>1, Counts
<1>3. Lone({bridge}, j) \in Nat /\ Lone(jobQueue, j) \in Nat /\ Lone({held}, j) \in Nat
  BY <1>2
<1>4. Occ(snap["add"], j) \in Nat /\ Occ(snap["routine"], j) \in Nat /\ Occ(snap["stop"], j) \in Nat
  BY <1>2 DEF Flushers
<1>5. CASE bridge = j \/ held = j \/ j \in jobQueue
  <2>1. Lone({bridge}, j) + Lone(jobQueue, j) + Lone({held}, j) > 0
    BY <1>5, <1>3 DEF Lone
  <2>2. Queued(j) > 0
    BY <2>1, <1>2, <1>3 DEF Queued
  <2>3. QED BY <1>1, <1>2, <2>2
<1>6. ASSUME NEW w \in Workers, cur[w] = j PROVE Live(j)
  <2>1. Busy(j) # {}
    BY <1>6 DEF Busy
  <2>2. Cardinality(Busy(j)) # 0
    BY <2>1, BusyType, FS_EmptySet
  <2>3. Queued(j) > 0
    BY <2>2, <1>2, <1>3 DEF Queued
  <2>4. QED BY <1>1, <1>2, <2>3
<1>7. ASSUME NEW f \in Flushers, j \in ToSet(snap[f]) PROVE Live(j)
  <2>1. snap[f] \in Seq(Jobs)
    BY <1>1 DEF Typed, TypeOK, BatchTypeOK
  <2>2. Occ(snap[f], j) # 0
    BY <1>7, <2>1, OccType DEF ToSet
  <2>3. \/ Occ(snap["add"], j) # 0 \/ Occ(snap["routine"], j) # 0 \/ Occ(snap["stop"], j) # 0
    BY <2>2 DEF Flushers
  <2>4. Occ(pendingJobs, j) \in Nat /\ Cardinality(Watch(monitors, j)) \in Nat
    BY <1>2
  <2>5. Batched(j) > 0
    BY <2>3, <2>4, <1>4 DEF Batched
  <2>6. QED BY <1>1, <1>2, <2>5
<1>8. ASSUME NEW b \in monitors, j \in ToSet(b.jobs) PROVE Live(j)
  <2>1. PICK i \in DOMAIN b.jobs : b.jobs[i] = j
    BY <1>8 DEF ToSet
  <2>2. <<b, i>> \in Watch(monitors, j)
    BY <2>1 DEF Watch, In
  <2>3. Cardinality(Watch(monitors, j)) # 0
    BY <2>2, <1>2, FS_EmptySet
  <2>4. Batched(j) > 0
    BY <2>3, <1>2, <1>4 DEF Batched
  <2>5. QED BY <1>1, <1>2, <2>4
<1>9. QED BY <1>5, <1>6, <1>7, <1>8

-----------------------------------------------------------------------------
(* The steps, once: every case analysis below follows this list. *)

\* The steps of Next.
LEMMA Steps ==
    ASSUME Next
    PROVE  \/ \E j \in Jobs : Submit(j) \/ Receive(j)
           \/ BridgeReceive \/ RouteToQueue \/ RouteToBatch \/ BatchTook \/ BatchRefused
           \/ Dequeue \/ Feed \/ CloseJobChan
           \/ \E w \in Workers :
                \/ Take(w) \/ WorkerExit(w) \/ OverLimit(w) \/ Limited(w)
                \/ Success(w) \/ (wpc[w] = "call" /\ Fail(w))
                \/ RateLimited(w) \/ Transient(w) \/ Requeue(w)
           \/ /\ Batching /\ UNCHANGED orchVars
              /\ \/ \E f \in Flushers : Snapshot(f) \/ Convert(f) \/ UploadFile(f) \/ CreateBatch(f)
                 \/ \E b \in monitors :
                      \/ \E status \in BatchStatus : WaitForBatch(b, status)
                      \/ ReadBatchResponses(b) \/ BatchFails(b)
                      \/ \E status \in WebhookStatuses : NotifyBatchComplete(b, status)
                      \/ BatchAnswers(b)
                 \/ Tick \/ TickDone \/ RoutineExit \/ FinalFlush \/ BatchStopped
           \/ StopBatchFirst \/ StopManager \/ Stopped
BY DEF Next, Bridge, Manager, Worker, Settle, Permanent, Exhausted, BatchStep, Background,
       FlushBatch, Monitor, FlushRoutine

\* The values of the variables after a step of a submitter, the bridge, the manager or Stop.
LEMMA TypeStepFront ==
    ASSUME PipelineIInv,
           \/ \E j \in Jobs : Submit(j) \/ Receive(j)
           \/ BridgeReceive \/ RouteToQueue \/ RouteToBatch \/ BatchTook \/ BatchRefused
           \/ Dequeue \/ Feed \/ CloseJobChan \/ StopBatchFirst \/ StopManager \/ Stopped
    PROVE  TypeOK' /\ UNCHANGED monitors
<1> USE BatchAssumption, OrchestratorAssumption
<1>0. TypeOK /\ (adding # None => bridge = adding) /\ (adding = None <=> fpc["add"] = "idle")
  BY DEF PipelineIInv, Typed, Holding
<1> USE DEF TypeOK, BatchTypeOK, batchVars, orchVars
<1>1. CASE \E j \in Jobs : Submit(j)
  BY <1>0, <1>1, SMTT(40) DEF Submit
<1>2. CASE \E j \in Jobs : Receive(j)
  <2>1. PICK j \in Jobs : Receive(j)
    BY <1>2
  <2>2. /\ outcome' \in [Jobs -> {"none", "nil", "reply", "chat"}]
        /\ result' \in [Jobs -> {"empty", "nil", "reply", "chat", "closed", "panic"}]
    BY <1>0, <2>1 DEF Receive
  <2>3. submit' \in [Jobs -> {"idle", "waiting", "returned", "failed", "panic"}]
    BY <1>0, <2>1 DEF Receive, Verdict
  <2>4. QED BY <1>0, <2>1, <2>2, <2>3 DEF Receive
<1>3. CASE BridgeReceive
  <2>1. Head(channel) \in Jobs /\ Tail(channel) \in Seq(Jobs) /\ Len(Tail(channel)) <= ChannelSize
    BY <1>0, <1>3, EmptySeq DEF BridgeReceive
  <2>2. QED BY <1>0, <1>3, <2>1 DEF BridgeReceive
<1>4. CASE RouteToQueue
  BY <1>0, <1>4 DEF RouteToQueue, Enqueue
<1>5. CASE RouteToBatch
  <2>1. bridge \in Jobs /\ AddJob(bridge) /\ bridge' \in Jobs \cup {None}
        /\ Memory[bridge] \in Nat
    BY <1>0, <1>5 DEF RouteToBatch
  <2>2. CASE Exceeds(bridge)
    <3>1. fpc' \in [Flushers -> {"idle", "snapshot", "convert", "send", "create", "ok", "failed"}]
      <4>1. fpc' = [fpc EXCEPT !["add"] = "snapshot"]
        BY <2>1, <2>2 DEF AddJob
      <4>2. QED BY <1>0, <4>1 DEF Flushers
    <3>2. UNCHANGED <<pendingJobs, currentMemoryUsed, snap, monitors, batchStop, routine, result,
                      dropped>> /\ adding' = bridge
      BY <2>1, <2>2 DEF AddJob
    <3>3. QED BY <1>0, <1>5, <2>1, <3>1, <3>2 DEF RouteToBatch
  <2>3. CASE ~Exceeds(bridge)
    <3>1. pendingJobs' \in Seq(Jobs) /\ currentMemoryUsed' \in Nat
      <4>1. /\ pendingJobs' = Append(pendingJobs, bridge)
            /\ currentMemoryUsed' = currentMemoryUsed + Memory[bridge]
        BY <2>1, <2>3 DEF AddJob, AppendJob
      <4>2. Append(pendingJobs, bridge) \in Seq(Jobs)
        BY <1>0, <2>1
      <4>3. currentMemoryUsed + Memory[bridge] \in Nat
        <5>1. currentMemoryUsed \in Nat
          BY <1>0
        <5>2. Memory[bridge] \in Nat
          BY <2>1
        <5>3. QED BY <5>1, <5>2
      <4>4. QED BY <4>1, <4>2, <4>3
    <3>2. UNCHANGED <<adding, fpc, snap, monitors, batchStop, routine, result, dropped>>
      BY <2>1, <2>3 DEF AddJob
    <3>3. QED BY <1>0, <1>5, <2>1, <3>1, <3>2 DEF RouteToBatch
  <2>4. QED BY <2>2, <2>3
<1>6. CASE BatchTook
  <2>1. adding \in Jobs
    BY <1>0, <1>6 DEF BatchTook, AddAfterFlush
  <2>2. pendingJobs' \in Seq(Jobs) /\ currentMemoryUsed' \in Nat
    BY <1>0, <2>1, <1>6 DEF BatchTook, AddAfterFlush, AppendJob
  <2>3. fpc' \in [Flushers -> {"idle", "snapshot", "convert", "send", "create", "ok", "failed"}]
    BY <1>0, <1>6 DEF BatchTook, AddAfterFlush, Flushers
  <2>4. QED BY <1>0, <1>6, <2>2, <2>3 DEF BatchTook, AddAfterFlush
<1>7. CASE BatchRefused
  BY <1>0, <1>7 DEF BatchRefused, AddFails, Enqueue, Flushers
<1>8. CASE Dequeue
  BY <1>0, <1>8 DEF Dequeue
<1>9. CASE Feed
  <2>1. jobChan' \in Seq(Jobs) /\ Len(jobChan') <= Concurrency
    BY <1>0, <1>9 DEF Feed
  <2>2. QED BY <1>0, <1>9, <2>1 DEF Feed
<1>10. CASE CloseJobChan
  BY <1>0, <1>10 DEF CloseJobChan
<1>11. CASE StopBatchFirst
  BY <1>0, <1>11 DEF StopBatchFirst, StopBatch
<1>12. CASE StopManager
  BY <1>0, <1>12 DEF StopManager
<1>13. CASE Stopped
  BY <1>0, <1>13 DEF Stopped
<1>14. QED BY <1>1, <1>2, <1>3, <1>4, <1>5, <1>6, <1>7, <1>8, <1>9, <1>10, <1>11, <1>12, <1>13

\* The values of the variables after a step of a worker.
LEMMA TypeStepWorker ==
    ASSUME PipelineIInv, NEW w \in Workers,
           \/ Take(w) \/ WorkerExit(w) \/ OverLimit(w) \/ Limited(w)
           \/ Success(w) \/ (wpc[w] = "call" /\ Fail(w))
           \/ RateLimited(w) \/ Transient(w) \/ Requeue(w)
    PROVE  TypeOK' /\ UNCHANGED monitors
<1> USE BatchAssumption, OrchestratorAssumption
<1>0. TypeOK /\ (wpc[w] \in {"limit", "call", "backoff"} => cur[w] # None)
  BY DEF PipelineIInv, Typed, Holding
<1> USE DEF TypeOK, BatchTypeOK, batchVars, RestOfBatch, WorkerDone
<1>1. CASE Take(w)
  <2>1. Head(jobChan) \in Jobs /\ Tail(jobChan) \in Seq(Jobs) /\ Len(Tail(jobChan)) <= Concurrency
    BY <1>0, <1>1, EmptySeq DEF Take
  <2>2. QED BY <1>0, <1>1, <2>1 DEF Take
<1>2. CASE WorkerExit(w)
  BY <1>0, <1>2 DEF WorkerExit
<1>3. CASE OverLimit(w)
  <2>1. result' \in [Jobs -> {"empty", "nil", "reply", "chat", "closed", "panic"}]
    <3>1. PICK v \in {"empty", "nil", "reply", "chat", "closed", "panic"} :
            result' = [result EXCEPT ![cur[w]] = v]
      BY <1>0, <1>3 DEF OverLimit, Send
    <3>2. QED BY <1>0, <3>1
  <2>2. QED BY <1>0, <1>3, <2>1 DEF OverLimit
<1>4. CASE Limited(w)
  BY <1>0, <1>4 DEF Limited
<1>5. CASE Success(w)
  <2>1. result' \in [Jobs -> {"empty", "nil", "reply", "chat", "closed", "panic"}]
    <3>1. PICK v \in {"empty", "nil", "reply", "chat", "closed", "panic"} :
            result' = [result EXCEPT ![cur[w]] = v]
      BY <1>0, <1>5 DEF Success, Send
    <3>2. QED BY <1>0, <3>1
  <2>2. QED BY <1>0, <1>5, <2>1 DEF Success
<1>6. CASE wpc[w] = "call" /\ Fail(w)
  BY <1>0, <1>6, ZenonT(40) DEF Fail, Send, HasRoom
<1>7. CASE RateLimited(w)
  BY <1>0, <1>7 DEF RateLimited, Enqueue
<1>8. CASE Transient(w)
  <2>1. cur[w] \in Jobs /\ retries[cur[w]] + 1 \in 0 .. MaxTransientRetries
    BY <1>0, <1>8 DEF Transient
  <2>2. retries' \in [Jobs -> 0 .. MaxTransientRetries]
    BY <1>0, <1>8, <2>1 DEF Transient
  <2>3. QED BY <1>0, <1>8, <2>2 DEF Transient
<1>9. CASE Requeue(w)
  BY <1>0, <1>9, ZenonT(40) DEF Requeue, Enqueue
<1>10. QED BY <1>1, <1>2, <1>3, <1>4, <1>5, <1>6, <1>7, <1>8, <1>9

\* The values of the variables of the batch manager after one of its steps.
LEMMA TypeStepBatch ==
    ASSUME PipelineIInv,
           \/ \E f \in Flushers : Snapshot(f) \/ Convert(f) \/ UploadFile(f) \/ CreateBatch(f)
           \/ \E b \in monitors :
                \/ \E status \in BatchStatus : WaitForBatch(b, status)
                \/ ReadBatchResponses(b) \/ BatchFails(b)
                \/ \E status \in WebhookStatuses : NotifyBatchComplete(b, status)
                \/ BatchAnswers(b)
           \/ Tick \/ TickDone \/ RoutineExit \/ FinalFlush \/ BatchStopped
    PROVE  BatchTypeOK' /\ \A b \in monitors' : MonitorOK(b)
<1> USE BatchAssumption DEF BatchTypeOK
<1>0. BatchTypeOK /\ \A b \in monitors : MonitorOK(b)
  BY DEF PipelineIInv, Typed, TypeOK
<1> DEFINE Stages == {"idle", "snapshot", "convert", "send", "create", "ok", "failed"}
           Batches == [at : {"wait", "read", "notify", "answer"}, jobs : Seq(Jobs) \ {<<>>},
                       calls : 0 .. RetryAttempts + 1]
<1>1. ASSUME NEW f \in Flushers, Snapshot(f) PROVE BatchTypeOK' /\ UNCHANGED monitors
  <2>1. CASE pendingJobs = <<>>
    BY <1>0, <1>1, <2>1 DEF Snapshot
  <2>2. CASE pendingJobs # <<>>
    <3>1. /\ snap' = [snap EXCEPT ![f] = pendingJobs] /\ pendingJobs' = <<>>
          /\ currentMemoryUsed' = 0 /\ fpc' = [fpc EXCEPT ![f] = "convert"]
      BY <1>1, <2>2 DEF Snapshot
    <3>2. snap' \in [Flushers -> Seq(Jobs)] /\ pendingJobs' \in Seq(Jobs)
      BY <1>0, <3>1
    <3>3. QED BY <1>0, <1>1, <3>1, <3>2 DEF Snapshot
  <2>3. QED BY <2>1, <2>2
<1>2. ASSUME NEW f \in Flushers, Convert(f) PROVE BatchTypeOK' /\ UNCHANGED monitors
  <2>1. snap[f] \in Seq(Jobs) /\ <<>> \in Seq(Jobs) /\ pendingJobs \o snap[f] \in Seq(Jobs)
    BY <1>0
  <2>2. pendingJobs' \in Seq(Jobs) /\ snap' \in [Flushers -> Seq(Jobs)] /\ fpc' \in [Flushers -> Stages]
    BY <1>0, <1>2, <2>1 DEF Convert
  <2>3. QED BY <1>0, <1>2, <2>2 DEF Convert
<1>3. ASSUME NEW f \in Flushers, UploadFile(f) PROVE BatchTypeOK' /\ UNCHANGED monitors
  <2>1. snap[f] \in Seq(Jobs) /\ ToSet(snap[f]) \subseteq Jobs /\ <<>> \in Seq(Jobs)
    BY <1>0 DEF ToSet
  <2>2. /\ dropped' \subseteq Jobs /\ snap' \in [Flushers -> Seq(Jobs)]
        /\ fpc' \in [Flushers -> Stages]
    BY <1>0, <1>3, <2>1 DEF UploadFile, Forget
  <2>3. QED BY <1>0, <1>3, <2>2 DEF UploadFile
<1>4. ASSUME NEW f \in Flushers, CreateBatch(f) PROVE BatchTypeOK' /\ \A b \in monitors' : MonitorOK(b)
  <2>1. snap[f] \in Seq(Jobs) /\ ToSet(snap[f]) \subseteq Jobs /\ <<>> \in Seq(Jobs)
    BY <1>0 DEF ToSet
  <2>2. /\ dropped' \subseteq Jobs /\ snap' \in [Flushers -> Seq(Jobs)]
        /\ fpc' \in [Flushers -> Stages]
    BY <1>0, <1>4, <2>1 DEF CreateBatch, Forget
  <2>3. snap[f] # <<>>
    BY <1>4 DEF CreateBatch, PipelineIInv, Holding
  <2>4. PICK c : c = [at |-> "wait", jobs |-> snap[f], calls |-> 0]
    OBVIOUS
  <2>5. c \in Batches /\ MonitorOK(c)
    BY <2>1, <2>3, <2>4 DEF MonitorOK
  <2>6. monitors' \subseteq monitors \cup {c}
    BY <1>4, <2>4 DEF CreateBatch
  <2>7. monitors' \subseteq Batches /\ \A b \in monitors' : MonitorOK(b)
    BY <1>0, <2>5, <2>6
  <2>8. QED BY <1>0, <1>4, <2>2, <2>7 DEF CreateBatch
<1>5. ASSUME NEW b \in monitors,
             \/ \E status \in BatchStatus : WaitForBatch(b, status)
             \/ ReadBatchResponses(b) \/ BatchFails(b)
             \/ \E status \in WebhookStatuses : NotifyBatchComplete(b, status)
             \/ BatchAnswers(b)
      PROVE  BatchTypeOK' /\ \A c \in monitors' : MonitorOK(c)
  <2>1. b \in Batches /\ MonitorOK(b) /\ ToSet(b.jobs) \subseteq Jobs /\ Head(b.jobs) \in Jobs
    BY <1>0, EmptySeq DEF ToSet
  <2>2. monitors' \subseteq monitors \/ \E c \in Batches : MonitorOK(c) /\ Advance(b, c)
    <3>1. CASE \E status \in BatchStatus : WaitForBatch(b, status)
      <4>1. [b EXCEPT !.at = "read"] \in Batches
        BY <2>1
      <4>2. CASE b.at = "wait" /\ Advance(b, [b EXCEPT !.at = "read"])
        BY <2>1, <4>1, <4>2 DEF MonitorOK
      <4>3. QED BY <3>1, <4>2 DEF WaitForBatch, GiveUp
    <3>2. CASE ReadBatchResponses(b)
      <4>1. PICK a \in {"notify", "answer"} : Advance(b, [b EXCEPT !.at = a])
        BY <3>2 DEF ReadBatchResponses
      <4>2. b.at = "read"
        BY <3>2 DEF ReadBatchResponses
      <4>3. b.calls = 0 /\ RetryAttempts \in Nat
        BY <2>1, <4>2, BatchAssumption DEF MonitorOK
      <4>4. PICK c : c = [b EXCEPT !.at = a]
        OBVIOUS
      <4>5. c \in Batches /\ c.at = a /\ c.calls = 0
        BY <2>1, <4>1, <4>3, <4>4
      <4>6. MonitorOK(c)
        BY <4>1, <4>3, <4>5 DEF MonitorOK
      <4>7. QED BY <4>1, <4>4, <4>5, <4>6
    <3>3. CASE BatchFails(b)
      BY <3>3 DEF BatchFails, GiveUp
    <3>4. CASE \E status \in WebhookStatuses : NotifyBatchComplete(b, status)
      <4>1. PICK c : c = [b EXCEPT !.calls = @ + 1]
        OBVIOUS
      <4>2. PICK d : d = [c EXCEPT !.at = "answer"]
        OBVIOUS
      <4>3. b.at = "notify" /\ (Advance(b, d) \/ (b.calls # RetryAttempts /\ Advance(b, c)))
        BY <3>4, <4>1, <4>2 DEF NotifyBatchComplete
      <4>4. b.calls \in 0 .. RetryAttempts
        BY <2>1, <4>3 DEF MonitorOK
      <4>5. c \in Batches /\ c.at = "notify" /\ c.calls = b.calls + 1 /\ c.jobs = b.jobs
        <5>1. /\ c = [at |-> b.at, jobs |-> b.jobs, calls |-> b.calls + 1]
              /\ b.calls + 1 \in 0 .. RetryAttempts + 1
          BY <2>1, <4>1, <4>4, SMTT(40)
        <5>2. QED BY <2>1, <4>3, <5>1
      <4>6. d \in Batches /\ MonitorOK(d)
        BY <4>5, <4>2 DEF MonitorOK
      <4>7. b.calls # RetryAttempts => MonitorOK(c)
        BY <4>4, <4>5 DEF MonitorOK
      <4>8. QED BY <4>3, <4>5, <4>6, <4>7
    <3>5. CASE BatchAnswers(b)
      <4>1. CASE Tail(b.jobs) = <<>>
        BY <3>5, <4>1 DEF BatchAnswers
      <4>2. CASE Tail(b.jobs) # <<>>
        <5>1. PICK c : c = [b EXCEPT !.jobs = Tail(@)]
          OBVIOUS
        <5>2. Tail(b.jobs) \in Seq(Jobs) \ {<<>>}
          BY <2>1, <4>2, EmptySeq
        <5>3. c \in Batches /\ MonitorOK(c)
          BY <2>1, <5>1, <5>2 DEF MonitorOK
        <5>4. Advance(b, c)
          BY <3>5, <4>2, <5>1 DEF BatchAnswers
        <5>5. QED BY <5>3, <5>4
      <4>3. QED BY <4>1, <4>2
    <3>6. QED BY <1>5, <3>1, <3>2, <3>3, <3>4, <3>5
  <2>3. monitors' \subseteq Batches /\ \A c \in monitors' : MonitorOK(c)
    BY <1>0, <2>2 DEF Advance
  <2>4. dropped' \subseteq Jobs
    BY <1>0, <1>5, <2>1 DEF WaitForBatch, ReadBatchResponses, BatchFails, NotifyBatchComplete,
                            BatchAnswers, GiveUp
  <2>5. result' \in [Jobs -> {"empty", "nil", "reply", "chat", "closed", "panic"}]
    BY <1>0, <1>5, <2>1 DEF WaitForBatch, ReadBatchResponses, BatchFails, NotifyBatchComplete,
                            BatchAnswers, Send
  <2>6. UNCHANGED RestOfMonitor
    BY <1>5 DEF WaitForBatch, ReadBatchResponses, BatchFails, NotifyBatchComplete, BatchAnswers
  <2>7. QED BY <1>0, <2>3, <2>4, <2>5, <2>6 DEF RestOfMonitor
<1>6. CASE Tick \/ TickDone \/ RoutineExit \/ FinalFlush \/ BatchStopped
  <2>1. fpc' \in [Flushers -> Stages]
    BY <1>0, <1>6 DEF Tick, TickDone, RoutineExit, FinalFlush, BatchStopped, Flushers
  <2>2. QED BY <1>0, <1>6, <2>1 DEF Tick, TickDone, RoutineExit, FinalFlush, BatchStopped
<1>7. QED BY <1>0, <1>1, <1>2, <1>3, <1>4, <1>5, <1>6

-----------------------------------------------------------------------------
(* What a step is to the caller: nothing, a submission, an answer, its     *)
(* receipt, or jobs given up.                                              *)

Nothing == UNCHANGED <<submit, outcome, result, dropped>>
Accepted(j) ==
    /\ submit[j] = "idle" /\ submit' = [submit EXCEPT ![j] = "waiting"]
    /\ UNCHANGED <<outcome, result, dropped>>
Answered(j, v) ==
    /\ Live(j) /\ result' = [result EXCEPT ![j] = v]
    /\ UNCHANGED <<submit, outcome, dropped>>
Received(j, v) ==
    /\ submit[j] = "waiting" /\ result[j] \in Replies
    /\ outcome' = [outcome EXCEPT ![j] = result[j]]
    /\ result' = [result EXCEPT ![j] = "closed"]
    /\ submit' = [submit EXCEPT ![j] = v]
    /\ UNCHANGED dropped
GivenUp(S) ==
    /\ \A j \in S : Live(j)
    /\ dropped' = dropped \cup S
    /\ UNCHANGED <<submit, outcome, result>>

\* A worker that is not between jobs holds one, which is waiting for its answer.
LEMMA WorkerHolds ==
    ASSUME PipelineIInv, NEW w \in Workers, wpc[w] \in {"limit", "call", "backoff"}
    PROVE  cur[w] \in Jobs /\ Live(cur[w])
<1>1. cur[w] \in Jobs
  BY DEF PipelineIInv, Holding, Typed, TypeOK
<1>2. QED BY <1>1, HeldIsLive

\* A worker answers the job it holds.
LEMMA WorkerAnswers ==
    ASSUME PipelineIInv, NEW w \in Workers, OverLimit(w) \/ Success(w) \/ (wpc[w] = "call" /\ Fail(w))
    PROVE  /\ \E v \in Replies : Answered(cur[w], v)
           /\ cur[w] \in Jobs
<1>1. cur[w] \in Jobs /\ Live(cur[w])
  BY WorkerHolds DEF OverLimit, Success
<1>2. HasRoom(cur[w]) /\ result[cur[w]] = "empty"
  BY <1>1 DEF Live, HasRoom
<1>3. CASE OverLimit(w)
  <2>1. result' = [result EXCEPT ![cur[w]] = "nil"]
    BY <1>2, <1>3 DEF OverLimit, Send
  <2>2. QED BY <1>1, <1>3, <2>1 DEF OverLimit, RestOfBatch, Answered, Replies
<1>4. CASE Success(w)
  <2>1. result' = [result EXCEPT ![cur[w]] = "reply"]
    BY <1>2, <1>4 DEF Success, Send
  <2>2. QED BY <1>1, <1>4, <2>1 DEF Success, RestOfBatch, Answered, Replies
<1>5. CASE wpc[w] = "call" /\ Fail(w)
  <2>1. result' = [result EXCEPT ![cur[w]] = "nil"]
    BY <1>2, <1>5 DEF Fail, Send
  <2>2. QED BY <1>1, <1>5, <2>1 DEF Fail, RestOfBatch, Answered, Replies
<1>6. QED BY <1>1, <1>3, <1>4, <1>5

\* A flush that fails gives up the jobs it took.
LEMMA FlushGivesUp ==
    ASSUME PipelineIInv, NEW f \in Flushers, Forget(f), UNCHANGED <<submit, outcome, result>>
    PROVE  ToSet(snap[f]) \subseteq Jobs /\ GivenUp(ToSet(snap[f]))
<1>1. snap[f] \in Seq(Jobs)
  BY DEF PipelineIInv, Typed, TypeOK, BatchTypeOK
<1>2. ToSet(snap[f]) \subseteq Jobs
  BY <1>1 DEF ToSet
<1>3. \A j \in ToSet(snap[f]) : Live(j)
  BY <1>2, HeldIsLive
<1>4. QED BY <1>2, <1>3 DEF Forget, GivenUp

\* The jobs of a batch are waiting for their answers.
LEMMA BatchHolds ==
    ASSUME PipelineIInv, NEW b \in monitors
    PROVE  /\ b.jobs \in Seq(Jobs) /\ b.jobs # <<>> /\ Head(b.jobs) \in ToSet(b.jobs)
           /\ ToSet(b.jobs) \subseteq Jobs /\ \A j \in ToSet(b.jobs) : Live(j)
<1>1. b.jobs \in Seq(Jobs) /\ b.jobs # <<>>
  BY DEF PipelineIInv, Typed, TypeOK, BatchTypeOK
<1>2. ToSet(b.jobs) \subseteq Jobs /\ Head(b.jobs) \in ToSet(b.jobs)
  BY <1>1, EmptySeq DEF ToSet
<1>3. \A j \in ToSet(b.jobs) : Live(j)
  BY <1>2, HeldIsLive
<1>4. QED BY <1>1, <1>2, <1>3

\* Every step of the pipeline is one of the five.
LEMMA StepKinds ==
    ASSUME PipelineIInv, Next
    PROVE  \/ Nothing
           \/ \E j \in Jobs : Accepted(j)
           \/ \E j \in Jobs, v \in Replies : Answered(j, v)
           \/ \E j \in Jobs, v \in {"returned", "failed", "panic"} : Received(j, v)
           \/ \E S \in SUBSET Jobs : GivenUp(S)
<1> DEFINE Kinds ==
           \/ Nothing
           \/ \E j \in Jobs : Accepted(j)
           \/ \E j \in Jobs, v \in Replies : Answered(j, v)
           \/ \E j \in Jobs, v \in {"returned", "failed", "panic"} : Received(j, v)
           \/ \E S \in SUBSET Jobs : GivenUp(S)
<1>1. ASSUME NEW j \in Jobs, Submit(j) PROVE Kinds
  BY <1>1 DEF Submit, Accepted, batchVars
<1>2. ASSUME NEW j \in Jobs, Receive(j) PROVE Kinds
  <2>1. PICK v \in Verdict(j, result[j]) : submit' = [submit EXCEPT ![j] = v]
    BY <1>2 DEF Receive
  <2>2. v \in {"returned", "failed", "panic"}
    BY <2>1 DEF Verdict
  <2>3. QED BY <1>2, <2>1, <2>2 DEF Receive, Received, Replies
<1>3. CASE BridgeReceive \/ RouteToQueue \/ RouteToBatch \/ BatchTook \/ BatchRefused
  BY <1>3 DEF BridgeReceive, RouteToQueue, RouteToBatch, BatchTook, BatchRefused, AddJob,
              AddAfterFlush, AddFails, Nothing, batchVars
<1>4. CASE Dequeue \/ Feed \/ CloseJobChan \/ StopBatchFirst \/ StopManager \/ Stopped
  BY <1>4 DEF Dequeue, Feed, CloseJobChan, StopBatchFirst, StopBatch, StopManager, Stopped,
              Nothing, batchVars
<1>5. ASSUME NEW w \in Workers,
             Take(w) \/ WorkerExit(w) \/ Limited(w) \/ RateLimited(w) \/ Transient(w) \/ Requeue(w)
      PROVE  Kinds
  BY <1>5 DEF Take, WorkerExit, Limited, RateLimited, Transient, Requeue, Nothing, batchVars
<1>6. ASSUME NEW w \in Workers, OverLimit(w) \/ Success(w) \/ (wpc[w] = "call" /\ Fail(w))
      PROVE  Kinds
  BY <1>6, WorkerAnswers
<1>7. ASSUME NEW f \in Flushers, Snapshot(f) \/ Convert(f), UNCHANGED orchVars PROVE Kinds
  BY <1>7 DEF Snapshot, Convert, Nothing, orchVars
<1>8. ASSUME NEW f \in Flushers, UploadFile(f) \/ CreateBatch(f), UNCHANGED orchVars PROVE Kinds
  <2>1. UNCHANGED <<submit, outcome, result>> /\ (UNCHANGED dropped \/ Forget(f))
    BY <1>8 DEF UploadFile, CreateBatch, orchVars
  <2>2. CASE UNCHANGED dropped
    BY <2>1, <2>2 DEF Nothing
  <2>3. CASE Forget(f)
    BY <2>1, <2>3, FlushGivesUp
  <2>4. QED BY <2>1, <2>2, <2>3
<1>9. ASSUME NEW b \in monitors, UNCHANGED orchVars,
             \/ \E status \in BatchStatus : WaitForBatch(b, status)
             \/ ReadBatchResponses(b) \/ BatchFails(b)
             \/ \E status \in WebhookStatuses : NotifyBatchComplete(b, status)
      PROVE  Kinds
  <2>1. UNCHANGED <<submit, outcome, result>> /\ (UNCHANGED dropped \/ GiveUp(b))
    BY <1>9 DEF WaitForBatch, ReadBatchResponses, BatchFails, NotifyBatchComplete, orchVars
  <2>2. CASE UNCHANGED dropped
    BY <2>1, <2>2 DEF Nothing
  <2>3. CASE GiveUp(b)
    BY <2>1, <2>3, BatchHolds DEF GiveUp, GivenUp
  <2>4. QED BY <2>1, <2>2, <2>3
<1>10. ASSUME NEW b \in monitors, UNCHANGED orchVars, BatchAnswers(b) PROVE Kinds
  <2>1. PICK j : j = Head(b.jobs)
    OBVIOUS
  <2>2. j \in Jobs /\ Live(j) /\ result[j] = "empty"
    BY <2>1, BatchHolds DEF Live
  <2>3. \/ Send(j, "chat") /\ UNCHANGED dropped
        \/ dropped' = dropped \cup {j} /\ UNCHANGED result
    BY <1>10, <2>1 DEF BatchAnswers
  <2>4. UNCHANGED <<submit, outcome>>
    BY <1>10 DEF orchVars
  <2>5. CASE Send(j, "chat") /\ UNCHANGED dropped
    <3>1. result' = [result EXCEPT ![j] = "chat"]
      BY <2>2, <2>5 DEF Send
    <3>2. QED BY <2>2, <2>4, <2>5, <3>1 DEF Answered, Replies
  <2>6. CASE dropped' = dropped \cup {j} /\ UNCHANGED result
    <3>1. GivenUp({j})
      BY <2>2, <2>4, <2>6 DEF GivenUp
    <3>2. QED BY <2>2, <3>1
  <2>7. QED BY <2>3, <2>5, <2>6
<1>11. ASSUME UNCHANGED orchVars, Tick \/ TickDone \/ RoutineExit \/ FinalFlush \/ BatchStopped
       PROVE  Kinds
  BY <1>11 DEF Tick, TickDone, RoutineExit, FinalFlush, BatchStopped, Nothing, orchVars
<1>12. QED
  BY Steps, <1>1, <1>2, <1>3, <1>4, <1>5, <1>6, <1>7, <1>8, <1>9, <1>10, <1>11

\* The submitter, the result channel and the history of a job stay in step.
LEMMA JobsStep ==
    ASSUME PipelineIInv, Next
    PROVE  (\A j \in Jobs : JobOK(j))'
<1>1. /\ \A j \in Jobs : JobOK(j)
      /\ submit \in [Jobs -> {"idle", "waiting", "returned", "failed", "panic"}]
      /\ outcome \in [Jobs -> {"none", "nil", "reply", "chat"}]
      /\ result \in [Jobs -> {"empty", "nil", "reply", "chat", "closed", "panic"}]
  BY DEF PipelineIInv, Typed, TypeOK, BatchTypeOK
<1> SUFFICES ASSUME NEW j \in Jobs PROVE JobOK(j)'
  OBVIOUS
<1>2. CASE Nothing
  BY <1>1, <1>2 DEF Nothing, JobOK
<1>3. ASSUME NEW k \in Jobs, Accepted(k) PROVE JobOK(j)'
  BY <1>1, <1>3 DEF Accepted, JobOK
<1>4. ASSUME NEW k \in Jobs, NEW v \in Replies, Answered(k, v) PROVE JobOK(j)'
  BY <1>1, <1>4 DEF Answered, JobOK, Live, Replies
<1>5. ASSUME NEW k \in Jobs, NEW v \in {"returned", "failed", "panic"}, Received(k, v)
      PROVE  JobOK(j)'
  BY <1>1, <1>5 DEF Received, JobOK, Replies
<1>6. ASSUME NEW S \in SUBSET Jobs, GivenUp(S) PROVE JobOK(j)'
  BY <1>1, <1>6 DEF GivenUp, JobOK, Live
<1>7. QED BY StepKinds, <1>2, <1>3, <1>4, <1>5, <1>6

-----------------------------------------------------------------------------
(* Who holds what, and how far Stop has come *)

\* A flusher moves on.
LEMMA FlusherMoves ==
    ASSUME Holding, TypeOK, NEW f \in Flushers, NEW to,
           fpc' = [fpc EXCEPT ![f] = to],
           \/ UNCHANGED snap
           \/ \E t \in Seq(Jobs) : snap' = [snap EXCEPT ![f] = t],
           snap'[f] = <<>> <=> to \notin {"convert", "send", "create"}
    PROVE  \A g \in Flushers : snap'[g] = <<>> <=> fpc'[g] \notin {"convert", "send", "create"}
BY DEF Holding, TypeOK, BatchTypeOK

\* The steps of the batch manager keep who holds what.
LEMMA HoldingBatch ==
    ASSUME PipelineIInv, UNCHANGED orchVars,
           \/ \E f \in Flushers : Snapshot(f) \/ Convert(f) \/ UploadFile(f) \/ CreateBatch(f)
           \/ \E b \in monitors :
                \/ \E status \in BatchStatus : WaitForBatch(b, status)
                \/ ReadBatchResponses(b) \/ BatchFails(b)
                \/ \E status \in WebhookStatuses : NotifyBatchComplete(b, status)
                \/ BatchAnswers(b)
           \/ Tick \/ TickDone \/ RoutineExit \/ FinalFlush \/ BatchStopped
    PROVE  Holding'
<1>0. /\ Holding /\ TypeOK /\ UNCHANGED <<wpc, cur, bridge>>
      /\ fpc \in [Flushers -> {"idle", "snapshot", "convert", "send", "create", "ok", "failed"}]
      /\ snap \in [Flushers -> Seq(Jobs)] /\ <<>> \in Seq(Jobs) /\ pendingJobs \in Seq(Jobs)
  BY SMTT(40) DEF PipelineIInv, Typed, TypeOK, BatchTypeOK, orchVars
<1> DEFINE Snaps == \A g \in Flushers : snap[g] = <<>> <=> fpc[g] \notin {"convert", "send", "create"}
<1>1. ASSUME NEW f \in Flushers, Snapshot(f) \/ Convert(f) \/ UploadFile(f) \/ CreateBatch(f)
      PROVE  Holding'
  <2>1. /\ adding' = adding /\ fpc[f] \in {"snapshot", "convert", "send", "create"}
        /\ \E to \in {"ok", "convert", "send", "failed", "create"} :
              /\ fpc' = [fpc EXCEPT ![f] = to]
              /\ \/ UNCHANGED snap
                 \/ \E t \in Seq(Jobs) : snap' = [snap EXCEPT ![f] = t]
              /\ snap'[f] = <<>> <=> to \notin {"convert", "send", "create"}
    <3>1. CASE Snapshot(f)
      BY <1>0, <3>1 DEF Snapshot, Holding
    <3>2. CASE Convert(f)
      BY <1>0, <3>2 DEF Convert, Holding
    <3>3. CASE UploadFile(f)
      BY <1>0, <3>3 DEF UploadFile, Forget, Holding
    <3>4. CASE CreateBatch(f)
      BY <1>0, <3>4 DEF CreateBatch, Forget, Holding
    <3>5. QED BY <1>1, <3>1, <3>2, <3>3, <3>4
  <2>2. Snaps'
    BY <1>0, <2>1, FlusherMoves
  <2>3. fpc'["add"] = "idle" <=> fpc["add"] = "idle"
    BY <1>0, <2>1 DEF Flushers
  <2>4. QED BY <1>0, <2>1, <2>2, <2>3 DEF Holding, ToBatch
<1>2. ASSUME NEW b \in monitors,
             \/ \E status \in BatchStatus : WaitForBatch(b, status)
             \/ ReadBatchResponses(b) \/ BatchFails(b)
             \/ \E status \in WebhookStatuses : NotifyBatchComplete(b, status)
             \/ BatchAnswers(b)
      PROVE  Holding'
  <2>1. UNCHANGED <<adding, fpc, snap>>
    BY <1>2 DEF WaitForBatch, ReadBatchResponses, BatchFails, NotifyBatchComplete, BatchAnswers,
                RestOfMonitor
  <2>2. QED BY <1>0, <2>1 DEF Holding, ToBatch
<1>3. CASE Tick \/ TickDone \/ RoutineExit \/ FinalFlush \/ BatchStopped
  <2>1. UNCHANGED <<adding, snap>>
    BY <1>3 DEF Tick, TickDone, RoutineExit, FinalFlush, BatchStopped
  <2>2. fpc'["add"] = fpc["add"] /\ Snaps'
    <3>1. CASE Tick
      BY <1>0, <2>1, <3>1 DEF Tick, Holding, Flushers
    <3>2. CASE TickDone
      BY <1>0, <2>1, <3>2 DEF TickDone, Holding, Flushers
    <3>3. CASE RoutineExit
      BY <1>0, <2>1, <3>3 DEF RoutineExit, Holding
    <3>4. CASE FinalFlush
      <4>1. fpc["stop"] = "idle"
        BY <3>4 DEF FinalFlush, PipelineIInv, Stopping
      <4>2. QED BY <1>0, <2>1, <3>4, <4>1 DEF FinalFlush, Holding, Flushers
    <3>5. CASE BatchStopped
      BY <1>0, <2>1, <3>5 DEF BatchStopped, Holding, Flushers
    <3>6. QED BY <1>3, <3>1, <3>2, <3>3, <3>4, <3>5
  <2>3. QED BY <1>0, <2>1, <2>2 DEF Holding, ToBatch
<1>4. QED BY <1>1, <1>2, <1>3

\* Who holds what, after any step.
LEMMA HoldingStep ==
    ASSUME PipelineIInv, Next
    PROVE  Holding'
<1>0. /\ Holding /\ TypeOK
      /\ fpc \in [Flushers -> {"idle", "snapshot", "convert", "send", "create", "ok", "failed"}]
      /\ snap \in [Flushers -> Seq(Jobs)] /\ cur \in [Workers -> Jobs \cup {None}]
      /\ wpc \in [Workers -> {"idle", "limit", "call", "backoff", "exit"}]
      /\ bridge \in Jobs \cup {None} /\ None \notin Jobs
  BY BatchAssumption DEF PipelineIInv, Typed, TypeOK, BatchTypeOK
<1> DEFINE Held == \A w \in Workers : wpc[w] \in {"limit", "call", "backoff"} <=> cur[w] # None
           Snaps == \A g \in Flushers : snap[g] = <<>> <=> fpc[g] \notin {"convert", "send", "create"}
<1>1. CASE \/ \E j \in Jobs : Submit(j) \/ Receive(j)
           \/ Dequeue \/ Feed \/ CloseJobChan \/ StopBatchFirst \/ StopManager \/ Stopped
  <2>1. UNCHANGED <<wpc, cur, adding, bridge, fpc, snap>>
    BY <1>1 DEF Submit, Receive, Dequeue, Feed, CloseJobChan, StopBatchFirst, StopBatch,
                StopManager, Stopped, batchVars
  <2>2. QED BY <1>0, <2>1 DEF Holding, ToBatch
<1>2. CASE BridgeReceive
  BY <1>0, <1>2 DEF BridgeReceive, Holding, ToBatch, batchVars
<1>3. CASE RouteToQueue
  BY <1>0, <1>3 DEF RouteToQueue, Holding, ToBatch, batchVars
<1>4. CASE RouteToBatch
  <2>1. /\ bridge \in Jobs /\ ToBatch(bridge) /\ adding = None
        /\ UNCHANGED <<wpc, cur, snap>> /\ AddJob(bridge)
        /\ bridge' = IF Exceeds(bridge) THEN bridge ELSE None
    BY <1>0, <1>4 DEF RouteToBatch, AddJob
  <2>2. CASE Exceeds(bridge)
    <3>1. adding' = bridge /\ bridge' = bridge /\ fpc' = [fpc EXCEPT !["add"] = "snapshot"]
      BY <2>1, <2>2 DEF AddJob
    <3>2. QED BY <1>0, <2>1, <3>1 DEF Holding, ToBatch, Flushers
  <2>3. CASE ~Exceeds(bridge)
    <3>1. adding' = adding /\ bridge' = None /\ fpc' = fpc
      BY <2>1, <2>3 DEF AddJob
    <3>2. QED BY <1>0, <2>1, <3>1 DEF Holding
  <2>4. QED BY <2>2, <2>3
<1>5. CASE BatchTook \/ BatchRefused
  <2>1. /\ adding' = None /\ bridge' = None /\ fpc' = [fpc EXCEPT !["add"] = "idle"]
        /\ UNCHANGED <<wpc, cur, snap>> /\ fpc["add"] \in {"ok", "failed"}
    BY <1>5 DEF BatchTook, BatchRefused, AddAfterFlush, AddFails
  <2>2. QED BY <1>0, <2>1 DEF Holding, Flushers
<1>6. ASSUME NEW w \in Workers,
             \/ Take(w) \/ WorkerExit(w) \/ OverLimit(w) \/ Limited(w)
             \/ Success(w) \/ (wpc[w] = "call" /\ Fail(w))
             \/ RateLimited(w) \/ Transient(w) \/ Requeue(w)
      PROVE  Holding'
  <2>1. UNCHANGED <<adding, bridge, fpc, snap>>
    BY <1>6 DEF Take, WorkerExit, OverLimit, Limited, Success, Fail, RateLimited, Transient,
                Requeue, batchVars, RestOfBatch
  <2>2. \E to \in {"idle", "limit", "call", "backoff", "exit"}, k \in Jobs \cup {None} :
           /\ wpc' = [wpc EXCEPT ![w] = to]
           /\ cur' = [cur EXCEPT ![w] = k]
           /\ to \in {"limit", "call", "backoff"} <=> k # None
    <3>1. CASE Take(w)
      <4>1. Head(jobChan) \in Jobs
        BY <1>0, <3>1, EmptySeq DEF Take, TypeOK
      <4>2. QED BY <1>0, <3>1, <4>1 DEF Take
    <3>2. CASE WorkerExit(w)
      <4>1. cur[w] = None /\ cur' = [cur EXCEPT ![w] = None]
        BY <1>0, <3>2 DEF WorkerExit, Holding
      <4>2. QED BY <3>2, <4>1 DEF WorkerExit
    <3>3. CASE Limited(w) \/ Transient(w)
      <4>1. cur[w] # None /\ cur[w] \in Jobs /\ cur' = [cur EXCEPT ![w] = cur[w]]
        BY <1>0, <3>3 DEF Limited, Transient, Holding
      <4>2. QED BY <3>3, <4>1 DEF Limited, Transient
    <3>4. CASE \/ OverLimit(w) \/ Success(w) \/ (wpc[w] = "call" /\ Fail(w))
               \/ RateLimited(w) \/ Requeue(w)
      <4>1. wpc' = [wpc EXCEPT ![w] = "idle"] /\ cur' = [cur EXCEPT ![w] = None]
        BY <3>4 DEF OverLimit, Success, Fail, RateLimited, Requeue, WorkerDone
      <4>2. QED BY <4>1
    <3>5. QED BY <1>6, <3>1, <3>2, <3>3, <3>4
  <2>3. Held'
    BY <1>0, <2>2 DEF Holding
  <2>4. QED BY <1>0, <2>1, <2>3 DEF Holding, ToBatch
<1>7. QED BY Steps, HoldingBatch, <1>1, <1>2, <1>3, <1>4, <1>5, <1>6

\* How far Stop has come, after any step.
LEMMA StoppingStep ==
    ASSUME PipelineIInv, Next
    PROVE  Stopping'
<1>0. /\ Stopping /\ TypeOK
      /\ fpc \in [Flushers -> {"idle", "snapshot", "convert", "send", "create", "ok", "failed"}]
      /\ wpc \in [Workers -> {"idle", "limit", "call", "backoff", "exit"}]
      /\ stop \in {"no", "batch", "closed", "stopped"}
      /\ batchStop \in {"no", "closed", "flushing", "stopped"}
      /\ "add" \in Flushers /\ "routine" \in Flushers /\ "stop" \in Flushers
  BY DEF PipelineIInv, Typed, TypeOK, BatchTypeOK, Flushers
<1>1. CASE \/ \E j \in Jobs : Submit(j) \/ Receive(j)
           \/ BridgeReceive \/ RouteToQueue \/ RouteToBatch \/ BatchTook \/ BatchRefused
  <2>1. UNCHANGED <<wpc, manager, held, jobChan, stop, routine, batchStop>>
    BY <1>1 DEF Submit, Receive, BridgeReceive, RouteToQueue, RouteToBatch, BatchTook,
                BatchRefused, AddJob, AddAfterFlush, AddFails, batchVars
  <2>2. fpc'["routine"] = fpc["routine"] /\ fpc'["stop"] = fpc["stop"]
    BY <1>0, <1>1 DEF Submit, Receive, BridgeReceive, RouteToQueue, RouteToBatch, BatchTook,
                BatchRefused, AddJob, AddAfterFlush, AddFails, batchVars
  <2>3. QED BY <1>0, <2>1, <2>2 DEF Stopping
<1>2. CASE Dequeue \/ Feed \/ CloseJobChan
  <2>1. UNCHANGED <<wpc, stop, routine, batchStop, fpc>>
    BY <1>2 DEF Dequeue, Feed, CloseJobChan, batchVars
  <2>2. CASE Dequeue
    BY <1>0, <2>1, <2>2 DEF Dequeue, Stopping
  <2>3. CASE Feed
    BY <1>0, <2>1, <2>3 DEF Feed, Stopping
  <2>4. CASE CloseJobChan
    BY <1>0, <2>1, <2>4 DEF CloseJobChan, Stopping
  <2>5. QED BY <1>2, <2>2, <2>3, <2>4
<1>3. ASSUME NEW w \in Workers,
             \/ Take(w) \/ WorkerExit(w) \/ OverLimit(w) \/ Limited(w)
             \/ Success(w) \/ (wpc[w] = "call" /\ Fail(w))
             \/ RateLimited(w) \/ Transient(w) \/ Requeue(w)
      PROVE  Stopping'
  <2>1. UNCHANGED <<manager, held, stop, routine, batchStop, fpc>>
    BY <1>3 DEF Take, WorkerExit, OverLimit, Limited, Success, Fail, RateLimited, Transient,
                Requeue, batchVars, RestOfBatch
  <2>2. CASE Take(w)
    <3>1. jobChan # <<>> /\ \A v \in Workers : wpc[v] # "exit" /\ wpc'[v] # "exit"
      BY <1>0, <2>2 DEF Take, Stopping
    <3>2. QED BY <1>0, <2>1, <3>1 DEF Stopping
  <2>3. CASE WorkerExit(w)
    BY <1>0, <2>1, <2>3 DEF WorkerExit, Stopping
  <2>4. CASE \/ OverLimit(w) \/ Limited(w) \/ Success(w) \/ (wpc[w] = "call" /\ Fail(w))
             \/ RateLimited(w) \/ Transient(w) \/ Requeue(w)
    <3>1. /\ wpc[w] # "exit" /\ UNCHANGED jobChan
          /\ \E to \in {"idle", "call", "backoff"} : wpc' = [wpc EXCEPT ![w] = to]
      BY <2>4 DEF OverLimit, Limited, Success, Fail, RateLimited, Transient, Requeue, WorkerDone
    <3>2. QED BY <1>0, <2>1, <3>1 DEF Stopping
  <2>5. QED BY <1>3, <2>2, <2>3, <2>4
<1>4. ASSUME UNCHANGED orchVars,
             \/ \E f \in Flushers : Snapshot(f) \/ Convert(f) \/ UploadFile(f) \/ CreateBatch(f)
             \/ \E b \in monitors :
                  \/ \E status \in BatchStatus : WaitForBatch(b, status)
                  \/ ReadBatchResponses(b) \/ BatchFails(b)
                  \/ \E status \in WebhookStatuses : NotifyBatchComplete(b, status)
                  \/ BatchAnswers(b)
      PROVE  Stopping'
  <2>1. UNCHANGED <<wpc, manager, held, jobChan, stop, routine, batchStop>>
    BY <1>4 DEF Snapshot, Convert, UploadFile, CreateBatch, WaitForBatch, ReadBatchResponses,
                BatchFails, NotifyBatchComplete, BatchAnswers, RestOfMonitor, orchVars
  <2>2. \A f \in Flushers : fpc[f] = "idle" => fpc'[f] = "idle"
    BY <1>0, <1>4 DEF Snapshot, Convert, UploadFile, CreateBatch, Forget, WaitForBatch,
                      ReadBatchResponses, BatchFails, NotifyBatchComplete, BatchAnswers,
                      RestOfMonitor
  <2>3. QED BY <1>0, <2>1, <2>2 DEF Stopping
<1>5. ASSUME UNCHANGED orchVars, Batching, Tick \/ TickDone \/ RoutineExit \/ FinalFlush \/ BatchStopped
      PROVE  Stopping'
  <2>1. UNCHANGED <<wpc, manager, held, jobChan, stop>>
    BY <1>5 DEF orchVars
  <2>2. CASE Tick
    BY <1>0, <2>1, <2>2 DEF Tick, Stopping
  <2>3. CASE TickDone
    BY <1>0, <2>1, <2>3 DEF TickDone, Stopping
  <2>4. CASE RoutineExit
    BY <1>0, <2>1, <2>4 DEF RoutineExit, Stopping
  <2>5. CASE FinalFlush
    BY <1>0, <1>5, <2>1, <2>5 DEF FinalFlush, Stopping
  <2>6. CASE BatchStopped
    BY <1>0, <1>5, <2>1, <2>6 DEF BatchStopped, Stopping
  <2>7. QED BY <1>5, <2>2, <2>3, <2>4, <2>5, <2>6
<1>6. CASE StopBatchFirst
  BY <1>0, <1>6 DEF StopBatchFirst, StopBatch, Stopping
<1>7. CASE StopManager
  BY <1>0, <1>7 DEF StopManager, Stopping, batchVars
<1>8. CASE Stopped
  BY <1>0, <1>8 DEF Stopped, Stopping, batchVars
<1>9. QED BY Steps, <1>1, <1>2, <1>3, <1>4, <1>5, <1>6, <1>7, <1>8

-----------------------------------------------------------------------------
(* Every job in one place *)

\* The counts after a step.
LEMMA CountsAfter ==
    \A j : /\ Queued(j)' = Occ(channel', j) + Lone({bridge'}, j) + Lone(jobQueue', j)
                             + Lone({held'}, j) + Occ(jobChan', j) + Cardinality(Busy(j)')
           /\ Batched(j)' = Occ(pendingJobs', j) + Occ(snap'["add"], j) + Occ(snap'["routine"], j)
                              + Occ(snap'["stop"], j) + Cardinality(Watch(monitors', j))
BY DEF Queued, Batched, Occ, In, Lone, Watch

\* A step that leaves the queues, or the batches, alone.
LEMMA QueuedKept ==
    ASSUME UNCHANGED <<channel, bridge, jobQueue, held, jobChan, cur>>
    PROVE  \A j : Queued(j)' = Queued(j)
<1> TAKE j
<1>1. Busy(j)' = Busy(j)
  BY DEF Busy
<1>2. QED BY <1>1, CountsAfter DEF Queued

\* A step that leaves the batches alone.
LEMMA BatchedKept ==
    ASSUME UNCHANGED <<pendingJobs, snap, monitors>>
    PROVE  \A j : Batched(j)' = Batched(j)
BY CountsAfter DEF Batched

\* Which jobs wait for an answer after a step.
LEMMA LiveAfter ==
    ASSUME PipelineIInv, NEW j \in Jobs
    PROVE  /\ Nothing => (Live(j)' <=> Live(j))
           /\ \A k \in Jobs : Accepted(k) => ~Live(k) /\ (Live(j)' <=> Live(j) \/ j = k)
           /\ \A k \in Jobs, v \in Replies : Answered(k, v) => (Live(j)' <=> Live(j) /\ j # k)
           /\ \A k \in Jobs, v \in {"returned", "failed", "panic"} :
                Received(k, v) => (Live(j)' <=> Live(j))
           /\ \A S \in SUBSET Jobs : GivenUp(S) => (Live(j)' <=> Live(j) /\ j \notin S)
<1>1. /\ \A k \in Jobs : JobOK(k)
      /\ submit \in [Jobs -> {"idle", "waiting", "returned", "failed", "panic"}]
      /\ result \in [Jobs -> {"empty", "nil", "reply", "chat", "closed", "panic"}]
  BY DEF PipelineIInv, Typed, TypeOK, BatchTypeOK
<1>2. Nothing => (Live(j)' <=> Live(j))
  BY DEF Nothing, Live
<1>3. ASSUME NEW k \in Jobs, Accepted(k) PROVE ~Live(k) /\ (Live(j)' <=> Live(j) \/ j = k)
  BY <1>1, <1>3 DEF Accepted, Live, JobOK
<1>4. ASSUME NEW k \in Jobs, NEW v \in Replies, Answered(k, v) PROVE Live(j)' <=> Live(j) /\ j # k
  BY <1>1, <1>4 DEF Answered, Live, Replies
<1>5. ASSUME NEW k \in Jobs, NEW v \in {"returned", "failed", "panic"}, Received(k, v)
      PROVE  Live(j)' <=> Live(j)
  BY <1>1, <1>5 DEF Received, Live, Replies
<1>6. ASSUME NEW S \in SUBSET Jobs, GivenUp(S) PROVE Live(j)' <=> Live(j) /\ j \notin S
  BY <1>1, <1>6 DEF GivenUp, Live
<1>7. QED BY <1>2, <1>3, <1>4, <1>5, <1>6

\* A variable without a job counts none, a job put in the queue counts there.
LEMMA LoneFacts ==
    ASSUME NEW j \in Jobs
    PROVE  /\ Lone({None}, j) = 0
           /\ \A S, k : k \notin S => Lone(S \cup {k}, j) = Lone(S, j) + Lone({k}, j)
           /\ \A S, k : k \in S => Lone(S \ {k}, j) = Lone(S, j) - Lone({k}, j)
           /\ \A k : Lone({k}, j) = IF k = j THEN 1 ELSE 0
BY BatchAssumption DEF Lone

\* The job the bridge or a worker holds is not in the queue.
LEMMA NotQueuedTwice ==
    ASSUME PipelineIInv, NEW k \in Jobs, bridge = k \/ \E w \in Workers : cur[w] = k
    PROVE  k \notin jobQueue
<1>1. Typed /\ Queued(k) + Batched(k) <= 1
  BY DEF PipelineIInv, Counted
<1>2. /\ Occ(channel, k) \in Nat /\ Occ(jobChan, k) \in Nat
      /\ Cardinality(Busy(k)) \in Nat /\ Batched(k) \in Nat
  BY <1>1, Counts
<1>3. Lone({bridge}, k) \in Nat /\ Lone({held}, k) \in Nat
  BY DEF Lone
<1>4. bridge = k => Lone({bridge}, k) = 1
  BY DEF Lone
<1>5. ASSUME NEW w \in Workers, cur[w] = k PROVE Cardinality(Busy(k)) # 0
  <2>1. Busy(k) # {}
    BY <1>5 DEF Busy
  <2>2. QED BY <2>1, BusyType, FS_EmptySet
<1>6. Lone({bridge}, k) + Cardinality(Busy(k)) > 0
  BY <1>2, <1>3, <1>4, <1>5
<1>7. Lone(jobQueue, k) = 0
  <2>1. Lone(jobQueue, k) \in {0, 1}
    BY DEF Lone
  <2>2. Lone(jobQueue, k) # 1
    BY <1>1, <1>2, <1>3, <1>6 DEF Queued
  <2>3. QED BY <2>1, <2>2
<1>8. QED BY <1>7 DEF Lone

\* Jobs move between the channel, the bridge, the queue, the manager and the workers.
LEMMA CountedQueues ==
    ASSUME PipelineIInv,
           \/ \E j \in Jobs : Submit(j) \/ Receive(j)
           \/ BridgeReceive \/ RouteToQueue \/ Dequeue \/ Feed \/ CloseJobChan
           \/ StopBatchFirst \/ StopManager \/ Stopped
    PROVE  Counted' /\ UNCHANGED monitors
<1>0. /\ TypeOK /\ Typed /\ channel \in Seq(Jobs) /\ jobChan \in Seq(Jobs) /\ jobQueue \subseteq Jobs
      /\ bridge \in Jobs \cup {None} /\ held \in Jobs \cup {None}
      /\ \A j \in Jobs : Queued(j) + Batched(j) = IF Live(j) THEN 1 ELSE 0
  BY DEF PipelineIInv, Typed, TypeOK, Counted
<1>00. \A j \in Jobs : /\ Occ(channel, j) \in Nat /\ Occ(jobChan, j) \in Nat
                       /\ Cardinality(Busy(j)) \in Nat /\ Batched(j) \in Nat /\ Queued(j) \in Nat
                       /\ Lone({bridge}, j) \in Nat /\ Lone(jobQueue, j) \in Nat
                       /\ Lone({held}, j) \in Nat
  BY <1>0, Counts DEF Lone
<1>1. ASSUME NEW k \in Jobs, Submit(k) PROVE Counted' /\ UNCHANGED monitors
  <2>1. Accepted(k) /\ channel' = Append(channel, k)
        /\ UNCHANGED <<bridge, jobQueue, held, jobChan, cur, pendingJobs, snap, monitors>>
    BY <1>1 DEF Submit, Accepted, batchVars
  <2> SUFFICES ASSUME NEW j \in Jobs PROVE (Queued(j) + Batched(j) = IF Live(j) THEN 1 ELSE 0)'
    BY <2>1 DEF Counted
  <2>2. ~Live(k) /\ (Live(j)' <=> Live(j) \/ j = k)
    BY <2>1, LiveAfter
  <2>3. Occ(channel', j) = Occ(channel, j) + Lone({k}, j) /\ Lone({k}, j) \in Nat
    BY <1>0, <2>1, OccAppend DEF Lone
  <2>4. Busy(j)' = Busy(j) /\ Batched(j)' = Batched(j)
    BY <2>1, BatchedKept DEF Busy
  <2>5. /\ Queued(j)' = Occ(channel', j) + Lone({bridge'}, j) + Lone(jobQueue', j)
                            + Lone({held'}, j) + Occ(jobChan', j) + Cardinality(Busy(j)')
        /\ Queued(j) = Occ(channel, j) + Lone({bridge}, j) + Lone(jobQueue, j)
                           + Lone({held}, j) + Occ(jobChan, j) + Cardinality(Busy(j))
        /\ Occ(channel, j) \in Nat /\ Occ(jobChan, j) \in Nat
        /\ Cardinality(Busy(j)) \in Nat /\ Batched(j) \in Nat /\ Queued(j) \in Nat
        /\ Lone({bridge}, j) \in Nat /\ Lone(jobQueue, j) \in Nat
        /\ Lone({held}, j) \in Nat
    BY <1>00, CountsAfter DEF Queued
  <2>6. Queued(j)' = Queued(j) + Lone({k}, j)
    <3>1. Queued(j)' = Occ(channel', j) + Lone({bridge}, j) + Lone(jobQueue, j)
                           + Lone({held}, j) + Occ(jobChan, j) + Cardinality(Busy(j))
      BY <2>1, <2>4, <2>5
    <3>2. QED BY <2>3, <2>5, <3>1
  <2>7. Queued(j) + Batched(j) = IF Live(j) THEN 1 ELSE 0
    BY <1>0
  <2>8. CASE j = k
    <3>1. Lone({k}, j) = 1 /\ ~Live(j) /\ Live(j)'
      BY <2>2, <2>8 DEF Lone
    <3>2. QED BY <2>4, <2>5, <2>6, <2>7, <3>1
  <2>9. CASE j # k
    <3>1. Lone({k}, j) = 0 /\ (Live(j)' <=> Live(j))
      BY <2>2, <2>9 DEF Lone
    <3>2. QED BY <2>4, <2>5, <2>6, <2>7, <3>1
  <2>10. QED BY <2>8, <2>9
<1>2. ASSUME NEW k \in Jobs, Receive(k) PROVE Counted' /\ UNCHANGED monitors
  <2>1. PICK v \in {"returned", "failed", "panic"} : Received(k, v)
    BY <1>2 DEF Receive, Received, Verdict, Replies
  <2>2. UNCHANGED <<channel, bridge, jobQueue, held, jobChan, cur, pendingJobs, snap, monitors>>
    BY <1>2 DEF Receive
  <2>3. \A j \in Jobs : Queued(j)' = Queued(j) /\ Batched(j)' = Batched(j) /\ (Live(j)' <=> Live(j))
    BY <2>1, <2>2, QueuedKept, BatchedKept, LiveAfter
  <2>4. QED BY <1>0, <2>2, <2>3 DEF Counted
<1>3. CASE CloseJobChan \/ StopBatchFirst \/ StopManager \/ Stopped
  <2>1. Nothing /\ UNCHANGED <<channel, bridge, jobQueue, held, jobChan, cur, pendingJobs, snap,
                               monitors>>
    BY <1>3 DEF CloseJobChan, StopBatchFirst, StopBatch, StopManager, Stopped, Nothing, batchVars
  <2>2. \A j \in Jobs : Queued(j)' = Queued(j) /\ Batched(j)' = Batched(j) /\ (Live(j)' <=> Live(j))
    BY <2>1, QueuedKept, BatchedKept, LiveAfter
  <2>3. QED BY <1>0, <2>1, <2>2 DEF Counted
<1>4. CASE BridgeReceive \/ RouteToQueue \/ Dequeue \/ Feed
  <2>1. Nothing /\ UNCHANGED <<cur, pendingJobs, snap, monitors>>
    BY <1>4 DEF BridgeReceive, RouteToQueue, Dequeue, Feed, Nothing, batchVars
  <2> SUFFICES ASSUME NEW j \in Jobs PROVE Queued(j)' = Queued(j)
    <3>1. \A j \in Jobs : Batched(j)' = Batched(j) /\ (Live(j)' <=> Live(j))
      BY <2>1, BatchedKept, LiveAfter
    <3>2. QED BY <1>0, <2>1, <3>1 DEF Counted
  <2>2. Busy(j)' = Busy(j) /\ Lone({None}, j) = 0
    BY <2>1, LoneFacts DEF Busy
  <2>0. /\ Queued(j)' = Occ(channel', j) + Lone({bridge'}, j) + Lone(jobQueue', j)
                            + Lone({held'}, j) + Occ(jobChan', j) + Cardinality(Busy(j)')
        /\ Queued(j) = Occ(channel, j) + Lone({bridge}, j) + Lone(jobQueue, j)
                           + Lone({held}, j) + Occ(jobChan, j) + Cardinality(Busy(j))
        /\ Occ(channel, j) \in Nat /\ Occ(jobChan, j) \in Nat
        /\ Cardinality(Busy(j)) \in Nat /\ Batched(j) \in Nat /\ Queued(j) \in Nat
        /\ Lone({bridge}, j) \in Nat /\ Lone(jobQueue, j) \in Nat
        /\ Lone({held}, j) \in Nat
    BY <1>00, CountsAfter DEF Queued
  <2>3. CASE BridgeReceive
    <3>1. /\ bridge = None /\ bridge' = Head(channel) /\ channel' = Tail(channel)
          /\ channel # <<>> /\ UNCHANGED <<jobQueue, held, jobChan>>
      BY <2>3 DEF BridgeReceive
    <3>2. Occ(channel', j) = Occ(channel, j) - Lone({bridge'}, j)
      BY <1>0, <3>1, OccTail
    <3>3. Lone({bridge'}, j) \in Nat
      BY DEF Lone
    <3>4. QED BY <2>0, <2>2, <3>1, <3>2, <3>3
  <2>4. CASE RouteToQueue
    <3>1. /\ bridge \in Jobs /\ bridge' = None /\ jobQueue' = jobQueue \cup {bridge}
          /\ UNCHANGED <<channel, held, jobChan>>
      BY <1>0, <2>4 DEF RouteToQueue, Enqueue
    <3>2. bridge \notin jobQueue
      BY <3>1, NotQueuedTwice
    <3>3. Lone(jobQueue', j) = Lone(jobQueue, j) + Lone({bridge}, j)
      BY <3>1, <3>2, LoneFacts
    <3>4. QED BY <2>0, <2>2, <3>1, <3>3
  <2>5. CASE Dequeue
    <3>1. PICK k \in jobQueue : held' = k /\ jobQueue' = jobQueue \ {k}
      BY <2>5 DEF Dequeue
    <3>2. held = None /\ UNCHANGED <<channel, bridge, jobChan>>
      BY <2>5 DEF Dequeue
    <3>3. Lone(jobQueue', j) = Lone(jobQueue, j) - Lone({k}, j)
      BY <3>1, LoneFacts
    <3>4. Lone({k}, j) \in Nat /\ Lone({held'}, j) = Lone({k}, j) /\ Lone({held}, j) = 0
      BY <2>2, <3>1, <3>2 DEF Lone
    <3>5. QED BY <2>0, <2>2, <3>2, <3>3, <3>4
  <2>6. CASE Feed
    <3>1. /\ held \in Jobs /\ held' = None /\ jobChan' = Append(jobChan, held)
          /\ UNCHANGED <<channel, bridge, jobQueue>>
      BY <1>0, <2>6 DEF Feed
    <3>2. Occ(jobChan', j) = Occ(jobChan, j) + Lone({held}, j)
      BY <1>0, <3>1, OccAppend
    <3>3. QED BY <2>0, <2>2, <3>1, <3>2
  <2>7. QED BY <1>4, <2>3, <2>4, <2>5, <2>6
<1>5. QED BY <1>1, <1>2, <1>3, <1>4

\* Jobs move to and from the workers.
LEMMA CountedWorkers ==
    ASSUME PipelineIInv, NEW w \in Workers,
           \/ Take(w) \/ WorkerExit(w) \/ OverLimit(w) \/ Limited(w)
           \/ Success(w) \/ (wpc[w] = "call" /\ Fail(w))
           \/ RateLimited(w) \/ Transient(w) \/ Requeue(w)
    PROVE  Counted' /\ UNCHANGED monitors
<1>0. /\ Typed /\ jobChan \in Seq(Jobs) /\ jobQueue \subseteq Jobs
      /\ cur \in [Workers -> Jobs \cup {None}]
      /\ \A j \in Jobs : Queued(j) + Batched(j) = IF Live(j) THEN 1 ELSE 0
  BY DEF PipelineIInv, Typed, TypeOK, Counted
<1>1. UNCHANGED <<channel, bridge, held, pendingJobs, snap, monitors>>
  BY DEF Take, WorkerExit, OverLimit, Limited, Success, Fail, RateLimited, Transient, Requeue,
         batchVars, RestOfBatch
<1> SUFFICES ASSUME NEW j \in Jobs PROVE (Queued(j) + Batched(j) = IF Live(j) THEN 1 ELSE 0)'
  BY <1>1 DEF Counted
<1>2. /\ Queued(j)' = Occ(channel', j) + Lone({bridge'}, j) + Lone(jobQueue', j)
                          + Lone({held'}, j) + Occ(jobChan', j) + Cardinality(Busy(j)')
      /\ Queued(j) = Occ(channel, j) + Lone({bridge}, j) + Lone(jobQueue, j)
                         + Lone({held}, j) + Occ(jobChan, j) + Cardinality(Busy(j))
      /\ Occ(channel, j) \in Nat /\ Occ(jobChan, j) \in Nat
      /\ Cardinality(Busy(j)) \in Nat /\ Batched(j) \in Nat /\ Queued(j) \in Nat
      /\ Lone({bridge}, j) \in Nat /\ Lone(jobQueue, j) \in Nat
      /\ Lone({held}, j) \in Nat
  BY <1>0, Counts, CountsAfter DEF Queued, Lone
<1>3. Batched(j)' = Batched(j) /\ Queued(j) + Batched(j) = IF Live(j) THEN 1 ELSE 0
  BY <1>0, <1>1, BatchedKept
<1>4. CASE Take(w)
  <2>1. /\ jobChan # <<>> /\ jobChan' = Tail(jobChan) /\ wpc[w] = "idle"
        /\ cur' = [cur EXCEPT ![w] = Head(jobChan)] /\ jobQueue' = jobQueue /\ Nothing
    BY <1>4 DEF Take, Nothing, batchVars
  <2>2. cur[w] = None
    BY <2>1 DEF PipelineIInv, Holding
  <2>3. PICK k \in Jobs : k = Head(jobChan)
    BY <1>0, <2>1, EmptySeq
  <2>4. Cardinality(Busy(j)') = Cardinality(Busy(j)) + Lone({k}, j)
    BY <1>0, <2>1, <2>2, <2>3, BusyTake
  <2>5. Occ(jobChan', j) = Occ(jobChan, j) - Lone({k}, j) /\ Lone({k}, j) \in Nat
    BY <1>0, <2>1, <2>3, OccTail DEF Lone
  <2>6. Queued(j)' = Queued(j)
    BY <1>1, <1>2, <2>1, <2>4, <2>5
  <2>7. Live(j)' <=> Live(j)
    BY <2>1, LiveAfter
  <2>8. QED BY <1>3, <2>6, <2>7
<1>5. CASE WorkerExit(w) \/ Limited(w) \/ Transient(w)
  <2>1. Nothing /\ UNCHANGED <<channel, bridge, jobQueue, held, jobChan, cur>>
    BY <1>5 DEF WorkerExit, Limited, Transient, Nothing, batchVars
  <2>2. Queued(j)' = Queued(j) /\ (Live(j)' <=> Live(j))
    BY <2>1, QueuedKept, LiveAfter
  <2>3. QED BY <1>3, <2>2
<1>6. CASE OverLimit(w) \/ Success(w) \/ (wpc[w] = "call" /\ Fail(w))
  <2>1. PICK v \in Replies : Answered(cur[w], v)
    BY <1>6, WorkerAnswers
  <2>2. PICK k \in Jobs : k = cur[w]
    BY <1>6, WorkerAnswers
  <2>3. cur' = [cur EXCEPT ![w] = None] /\ UNCHANGED <<jobQueue, jobChan>>
    BY <1>6 DEF OverLimit, Success, Fail, WorkerDone
  <2>4. Cardinality(Busy(j)') = Cardinality(Busy(j)) - Lone({k}, j)
    BY <1>0, <2>2, <2>3, BusyDone
  <2>5. Live(k) /\ (Live(j)' <=> Live(j) /\ j # k)
    BY <2>1, <2>2, LiveAfter DEF Answered
  <2>6. CASE j = k
    <3>1. Lone({k}, j) = 1 /\ Live(j) /\ ~Live(j)'
      BY <2>5, <2>6 DEF Lone
    <3>2. QED BY <1>1, <1>2, <1>3, <2>3, <2>4, <3>1
  <2>7. CASE j # k
    <3>1. Lone({k}, j) = 0 /\ (Live(j)' <=> Live(j))
      BY <2>5, <2>7 DEF Lone
    <3>2. QED BY <1>1, <1>2, <1>3, <2>3, <2>4, <3>1
  <2>8. QED BY <2>6, <2>7
<1>7. CASE RateLimited(w) \/ Requeue(w)
  <2>1. PICK k \in Jobs : k = cur[w]
    BY <1>7, WorkerHolds DEF RateLimited, Requeue
  <2>2. /\ cur' = [cur EXCEPT ![w] = None] /\ jobQueue' = jobQueue \cup {k}
        /\ jobChan' = jobChan /\ Nothing
    BY <1>7, <2>1 DEF RateLimited, Requeue, Enqueue, WorkerDone, Nothing, batchVars
  <2>3. k \notin jobQueue
    BY <2>1, NotQueuedTwice
  <2>4. Lone(jobQueue', j) = Lone(jobQueue, j) + Lone({k}, j) /\ Lone({k}, j) \in Nat
    BY <2>2, <2>3, LoneFacts DEF Lone
  <2>5. Cardinality(Busy(j)') = Cardinality(Busy(j)) - Lone({k}, j)
    BY <1>0, <2>1, <2>2, BusyDone
  <2>6. Queued(j)' = Queued(j)
    BY <1>1, <1>2, <2>2, <2>4, <2>5
  <2>7. Live(j)' <=> Live(j)
    BY <2>2, LiveAfter
  <2>8. QED BY <1>3, <2>6, <2>7
<1>8. QED BY <1>4, <1>5, <1>6, <1>7

\* Jobs move from the bridge to the batch manager or back to the queue.
LEMMA CountedRoutes ==
    ASSUME PipelineIInv, RouteToBatch \/ BatchTook \/ BatchRefused
    PROVE  Counted' /\ UNCHANGED monitors
<1>0. /\ Typed /\ Holding /\ pendingJobs \in Seq(Jobs) /\ jobQueue \subseteq Jobs
      /\ bridge \in Jobs \cup {None} /\ None \notin Jobs /\ adding \in Jobs \cup {None}
      /\ \A j \in Jobs : Queued(j) + Batched(j) = IF Live(j) THEN 1 ELSE 0
  BY BatchAssumption DEF PipelineIInv, Typed, TypeOK, BatchTypeOK, Counted
<1>1. UNCHANGED <<channel, held, jobChan, cur, snap, monitors>> /\ Nothing
  BY DEF RouteToBatch, BatchTook, BatchRefused, AddJob, AddAfterFlush, AddFails, Nothing
<1> SUFFICES ASSUME NEW j \in Jobs PROVE Queued(j)' + Batched(j)' = Queued(j) + Batched(j)
  <2>1. \A j \in Jobs : Live(j)' <=> Live(j)
    BY <1>1, LiveAfter
  <2>2. QED BY <1>0, <1>1, <2>1 DEF Counted
<1>2. /\ Queued(j)' = Occ(channel', j) + Lone({bridge'}, j) + Lone(jobQueue', j)
                          + Lone({held'}, j) + Occ(jobChan', j) + Cardinality(Busy(j)')
      /\ Queued(j) = Occ(channel, j) + Lone({bridge}, j) + Lone(jobQueue, j)
                         + Lone({held}, j) + Occ(jobChan, j) + Cardinality(Busy(j))
      /\ Occ(channel, j) \in Nat /\ Occ(jobChan, j) \in Nat
      /\ Cardinality(Busy(j)) \in Nat /\ Batched(j) \in Nat /\ Queued(j) \in Nat
      /\ Lone({bridge}, j) \in Nat /\ Lone(jobQueue, j) \in Nat
      /\ Lone({held}, j) \in Nat
  BY <1>0, Counts, CountsAfter DEF Queued, Lone
<1>3. /\ Batched(j)' = Occ(pendingJobs', j) + Occ(snap["add"], j) + Occ(snap["routine"], j)
                         + Occ(snap["stop"], j) + Cardinality(Watch(monitors, j))
      /\ Batched(j) = Occ(pendingJobs, j) + Occ(snap["add"], j) + Occ(snap["routine"], j)
                        + Occ(snap["stop"], j) + Cardinality(Watch(monitors, j))
      /\ Occ(pendingJobs, j) \in Nat /\ Occ(snap["add"], j) \in Nat
      /\ Occ(snap["routine"], j) \in Nat /\ Occ(snap["stop"], j) \in Nat
      /\ Cardinality(Watch(monitors, j)) \in Nat
  BY <1>0, <1>1, Counts, CountsAfter DEF Batched, Flushers
<1>4. Busy(j)' = Busy(j) /\ Lone({None}, j) = 0
  BY <1>1, LoneFacts DEF Busy
<1>5. ASSUME bridge \in Jobs, bridge' = None, pendingJobs' = Append(pendingJobs, bridge),
             jobQueue' = jobQueue
      PROVE  Queued(j)' + Batched(j)' = Queued(j) + Batched(j)
  <2>1. Occ(pendingJobs', j) = Occ(pendingJobs, j) + Lone({bridge}, j)
    BY <1>0, <1>5, OccAppend
  <2>2. Batched(j)' = Batched(j) + Lone({bridge}, j)
    BY <1>2, <1>3, <2>1
  <2>3. bridge' = None /\ jobQueue' = jobQueue
    BY <1>5
  <2>4. Queued(j)' = Queued(j) - Lone({bridge}, j)
    BY <1>1, <1>2, <1>4, <2>3
  <2>5. QED BY <1>2, <2>2, <2>4
<1>6. CASE RouteToBatch
  <2>1. bridge \in Jobs /\ jobQueue' = jobQueue /\ AddJob(bridge)
        /\ bridge' = IF Exceeds(bridge) THEN bridge ELSE None
    BY <1>0, <1>6 DEF RouteToBatch
  <2>2. CASE Exceeds(bridge)
    <3>1. bridge' = bridge /\ pendingJobs' = pendingJobs
      BY <2>1, <2>2 DEF AddJob
    <3>2. QED BY <1>1, <1>2, <1>3, <1>4, <2>1, <3>1
  <2>3. CASE ~Exceeds(bridge)
    <3>1. bridge' = None /\ pendingJobs' = Append(pendingJobs, bridge)
      BY <2>1, <2>3 DEF AddJob, AppendJob
    <3>2. QED BY <1>5, <2>1, <3>1
  <2>4. QED BY <2>2, <2>3
<1>7. CASE BatchTook
  <2>1. adding = bridge /\ bridge \in Jobs
    BY <1>0, <1>7 DEF Holding, BatchTook, AddAfterFlush
  <2>2. bridge' = None /\ pendingJobs' = Append(pendingJobs, bridge) /\ jobQueue' = jobQueue
    BY <1>7, <2>1 DEF BatchTook, AddAfterFlush, AppendJob
  <2>3. QED BY <1>5, <2>1, <2>2
<1>8. CASE BatchRefused
  <2>1. bridge \in Jobs
    BY <1>0, <1>8 DEF Holding, BatchRefused, AddFails
  <2>2. bridge' = None /\ jobQueue' = jobQueue \cup {bridge} /\ pendingJobs' = pendingJobs
    BY <1>8 DEF BatchRefused, AddFails, Enqueue
  <2>3. bridge \notin jobQueue
    BY <2>1, NotQueuedTwice
  <2>4. Lone(jobQueue', j) = Lone(jobQueue, j) + Lone({bridge}, j)
    BY <2>2, <2>3, LoneFacts
  <2>5. QED BY <1>1, <1>2, <1>3, <1>4, <2>2, <2>4
<1>9. QED BY <1>6, <1>7, <1>8

\* A flusher takes jobs or gives them away.
LEMMA SnapSum ==
    ASSUME snap \in [Flushers -> Seq(Jobs)], NEW f \in Flushers, NEW t \in Seq(Jobs),
           snap' = [snap EXCEPT ![f] = t], NEW j \in Jobs
    PROVE  Occ(snap'["add"], j) + Occ(snap'["routine"], j) + Occ(snap'["stop"], j)
             = Occ(snap["add"], j) + Occ(snap["routine"], j) + Occ(snap["stop"], j)
                 - Occ(snap[f], j) + Occ(t, j)
<1>1. /\ Occ(snap["add"], j) \in Nat /\ Occ(snap["routine"], j) \in Nat
      /\ Occ(snap["stop"], j) \in Nat /\ Occ(t, j) \in Nat
  BY OccType DEF Flushers
<1>2. CASE f = "add"
  <2>1. snap'["add"] = t /\ snap'["routine"] = snap["routine"] /\ snap'["stop"] = snap["stop"]
    BY <1>2 DEF Flushers
  <2>2. QED BY <1>1, <1>2, <2>1
<1>3. CASE f = "routine"
  <2>1. snap'["add"] = snap["add"] /\ snap'["routine"] = t /\ snap'["stop"] = snap["stop"]
    BY <1>3 DEF Flushers
  <2>2. QED BY <1>1, <1>3, <2>1
<1>4. CASE f = "stop"
  <2>1. snap'["add"] = snap["add"] /\ snap'["routine"] = snap["routine"] /\ snap'["stop"] = t
    BY <1>4 DEF Flushers
  <2>2. QED BY <1>1, <1>4, <2>1
<1>5. QED BY <1>2, <1>3, <1>4 DEF Flushers

\* Jobs put together into a batch move with it, and a flush that fails gives them all up.
LEMMA CountedFlushes ==
    ASSUME PipelineIInv, UNCHANGED orchVars, NEW f \in Flushers,
           Snapshot(f) \/ Convert(f) \/ UploadFile(f) \/ CreateBatch(f)
    PROVE  Counted' /\ \A j \in Jobs : IsFiniteSet(Watch(monitors', j))
<1>0. /\ Typed /\ Holding /\ pendingJobs \in Seq(Jobs) /\ snap \in [Flushers -> Seq(Jobs)]
      /\ <<>> \in Seq(Jobs) /\ snap[f] \in Seq(Jobs)
      /\ \A j \in Jobs : Queued(j) + Batched(j) = IF Live(j) THEN 1 ELSE 0
      /\ \A j \in Jobs : IsFiniteSet(Watch(monitors, j))
      /\ \A b \in monitors : b.jobs \in Seq(Jobs)
  BY DEF PipelineIInv, Typed, TypeOK, BatchTypeOK, Counted
<1>1. UNCHANGED <<channel, bridge, jobQueue, held, jobChan, cur>>
  BY DEF orchVars
<1> DEFINE Snaps(j) == Occ(snap["add"], j) + Occ(snap["routine"], j) + Occ(snap["stop"], j)
<1>2. \A j \in Jobs : /\ Queued(j)' = Queued(j) /\ Queued(j) \in Nat
                      /\ Occ(pendingJobs, j) \in Nat /\ Occ(snap["add"], j) \in Nat
                      /\ Occ(snap["routine"], j) \in Nat /\ Occ(snap["stop"], j) \in Nat
                      /\ Occ(snap[f], j) \in Nat /\ Cardinality(Watch(monitors, j)) \in Nat
                      /\ Occ(<<>>, j) = 0 /\ Batched(j) \in Nat
  BY <1>0, <1>1, QueuedKept, Counts, OccEmpty DEF Flushers
<1>3. ASSUME NEW j \in Jobs
      PROVE  /\ Batched(j)' = Occ(pendingJobs', j) + Occ(snap'["add"], j) + Occ(snap'["routine"], j)
                                + Occ(snap'["stop"], j) + Cardinality(Watch(monitors', j))
             /\ Batched(j) = Occ(pendingJobs, j) + Snaps(j) + Cardinality(Watch(monitors, j))
             /\ Occ(pendingJobs, j) \in Nat /\ Snaps(j) \in Nat
             /\ Cardinality(Watch(monitors, j)) \in Nat /\ Occ(<<>>, j) = 0
             /\ Occ(snap[f], j) \in Nat
             /\ \A t \in Seq(Jobs) : snap' = [snap EXCEPT ![f] = t] =>
                  Occ(snap'["add"], j) + Occ(snap'["routine"], j) + Occ(snap'["stop"], j)
                    = Snaps(j) - Occ(snap[f], j) + Occ(t, j)
  <2>1. Batched(j)' = Occ(pendingJobs', j) + Occ(snap'["add"], j) + Occ(snap'["routine"], j)
                                + Occ(snap'["stop"], j) + Cardinality(Watch(monitors', j))
    BY CountsAfter
  <2>2. Batched(j) = Occ(pendingJobs, j) + Snaps(j) + Cardinality(Watch(monitors, j)) /\ Snaps(j) \in Nat
    BY <1>2 DEF Batched
  <2>3. \A t \in Seq(Jobs) : snap' = [snap EXCEPT ![f] = t] =>
                  Occ(snap'["add"], j) + Occ(snap'["routine"], j) + Occ(snap'["stop"], j)
                    = Snaps(j) - Occ(snap[f], j) + Occ(t, j)
    <3> SUFFICES ASSUME NEW t \in Seq(Jobs), snap' = [snap EXCEPT ![f] = t]
                 PROVE  Occ(snap'["add"], j) + Occ(snap'["routine"], j) + Occ(snap'["stop"], j)
                          = Snaps(j) - Occ(snap[f], j) + Occ(t, j)
      OBVIOUS
    <3>1. Occ(snap'["add"], j) + Occ(snap'["routine"], j) + Occ(snap'["stop"], j)
             = Occ(snap["add"], j) + Occ(snap["routine"], j) + Occ(snap["stop"], j)
                 - Occ(snap[f], j) + Occ(t, j)
      BY <1>0, SnapSum
    <3>2. /\ Occ(snap["add"], j) \in Nat /\ Occ(snap["routine"], j) \in Nat
          /\ Occ(snap["stop"], j) \in Nat /\ Occ(snap[f], j) \in Nat /\ Occ(t, j) \in Nat
      BY <1>2, OccType
    <3>3. QED BY <3>1, <3>2
  <2>4. QED BY <1>2, <2>1, <2>2, <2>3
<1> HIDE DEF Snaps
<1>4. ASSUME Nothing, UNCHANGED monitors, \A j \in Jobs : Batched(j)' = Batched(j)
      PROVE  Counted' /\ \A j \in Jobs : IsFiniteSet(Watch(monitors', j))
  <2>1. \A j \in Jobs : Live(j)' <=> Live(j)
    BY <1>4, LiveAfter
  <2>2. QED BY <1>0, <1>2, <1>4, <2>1 DEF Counted
<1>5. CASE Snapshot(f)
  <2>1. Nothing /\ UNCHANGED monitors /\ fpc[f] = "snapshot"
    BY <1>5 DEF Snapshot, Nothing, orchVars
  <2>2. CASE pendingJobs = <<>>
    <3>1. UNCHANGED <<pendingJobs, snap, monitors>>
      BY <1>5, <2>2 DEF Snapshot
    <3>2. QED BY <1>4, <2>1, <3>1, BatchedKept
  <2>3. CASE pendingJobs # <<>>
    <3>1. snap' = [snap EXCEPT ![f] = pendingJobs] /\ pendingJobs' = <<>>
      BY <1>5, <2>3 DEF Snapshot
    <3>2. snap[f] = <<>>
      BY <1>0, <2>1 DEF Holding
    <3>3. ASSUME NEW j \in Jobs PROVE Batched(j)' = Batched(j)
      <4>1. Occ(snap'["add"], j) + Occ(snap'["routine"], j) + Occ(snap'["stop"], j)
              = Snaps(j) + Occ(pendingJobs, j)
        <5>1. Occ(snap'["add"], j) + Occ(snap'["routine"], j) + Occ(snap'["stop"], j)
                = Snaps(j) - Occ(snap[f], j) + Occ(pendingJobs, j)
          BY <1>0, <1>3, <3>1
        <5>2. Occ(snap[f], j) = 0
          BY <3>2, OccEmpty
        <5>3. QED BY <1>3, <5>1, <5>2
      <4>2. Occ(pendingJobs', j) = 0 /\ monitors' = monitors
        BY <2>1, <3>1, OccEmpty
      <4>3. /\ Occ(snap'["add"], j) \in Nat /\ Occ(snap'["routine"], j) \in Nat
            /\ Occ(snap'["stop"], j) \in Nat
        BY <1>0, <3>1, OccType DEF Flushers
      <4>4. QED BY <1>3, <4>1, <4>2, <4>3
    <3>4. QED BY <1>4, <2>1, <3>3
  <2>4. QED BY <2>2, <2>3
<1>6. CASE Convert(f)
  <2>1. Nothing /\ UNCHANGED monitors
    BY <1>6 DEF Convert, Nothing, orchVars
  <2>2. CASE UNCHANGED <<pendingJobs, snap>>
    BY <1>4, <2>1, <2>2, BatchedKept
  <2>3. CASE pendingJobs' = pendingJobs \o snap[f] /\ snap' = [snap EXCEPT ![f] = <<>>]
    <3>1. ASSUME NEW j \in Jobs PROVE Batched(j)' = Batched(j)
      <4>1. Occ(snap'["add"], j) + Occ(snap'["routine"], j) + Occ(snap'["stop"], j)
              = Snaps(j) - Occ(snap[f], j)
        <5>1. Occ(snap'["add"], j) + Occ(snap'["routine"], j) + Occ(snap'["stop"], j)
                = Snaps(j) - Occ(snap[f], j) + Occ(<<>>, j)
          BY <1>0, <1>3, <2>3
        <5>2. QED BY <1>3, <5>1
      <4>2. Occ(pendingJobs', j) = Occ(pendingJobs, j) + Occ(snap[f], j)
        BY <1>0, <2>3, OccConcat
      <4>3. /\ Occ(snap'["add"], j) \in Nat /\ Occ(snap'["routine"], j) \in Nat
            /\ Occ(snap'["stop"], j) \in Nat
        BY <1>0, <2>3, OccType DEF Flushers
      <4>4. QED BY <1>3, <2>1, <4>1, <4>2, <4>3, SMTT(40)
    <3>2. QED BY <1>4, <2>1, <3>1
  <2>4. QED BY <1>6, <2>2, <2>3 DEF Convert
<1>7. CASE Forget(f) /\ UNCHANGED <<pendingJobs, monitors, result>>
  <2>1. ToSet(snap[f]) \in SUBSET Jobs /\ GivenUp(ToSet(snap[f]))
    BY <1>7, FlushGivesUp DEF orchVars
  <2>2. ASSUME NEW j \in Jobs PROVE Queued(j)' + Batched(j)' = IF Live(j)' THEN 1 ELSE 0
    <3>1. snap' = [snap EXCEPT ![f] = <<>>]
      BY <1>7 DEF Forget
    <3>2. Occ(snap'["add"], j) + Occ(snap'["routine"], j) + Occ(snap'["stop"], j)
            = Snaps(j) - Occ(snap[f], j)
      <4>1. Occ(snap'["add"], j) + Occ(snap'["routine"], j) + Occ(snap'["stop"], j)
              = Snaps(j) - Occ(snap[f], j) + Occ(<<>>, j)
        BY <1>0, <1>3, <3>1
      <4>2. QED BY <1>3, <4>1
    <3>3. /\ Occ(snap'["add"], j) \in Nat /\ Occ(snap'["routine"], j) \in Nat
          /\ Occ(snap'["stop"], j) \in Nat
      BY <1>0, <3>1, OccType DEF Flushers
    <3>4. Batched(j)' = Batched(j) - Occ(snap[f], j)
      <4>1. pendingJobs' = pendingJobs /\ monitors' = monitors
        BY <1>7
      <4>2. /\ Batched(j)' = Occ(pendingJobs, j) + Occ(snap'["add"], j) + Occ(snap'["routine"], j)
                                + Occ(snap'["stop"], j) + Cardinality(Watch(monitors, j))
            /\ Batched(j) = Occ(pendingJobs, j) + Snaps(j) + Cardinality(Watch(monitors, j))
            /\ Occ(pendingJobs, j) \in Nat /\ Snaps(j) \in Nat /\ Occ(snap[f], j) \in Nat
            /\ Cardinality(Watch(monitors, j)) \in Nat
        BY <1>3, <4>1
      <4>3. QED BY <3>2, <3>3, <4>2
    <3>5. Live(j)' <=> Live(j) /\ j \notin ToSet(snap[f])
      BY <2>1, LiveAfter
    <3>6. Queued(j) + Batched(j) = IF Live(j) THEN 1 ELSE 0
      BY <1>0
    <3>7. CASE j \in ToSet(snap[f])
      <4>1. Live(j) /\ ~Live(j)'
        BY <2>1, <3>5, <3>7 DEF GivenUp
      <4>2. Occ(snap[f], j) # 0
        BY <1>0, <3>7, OccType DEF ToSet
      <4>3. Occ(snap[f], j) <= Snaps(j)
        BY <1>3, <3>2, <3>3
      <4>4. QED BY <1>2, <1>3, <3>4, <3>6, <4>1, <4>2, <4>3, SMTT(40)
    <3>8. CASE j \notin ToSet(snap[f])
      <4>1. Live(j)' <=> Live(j)
        BY <3>5, <3>8
      <4>2. Occ(snap[f], j) = 0
        BY <1>0, <3>8, OccType DEF ToSet
      <4>3. QED BY <1>2, <1>3, <3>4, <3>6, <4>1, <4>2
    <3>9. QED BY <3>7, <3>8
  <2>3. QED BY <1>0, <1>7, <2>2 DEF Counted
<1>8. CASE UploadFile(f)
  <2>1. CASE UNCHANGED <<snap, dropped>>
    <3>1. Nothing /\ UNCHANGED <<pendingJobs, snap, monitors>>
      BY <1>8, <2>1 DEF UploadFile, Nothing, orchVars
    <3>2. QED BY <1>4, <3>1, BatchedKept
  <2>2. QED BY <1>7, <1>8, <2>1 DEF UploadFile
<1>9. CASE CreateBatch(f)
  <2>1. PICK c : c = [at |-> "wait", jobs |-> snap[f], calls |-> 0]
    OBVIOUS
  <2>2. UNCHANGED <<pendingJobs, result>> /\ fpc[f] = "create"
        /\ \/ snap' = [snap EXCEPT ![f] = <<>>] /\ monitors' = monitors \cup {c} /\ UNCHANGED dropped
           \/ Forget(f) /\ UNCHANGED monitors
    BY <1>9, <2>1 DEF CreateBatch
  <2>3. CASE snap' = [snap EXCEPT ![f] = <<>>] /\ monitors' = monitors \cup {c} /\ UNCHANGED dropped
    <3>1. c.jobs = snap[f] /\ c.jobs \in Seq(Jobs) /\ c.jobs # <<>>
      BY <1>0, <2>1, <2>2 DEF Holding
    <3>2. c \notin monitors
      <4>1. SUFFICES ASSUME c \in monitors PROVE FALSE
        OBVIOUS
      <4>2. PICK k \in Jobs : k = c.jobs[1] /\ Occ(c.jobs, k) # 0
        <5>1. c.jobs[1] \in Jobs /\ 1 \in DOMAIN c.jobs
          BY <3>1, EmptySeq
        <5>2. QED BY <3>1, <5>1, OccType
      <4>3. Cardinality(Watch(monitors, k)) # 0
        <5>1. Cardinality(Watch(monitors, k)) = Cardinality(Watch(monitors \ {c}, k)) + Occ(c.jobs, k)
              /\ Cardinality(Watch(monitors \ {c}, k)) \in Nat
          BY <1>0, <3>1, <4>1, WatchRemove
        <5>2. Occ(c.jobs, k) \in Nat
          BY <3>1, OccType
        <5>3. QED BY <4>2, <5>1, <5>2
      <4>4. Snaps(k) >= 1
        <5>1. Occ(snap["add"], k) + Occ(snap["routine"], k) + Occ(snap["stop"], k) >= Occ(snap[f], k)
          BY <1>2 DEF Flushers
        <5>2. Occ(snap[f], k) \in Nat /\ Occ(snap[f], k) # 0
          BY <1>2, <3>1, <4>2
        <5>3. Occ(snap["add"], k) + Occ(snap["routine"], k) + Occ(snap["stop"], k) \in Nat
          BY <1>2
        <5>4. QED BY <5>1, <5>2, <5>3 DEF Snaps
      <4>5. Queued(k) + Batched(k) <= 1
        BY <1>0
      <4>6. QED BY <1>2, <1>3, <4>3, <4>4, <4>5
    <3>3. Nothing
      BY <2>2, <2>3 DEF Nothing, orchVars
    <3>4. ASSUME NEW j \in Jobs
          PROVE  Batched(j)' = Batched(j) /\ IsFiniteSet(Watch(monitors', j))
      <4>1. /\ IsFiniteSet(Watch(monitors', j))
            /\ Cardinality(Watch(monitors', j)) = Cardinality(Watch(monitors, j)) + Occ(snap[f], j)
        BY <1>0, <2>3, <3>1, <3>2, WatchAdd
      <4>2. Occ(snap'["add"], j) + Occ(snap'["routine"], j) + Occ(snap'["stop"], j)
              = Snaps(j) - Occ(snap[f], j)
        <5>1. Occ(snap'["add"], j) + Occ(snap'["routine"], j) + Occ(snap'["stop"], j)
                = Snaps(j) - Occ(snap[f], j) + Occ(<<>>, j)
          BY <1>0, <1>3, <2>3
        <5>2. QED BY <1>3, <5>1
      <4>3. /\ Occ(snap'["add"], j) \in Nat /\ Occ(snap'["routine"], j) \in Nat
            /\ Occ(snap'["stop"], j) \in Nat
        BY <1>0, <2>3, OccType DEF Flushers
      <4>4. pendingJobs' = pendingJobs
        BY <2>2
      <4>5. QED BY <1>3, <4>1, <4>2, <4>3, <4>4, SMTT(40)
    <3>5. \A j \in Jobs : Live(j)' <=> Live(j)
      BY <3>3, LiveAfter
    <3>6. QED BY <1>0, <1>2, <3>4, <3>5 DEF Counted
  <2>4. QED BY <1>7, <2>2, <2>3
<1>10. QED BY <1>5, <1>6, <1>8, <1>9

\* The record a monitor goes on with is no other monitor's.
LEMMA FreshMonitor ==
    ASSUME PipelineIInv, NEW b \in monitors, NEW c, c.jobs \in Seq(Jobs), c.jobs # <<>>,
           ToSet(c.jobs) \subseteq ToSet(b.jobs)
    PROVE  c \notin monitors \ {b}
<1> SUFFICES ASSUME c \in monitors, c # b PROVE FALSE
  OBVIOUS
<1>1. b.jobs \in Seq(Jobs)
  BY BatchHolds
<1>2. PICK k \in Jobs : k = c.jobs[1] /\ 1 \in DOMAIN c.jobs
  BY EmptySeq
<1>3. Occ(c.jobs, k) # 0
  BY <1>2, OccType
<1>4. k \in ToSet(b.jobs)
  BY <1>2 DEF ToSet
<1>5. Occ(b.jobs, k) # 0
  BY <1>1, <1>4, OccType DEF ToSet
<1>6. /\ Typed /\ IsFiniteSet(Watch(monitors, k)) /\ Queued(k) + Batched(k) <= 1
  BY DEF PipelineIInv, Typed, Counted
<1>7. Cardinality(Watch(monitors, k)) >= 2
  BY <1>1, <1>3, <1>5, <1>6, WatchTwice
<1>8. /\ Queued(k) \in Nat /\ Occ(pendingJobs, k) \in Nat /\ Occ(snap["add"], k) \in Nat
      /\ Occ(snap["routine"], k) \in Nat /\ Occ(snap["stop"], k) \in Nat
      /\ Cardinality(Watch(monitors, k)) \in Nat
  BY <1>6, Counts DEF Flushers
<1>9. QED BY <1>6, <1>7, <1>8 DEF Batched

\* The monitor of b goes on for the jobs js.
Continues(b, js) == \E c : c.jobs = js /\ c \notin monitors \ {b} /\ Advance(b, c)

\* What a step of a monitor does: it goes on with its jobs, gives them all up, or is done with
\* the first, which it has answered or given up.
LEMMA MonitorMoves ==
    ASSUME PipelineIInv, UNCHANGED orchVars, NEW b \in monitors,
           \/ \E status \in BatchStatus : WaitForBatch(b, status)
           \/ ReadBatchResponses(b) \/ BatchFails(b)
           \/ \E status \in WebhookStatuses : NotifyBatchComplete(b, status)
           \/ BatchAnswers(b)
    PROVE  \/ Nothing /\ (monitors' = monitors \/ Continues(b, b.jobs))
           \/ GivenUp(ToSet(b.jobs)) /\ monitors' = monitors \ {b}
           \/ /\ (\E v \in Replies : Answered(Head(b.jobs), v)) \/ GivenUp({Head(b.jobs)})
              /\ \/ Tail(b.jobs) = <<>> /\ monitors' = monitors \ {b}
                 \/ Continues(b, Tail(b.jobs))
<1>0. b \in [at : {"wait", "read", "notify", "answer"}, jobs : Seq(Jobs) \ {<<>>},
             calls : 0 .. RetryAttempts + 1]
  BY DEF PipelineIInv, Typed, TypeOK, BatchTypeOK
<1>1. UNCHANGED <<submit, outcome>>
  BY DEF orchVars
<1>2. /\ b.jobs \in Seq(Jobs) /\ b.jobs # <<>> /\ Head(b.jobs) \in ToSet(b.jobs)
      /\ ToSet(b.jobs) \subseteq Jobs /\ \A j \in ToSet(b.jobs) : Live(j)
  BY BatchHolds
<1>3. ASSUME NEW c, c.jobs = b.jobs, Advance(b, c) PROVE Continues(b, b.jobs)
  <2>1. c \notin monitors \ {b}
    BY <1>2, <1>3, FreshMonitor
  <2>2. QED BY <1>3, <2>1 DEF Continues
<1>4. ASSUME UNCHANGED result, GiveUp(b) PROVE GivenUp(ToSet(b.jobs)) /\ monitors' = monitors \ {b}
  BY <1>1, <1>2, <1>4 DEF GiveUp, GivenUp
<1>5. CASE \E status \in BatchStatus : WaitForBatch(b, status)
  <2>1. [b EXCEPT !.at = "read"].jobs = b.jobs
    BY <1>0
  <2>2. /\ UNCHANGED result
        /\ \/ Advance(b, [b EXCEPT !.at = "read"]) /\ UNCHANGED dropped
           \/ GiveUp(b)
           \/ UNCHANGED <<monitors, dropped>>
    BY <1>5 DEF WaitForBatch
  <2>3. QED BY <1>1, <1>3, <1>4, <2>1, <2>2 DEF Nothing
<1>6. CASE ReadBatchResponses(b)
  <2>1. PICK a : Advance(b, [b EXCEPT !.at = a])
    BY <1>6 DEF ReadBatchResponses
  <2>2. [b EXCEPT !.at = a].jobs = b.jobs
    BY <1>0
  <2>3. QED BY <1>1, <1>3, <1>6, <2>1, <2>2 DEF ReadBatchResponses, Nothing
<1>7. CASE BatchFails(b)
  BY <1>4, <1>7 DEF BatchFails
<1>8. CASE \E status \in WebhookStatuses : NotifyBatchComplete(b, status)
  <2>1. PICK c : c = [b EXCEPT !.calls = @ + 1]
    OBVIOUS
  <2>2. PICK d : d = [c EXCEPT !.at = "answer"]
    OBVIOUS
  <2>3. (Advance(b, d) \/ Advance(b, c)) /\ UNCHANGED <<result, dropped>>
    BY <1>8, <2>1, <2>2 DEF NotifyBatchComplete
  <2>4. c.jobs = b.jobs /\ d.jobs = b.jobs
    BY <1>0, <2>1, <2>2
  <2>5. QED BY <1>1, <1>3, <2>3, <2>4 DEF Nothing
<1>9. CASE BatchAnswers(b)
  <2>1. (\E v \in Replies : Answered(Head(b.jobs), v)) \/ GivenUp({Head(b.jobs)})
    <3>1. PICK j \in Jobs : j = Head(b.jobs) /\ Live(j)
      BY <1>2
    <3>2. \/ Send(j, "chat") /\ UNCHANGED dropped
          \/ dropped' = dropped \cup {j} /\ UNCHANGED result
      BY <1>9, <3>1 DEF BatchAnswers
    <3>3. CASE Send(j, "chat") /\ UNCHANGED dropped
      <4>1. result' = [result EXCEPT ![j] = "chat"]
        BY <3>1, <3>3 DEF Send, Live
      <4>2. QED BY <1>1, <3>1, <3>3, <4>1 DEF Answered, Replies
    <3>4. CASE dropped' = dropped \cup {j} /\ UNCHANGED result
      BY <1>1, <3>1, <3>4 DEF GivenUp
    <3>5. QED BY <3>2, <3>3, <3>4
  <2>2. CASE Tail(b.jobs) = <<>>
    BY <1>9, <2>1, <2>2 DEF BatchAnswers
  <2>3. CASE Tail(b.jobs) # <<>>
    <3>1. PICK c : c = [b EXCEPT !.jobs = Tail(@)]
      OBVIOUS
    <3>2. c.jobs = Tail(b.jobs) /\ Advance(b, c)
      BY <1>0, <1>9, <2>3, <3>1 DEF BatchAnswers
    <3>3. /\ Tail(b.jobs) \in Seq(Jobs) /\ Len(Tail(b.jobs)) = Len(b.jobs) - 1
          /\ \A i \in 1 .. Len(Tail(b.jobs)) : Tail(b.jobs)[i] = b.jobs[i + 1]
      BY <1>2, EmptySeq
    <3>4. ToSet(Tail(b.jobs)) \subseteq ToSet(b.jobs)
      BY <1>2, <3>3 DEF ToSet
    <3>5. c \notin monitors \ {b}
      BY <2>3, <3>2, <3>3, <3>4, FreshMonitor
    <3>6. QED BY <2>1, <3>2, <3>5 DEF Continues
  <2>4. QED BY <2>2, <2>3
<1>10. QED BY <1>5, <1>6, <1>7, <1>8, <1>9

\* What becomes of the counts of the batches when a monitor goes on, or ends.
LEMMA WatchAfter ==
    ASSUME PipelineIInv, NEW b \in monitors, NEW j \in Jobs
    PROVE  /\ monitors' = monitors \ {b} =>
                /\ IsFiniteSet(Watch(monitors', j))
                /\ Cardinality(Watch(monitors', j)) = Cardinality(Watch(monitors, j)) - Occ(b.jobs, j)
           /\ \A js \in Seq(Jobs) : Continues(b, js) =>
                /\ IsFiniteSet(Watch(monitors', j))
                /\ Cardinality(Watch(monitors', j))
                     = Cardinality(Watch(monitors, j)) - Occ(b.jobs, j) + Occ(js, j)
<1>1. b.jobs \in Seq(Jobs) /\ IsFiniteSet(Watch(monitors, j))
  BY BatchHolds DEF PipelineIInv, Typed
<1>2. ASSUME monitors' = monitors \ {b}
      PROVE  /\ IsFiniteSet(Watch(monitors', j))
             /\ Cardinality(Watch(monitors', j)) = Cardinality(Watch(monitors, j)) - Occ(b.jobs, j)
  <2>1. /\ IsFiniteSet(Watch(monitors \ {b}, j)) /\ Cardinality(Watch(monitors \ {b}, j)) \in Nat
        /\ Cardinality(Watch(monitors, j)) = Cardinality(Watch(monitors \ {b}, j)) + Occ(b.jobs, j)
    BY <1>1, WatchRemove
  <2>2. Occ(b.jobs, j) \in Nat
    BY <1>1, OccType
  <2>3. QED BY <1>2, <2>1, <2>2
<1>3. ASSUME NEW js \in Seq(Jobs), Continues(b, js)
      PROVE  /\ IsFiniteSet(Watch(monitors', j))
             /\ Cardinality(Watch(monitors', j))
                  = Cardinality(Watch(monitors, j)) - Occ(b.jobs, j) + Occ(js, j)
  <2>1. PICK c : c.jobs = js /\ c \notin monitors \ {b} /\ monitors' = (monitors \ {b}) \cup {c}
    BY <1>3 DEF Continues, Advance
  <2>2. QED BY <1>1, <2>1, WatchAdvance
<1>4. QED BY <1>2, <1>3

\* A monitor keeps the account of its jobs.
LEMMA CountedMonitors ==
    ASSUME PipelineIInv, UNCHANGED orchVars, NEW b \in monitors,
           \/ \E status \in BatchStatus : WaitForBatch(b, status)
           \/ ReadBatchResponses(b) \/ BatchFails(b)
           \/ \E status \in WebhookStatuses : NotifyBatchComplete(b, status)
           \/ BatchAnswers(b)
    PROVE  Counted' /\ \A j \in Jobs : IsFiniteSet(Watch(monitors', j))
<1>1. /\ UNCHANGED <<channel, bridge, jobQueue, held, jobChan, cur>>
      /\ UNCHANGED <<pendingJobs, snap>>
  BY DEF orchVars, WaitForBatch, ReadBatchResponses, BatchFails, NotifyBatchComplete,
         BatchAnswers, RestOfMonitor
<1>2. /\ b.jobs \in Seq(Jobs) /\ b.jobs # <<>> /\ Head(b.jobs) \in ToSet(b.jobs)
      /\ ToSet(b.jobs) \in SUBSET Jobs /\ \A j \in ToSet(b.jobs) : Live(j)
  BY BatchHolds
<1> SUFFICES ASSUME NEW j \in Jobs
             PROVE  /\ Queued(j)' + Batched(j)' = IF Live(j)' THEN 1 ELSE 0
                    /\ IsFiniteSet(Watch(monitors', j))
  BY DEF Counted
<1>3. /\ Typed /\ Queued(j) + Batched(j) = (IF Live(j) THEN 1 ELSE 0)
      /\ IsFiniteSet(Watch(monitors, j))
  BY DEF PipelineIInv, Typed, Counted
<1>4. /\ Queued(j) \in Nat /\ Occ(pendingJobs, j) \in Nat /\ Occ(snap["add"], j) \in Nat
      /\ Occ(snap["routine"], j) \in Nat /\ Occ(snap["stop"], j) \in Nat
      /\ Cardinality(Watch(monitors, j)) \in Nat /\ Batched(j) \in Nat
  BY <1>3, Counts DEF Flushers
<1>5. /\ Queued(j)' = Queued(j)
      /\ Batched(j)' = Occ(pendingJobs, j) + Occ(snap["add"], j) + Occ(snap["routine"], j)
                         + Occ(snap["stop"], j) + Cardinality(Watch(monitors', j))
  BY <1>1, QueuedKept, CountsAfter
<1>6. Batched(j) = Occ(pendingJobs, j) + Occ(snap["add"], j) + Occ(snap["routine"], j)
                     + Occ(snap["stop"], j) + Cardinality(Watch(monitors, j))
  BY DEF Batched
<1>7. Occ(b.jobs, j) \in Nat /\ (Occ(b.jobs, j) = 0 <=> j \notin ToSet(b.jobs))
  BY <1>2, OccType DEF ToSet
<1>8. ASSUME NEW n \in Nat, IsFiniteSet(Watch(monitors', j)),
             Cardinality(Watch(monitors', j)) = Cardinality(Watch(monitors, j)) - n
      PROVE  Batched(j)' = Batched(j) - n
  BY <1>4, <1>5, <1>6, <1>8
<1>9. CASE Nothing /\ (monitors' = monitors \/ Continues(b, b.jobs))
  <2>1. /\ IsFiniteSet(Watch(monitors', j))
        /\ Cardinality(Watch(monitors', j)) = Cardinality(Watch(monitors, j)) - 0
    BY <1>2, <1>3, <1>4, <1>7, <1>9, WatchAfter
  <2>2. Batched(j)' = Batched(j) - 0 /\ (Live(j)' <=> Live(j))
    BY <1>8, <1>9, <2>1, LiveAfter
  <2>3. QED BY <1>3, <1>4, <1>5, <2>1, <2>2
<1>10. CASE GivenUp(ToSet(b.jobs)) /\ monitors' = monitors \ {b}
  <2>1. /\ IsFiniteSet(Watch(monitors', j))
        /\ Cardinality(Watch(monitors', j)) = Cardinality(Watch(monitors, j)) - Occ(b.jobs, j)
    BY <1>10, WatchAfter
  <2>2. Batched(j)' = Batched(j) - Occ(b.jobs, j)
    BY <1>7, <1>8, <2>1
  <2>3. Live(j)' <=> Live(j) /\ j \notin ToSet(b.jobs)
    BY <1>2, <1>10, LiveAfter
  <2>4. CASE j \in ToSet(b.jobs)
    <3>1. Live(j) /\ ~Live(j)' /\ Occ(b.jobs, j) # 0
      BY <1>2, <1>7, <2>3, <2>4
    <3>2. Occ(b.jobs, j) <= Batched(j)
      <4>1. Cardinality(Watch(monitors', j)) \in Nat
        BY <2>1, FS_CardinalityType
      <4>2. QED BY <1>4, <1>6, <1>7, <2>1, <4>1
    <3>3. Queued(j) + Batched(j) = 1
      BY <1>3, <3>1
    <3>4. Queued(j) = 0 /\ Batched(j) = Occ(b.jobs, j)
      BY <1>4, <1>7, <3>1, <3>2, <3>3
    <3>5. Queued(j)' + Batched(j)' = 0
      BY <1>4, <1>5, <1>7, <2>2, <3>4
    <3>6. QED BY <2>1, <3>1, <3>5
  <2>5. CASE j \notin ToSet(b.jobs)
    <3>1. (Live(j)' <=> Live(j)) /\ Occ(b.jobs, j) = 0
      BY <1>7, <2>3, <2>5
    <3>2. QED BY <1>3, <1>4, <1>5, <2>1, <2>2, <3>1
  <2>6. QED BY <2>4, <2>5
<1>11. CASE /\ (\E v \in Replies : Answered(Head(b.jobs), v)) \/ GivenUp({Head(b.jobs)})
            /\ \/ Tail(b.jobs) = <<>> /\ monitors' = monitors \ {b}
               \/ Continues(b, Tail(b.jobs))
  <2>1. PICK h \in Jobs : h = Head(b.jobs) /\ Live(h)
    BY <1>2
  <2>2. /\ Tail(b.jobs) \in Seq(Jobs) /\ Lone({h}, j) \in Nat
        /\ Occ(Tail(b.jobs), j) = Occ(b.jobs, j) - Lone({h}, j)
    BY <1>2, <2>1, OccTail DEF Lone
  <2>3. /\ IsFiniteSet(Watch(monitors', j))
        /\ Cardinality(Watch(monitors', j)) = Cardinality(Watch(monitors, j)) - Lone({h}, j)
    <3>1. CASE Tail(b.jobs) = <<>> /\ monitors' = monitors \ {b}
      <4>1. Occ(Tail(b.jobs), j) = 0
        BY <3>1, OccEmpty
      <4>2. Occ(b.jobs, j) = Lone({h}, j)
        BY <1>7, <2>2, <4>1
      <4>3. QED BY <3>1, <4>2, WatchAfter
    <3>2. CASE Continues(b, Tail(b.jobs))
      <4>1. /\ IsFiniteSet(Watch(monitors', j))
            /\ Cardinality(Watch(monitors', j))
                 = Cardinality(Watch(monitors, j)) - Occ(b.jobs, j) + Occ(Tail(b.jobs), j)
        BY <2>2, <3>2, WatchAfter
      <4>2. QED BY <1>4, <1>7, <2>2, <4>1
    <3>3. QED BY <1>11, <3>1, <3>2
  <2>4. Batched(j)' = Batched(j) - Lone({h}, j)
    BY <1>8, <2>2, <2>3
  <2>5. Live(j)' <=> Live(j) /\ j # h
    BY <1>11, <2>1, LiveAfter
  <2>6. CASE j = h
    <3>1. Lone({h}, j) = 1 /\ Live(j) /\ ~Live(j)'
      BY <2>1, <2>5, <2>6 DEF Lone
    <3>2. QED BY <1>3, <1>4, <1>5, <2>3, <2>4, <3>1
  <2>7. CASE j # h
    <3>1. Lone({h}, j) = 0 /\ (Live(j)' <=> Live(j))
      BY <2>5, <2>7 DEF Lone
    <3>2. QED BY <1>3, <1>4, <1>5, <2>3, <2>4, <3>1
  <2>8. QED BY <2>6, <2>7
<1>12. QED BY <1>9, <1>10, <1>11, MonitorMoves

\* The flush routine and Stop move no job.
LEMMA CountedRoutine ==
    ASSUME PipelineIInv, UNCHANGED orchVars,
           Tick \/ TickDone \/ RoutineExit \/ FinalFlush \/ BatchStopped
    PROVE  Counted' /\ UNCHANGED monitors
<1>1. /\ UNCHANGED <<channel, bridge, jobQueue, held, jobChan, cur>>
      /\ UNCHANGED <<pendingJobs, snap, monitors>> /\ Nothing
  BY DEF orchVars, Tick, TickDone, RoutineExit, FinalFlush, BatchStopped, Nothing
<1> SUFFICES ASSUME NEW j \in Jobs
             PROVE  Queued(j)' + Batched(j)' = IF Live(j)' THEN 1 ELSE 0
  BY <1>1 DEF Counted
<1>2. Queued(j)' = Queued(j) /\ Batched(j)' = Batched(j) /\ (Live(j)' <=> Live(j))
  BY <1>1, QueuedKept, BatchedKept, LiveAfter
<1>3. Queued(j) + Batched(j) = IF Live(j) THEN 1 ELSE 0
  BY DEF PipelineIInv, Counted
<1>4. QED BY <1>2, <1>3

-----------------------------------------------------------------------------
(* The invariant *)

\* Every step keeps the account, and the values of the variables.
LEMMA CountedStep ==
    ASSUME PipelineIInv, Next
    PROVE  Typed' /\ Counted'
<1>0. /\ TypeOK /\ \A j \in Jobs : IsFiniteSet(Watch(monitors, j))
      /\ \A b \in monitors : MonitorOK(b)
  BY DEF PipelineIInv, Typed
<1>1. ASSUME TypeOK', \A j \in Jobs : IsFiniteSet(Watch(monitors', j)),
             \A b \in monitors' : MonitorOK(b)
      PROVE  Typed'
  BY <1>1 DEF Typed, Watch, In, MonitorOK
<1>2. ASSUME TypeOK', UNCHANGED monitors
      PROVE  Typed'
  BY <1>0, <1>1, <1>2
<1>3. ASSUME BatchTypeOK', UNCHANGED orchVars
      PROVE  TypeOK'
  BY <1>0, <1>3 DEF TypeOK, orchVars
<1>4. CASE \/ \E j \in Jobs : Submit(j) \/ Receive(j)
           \/ BridgeReceive \/ RouteToQueue \/ Dequeue \/ Feed \/ CloseJobChan
           \/ StopBatchFirst \/ StopManager \/ Stopped
  BY <1>2, <1>4, TypeStepFront, CountedQueues
<1>5. CASE RouteToBatch \/ BatchTook \/ BatchRefused
  BY <1>2, <1>5, TypeStepFront, CountedRoutes
<1>6. CASE \E w \in Workers :
             \/ Take(w) \/ WorkerExit(w) \/ OverLimit(w) \/ Limited(w)
             \/ Success(w) \/ (wpc[w] = "call" /\ Fail(w))
             \/ RateLimited(w) \/ Transient(w) \/ Requeue(w)
  BY <1>2, <1>6, TypeStepWorker, CountedWorkers
<1>7. CASE /\ UNCHANGED orchVars
           /\ \E f \in Flushers : Snapshot(f) \/ Convert(f) \/ UploadFile(f) \/ CreateBatch(f)
  <2>1. BatchTypeOK' /\ \A b \in monitors' : MonitorOK(b)
    BY <1>7, TypeStepBatch
  <2>2. Counted' /\ \A j \in Jobs : IsFiniteSet(Watch(monitors', j))
    BY <1>7, CountedFlushes
  <2>3. QED BY <1>1, <1>3, <1>7, <2>1, <2>2
<1>8. CASE /\ UNCHANGED orchVars
           /\ \E b \in monitors :
                \/ \E status \in BatchStatus : WaitForBatch(b, status)
                \/ ReadBatchResponses(b) \/ BatchFails(b)
                \/ \E status \in WebhookStatuses : NotifyBatchComplete(b, status)
                \/ BatchAnswers(b)
  <2>1. BatchTypeOK' /\ \A b \in monitors' : MonitorOK(b)
    BY <1>8, TypeStepBatch
  <2>2. Counted' /\ \A j \in Jobs : IsFiniteSet(Watch(monitors', j))
    BY <1>8, CountedMonitors
  <2>3. QED BY <1>1, <1>3, <1>8, <2>1, <2>2
<1>9. CASE /\ UNCHANGED orchVars
           /\ Tick \/ TickDone \/ RoutineExit \/ FinalFlush \/ BatchStopped
  <2>1. BatchTypeOK'
    BY <1>9, TypeStepBatch
  <2>2. Counted' /\ UNCHANGED monitors
    BY <1>9, CountedRoutine
  <2>3. QED BY <1>2, <1>3, <1>9, <2>1, <2>2
<1>10. QED BY <1>4, <1>5, <1>6, <1>7, <1>8, <1>9, Steps

\* Nothing is anywhere at first.
LEMMA PipelineInitially ==
    ASSUME Init
    PROVE  PipelineIInv
<1> USE BatchAssumption, OrchestratorAssumption
<1>1. TypeOK
  BY DEF Init, BatchInit, TypeOK, BatchTypeOK
<1>2. monitors = {} /\ \A j : Watch(monitors, j) = {}
  BY DEF Init, BatchInit, Watch
<1>3. Typed
  BY <1>1, <1>2, FS_EmptySet DEF Typed
<1>4. \A j \in Jobs : JobOK(j) /\ ~Live(j)
  BY DEF Init, BatchInit, JobOK, Live
<1>5. Holding
  BY DEF Init, BatchInit, Holding, Flushers
<1>6. Stopping
  BY DEF Init, BatchInit, Stopping, Flushers
<1>7. Counted
  <2> SUFFICES ASSUME NEW j \in Jobs PROVE Queued(j) + Batched(j) = 0
    BY <1>4 DEF Counted
  <2>1. /\ channel = <<>> /\ jobChan = <<>> /\ pendingJobs = <<>>
        /\ snap["add"] = <<>> /\ snap["routine"] = <<>> /\ snap["stop"] = <<>>
    BY DEF Init, BatchInit, Flushers
  <2>2. Lone({bridge}, j) = 0 /\ Lone(jobQueue, j) = 0 /\ Lone({held}, j) = 0
    BY DEF Init, Lone
  <2>3. Busy(j) = {}
    BY DEF Init, Busy
  <2>4. Cardinality(Busy(j)) = 0 /\ Cardinality(Watch(monitors, j)) = 0
    BY <1>2, <2>3, FS_EmptySet
  <2>5. /\ Occ(channel, j) = 0 /\ Occ(jobChan, j) = 0 /\ Occ(pendingJobs, j) = 0
        /\ Occ(snap["add"], j) = 0 /\ Occ(snap["routine"], j) = 0 /\ Occ(snap["stop"], j) = 0
    BY <2>1, OccEmpty
  <2>6. QED BY <2>2, <2>4, <2>5 DEF Queued, Batched
<1>8. QED BY <1>3, <1>4, <1>5, <1>6, <1>7 DEF PipelineIInv

\* A step that changes nothing keeps everything.
LEMMA PipelineStutters ==
    ASSUME PipelineIInv, UNCHANGED vars
    PROVE  PipelineIInv'
<1> USE DEF vars, batchVars, orchVars
<1>1. TypeOK'
  BY DEF PipelineIInv, Typed, TypeOK, BatchTypeOK
<1>2. Typed'
  BY <1>1 DEF PipelineIInv, Typed, Watch, In, MonitorOK
<1>3. (\A j \in Jobs : JobOK(j))'
  BY DEF PipelineIInv, JobOK
<1>4. Holding'
  BY DEF PipelineIInv, Holding, ToBatch
<1>5. Stopping'
  BY DEF PipelineIInv, Stopping
<1>6. Counted'
  <2> SUFFICES ASSUME NEW j \in Jobs
               PROVE  Queued(j)' + Batched(j)' = IF Live(j)' THEN 1 ELSE 0
    BY DEF Counted
  <2>1. Queued(j)' = Queued(j) /\ Batched(j)' = Batched(j)
    BY QueuedKept, BatchedKept
  <2>2. Live(j)' <=> Live(j)
    BY DEF Live
  <2>3. QED BY <2>1, <2>2 DEF PipelineIInv, Counted
<1>7. QED BY <1>2, <1>3, <1>4, <1>5, <1>6 DEF PipelineIInv

\* Every behaviour of the pipeline keeps the invariant.
LEMMA PipelineInvariant == Spec => []PipelineIInv
<1>1. Init => PipelineIInv
  BY PipelineInitially
<1>2. PipelineIInv /\ [Next]_vars => PipelineIInv'
  <2>1. ASSUME PipelineIInv, Next PROVE PipelineIInv'
    BY <2>1, CountedStep, JobsStep, HoldingStep, StoppingStep DEF PipelineIInv
  <2>2. QED BY <2>1, PipelineStutters
<1>3. QED BY <1>1, <1>2, PTL DEF Spec

-----------------------------------------------------------------------------
(* What the pipeline promises *)

\* A job is in exactly one place from its submission to its answer, whatever is retried,
\* put back, batched or stopped meanwhile, and when Orchestrator.Stop returns neither the
\* queue manager nor a worker nor a flush holds one: for every number of jobs and workers,
\* every capacity and every limit.
THEOREM PipelineKept == Spec => []OrchestratorInv
<1>1. ASSUME PipelineIInv PROVE OrchestratorInv
  <2>1. TypeOK
    BY <1>1 DEF PipelineIInv, Typed
  <2>2. JobInOnePlace
    <3> SUFFICES ASSUME NEW j \in Jobs
                 PROVE  Cardinality(Places(j)) = IF Live(j) THEN 1 ELSE 0
      BY DEF JobInOnePlace, Live
    <3>1. Cardinality(Places(j)) = Queued(j) + Batched(j)
      BY <1>1, PlacesCounted DEF PipelineIInv
    <3>2. QED BY <1>1, <3>1 DEF PipelineIInv, Counted
  <2>3. StopLeavesNothingRunning
    <3>1. Holding /\ Stopping
      BY <1>1 DEF PipelineIInv
    <3>2. Workers # {}
      BY OrchestratorAssumption DEF Workers
    <3>3. QED BY <3>1, <3>2 DEF Holding, Stopping, StopLeavesNothingRunning, Flushers
  <2>4. QED BY <2>1, <2>2, <2>3 DEF OrchestratorInv
<1>2. QED BY <1>1, PipelineInvariant, PTL

\* SubmitJob keeps its promise: an accepted job is answered at most once, and the caller gets
\* that answer and no other, through every route, retry and failure.
THEOREM AnsweredOnce == Spec => ImplementsJobService
<1> DEFINE Ans(j) == IF result[j] \in {"nil", "reply", "chat"} THEN result[j] ELSE outcome[j]
           st == [j \in Jobs |-> Status(j)]
           an == [j \in Jobs |-> Ans(j)]
<1>1. Init => Service!Init
  BY DEF Init, BatchInit, Service!Init, Status
<1>2. ASSUME PipelineIInv, Next
      PROVE  Service!Next \/ UNCHANGED <<st, an>>
  <2>1. /\ submit \in [Jobs -> {"idle", "waiting", "returned", "failed", "panic"}]
        /\ outcome \in [Jobs -> {"none", "nil", "reply", "chat"}]
        /\ result \in [Jobs -> {"empty", "nil", "reply", "chat", "closed", "panic"}]
        /\ \A j \in Jobs : JobOK(j)
    BY <1>2 DEF PipelineIInv, Typed, TypeOK, BatchTypeOK
  <2>2. CASE Nothing \/ \E S \in SUBSET Jobs : GivenUp(S)
    BY <2>2 DEF Nothing, GivenUp, Status
  <2>3. ASSUME NEW j \in Jobs, Accepted(j)
        PROVE  Service!Accept(j)
    <3>1. st[j] = "new" /\ Status(j)' = "accepted" /\ Ans(j)' = Ans(j)
      BY <2>1, <2>3 DEF Accepted, JobOK, Status
    <3>2. \A k \in Jobs \ {j} : Status(k)' = Status(k) /\ Ans(k)' = Ans(k)
      BY <2>1, <2>3 DEF Accepted, Status
    <3>3. st' = [st EXCEPT ![j] = "accepted"] /\ an' = an
      BY <3>1, <3>2
    <3>4. QED BY <3>1, <3>3 DEF Service!Accept
  <2>4. ASSUME NEW j \in Jobs, NEW v \in Replies, Answered(j, v)
        PROVE  Service!Answer(j, v)
    <3>1. st[j] = "accepted" /\ Status(j)' = "answered" /\ Ans(j)' = v
      BY <2>1, <2>4 DEF Answered, Live, Status, Replies
    <3>2. \A k \in Jobs \ {j} : Status(k)' = Status(k) /\ Ans(k)' = Ans(k)
      BY <2>1, <2>4 DEF Answered, Status
    <3>3. st' = [st EXCEPT ![j] = "answered"] /\ an' = [an EXCEPT ![j] = v]
      BY <3>1, <3>2
    <3>4. QED BY <3>1, <3>3 DEF Service!Answer
  <2>5. ASSUME NEW j \in Jobs, NEW v \in {"returned", "failed", "panic"}, Received(j, v)
        PROVE  Service!Return(j)
    <3>1. st[j] = "answered" /\ Status(j)' = "returned" /\ Ans(j)' = Ans(j)
      BY <2>1, <2>5 DEF Received, Status, Replies
    <3>2. \A k \in Jobs \ {j} : Status(k)' = Status(k) /\ Ans(k)' = Ans(k)
      BY <2>1, <2>5 DEF Received, Status
    <3>3. st' = [st EXCEPT ![j] = "returned"] /\ an' = an
      BY <3>1, <3>2
    <3>4. QED BY <3>1, <3>3 DEF Service!Return
  <2>6. QED
    BY <1>2, <2>2, <2>3, <2>4, <2>5, StepKinds DEF Service!Next, Service!Answers, Replies
<1>3. UNCHANGED vars => UNCHANGED <<st, an>>
  BY DEF vars, batchVars, orchVars, Status
<1>4. PipelineIInv /\ [Next]_vars => [Service!Next]_<<st, an>>
  BY <1>2, <1>3
<1>5. QED BY <1>1, <1>4, PipelineInvariant, PTL DEF Spec, ImplementsJobService, Service!Spec

-----------------------------------------------------------------------------
(* The limits of a batch *)

Poisoned(s) == ToSet(s) \cap Poison # {}
Fits(s) == Len(s) <= MaxRequests /\ (Len(s) <= 1 \/ MemoryOf(s) <= MaxMemory)

\* The manager's count of the memory is right, and the pending jobs respect the limits, unless
\* jobs were put back; then one of them keeps all of them from being sent.  While AddJob
\* flushes nothing that can be sent comes to the queue.
LimitsIInv ==
    /\ Poisoned(pendingJobs)
         \/ (Fits(pendingJobs) /\ currentMemoryUsed = MemoryOf(pendingJobs))
    /\ fpc["add"] \in {"convert", "send", "create", "ok"} =>
         pendingJobs = <<>> \/ Poisoned(pendingJobs)
    /\ \A f \in Flushers :
         /\ fpc[f] = "convert" => Poisoned(snap[f]) \/ Fits(snap[f])
         /\ fpc[f] \in {"send", "create"} => Fits(snap[f])

\* A set of natural numbers that is not empty has a least element.
LEMMA Least ==
    ASSUME NEW T \in SUBSET Nat, T # {}
    PROVE  \E m \in T : \A k \in T : m <= k
<1>1. PICK R : R = OpToRel(<, Nat)
  BY Zenon
<1>2. IsWellFoundedOn(R, Nat)
  BY <1>1, NatLessThanWellFounded, Zenon
<1>3. R = {p \in Nat \X Nat : p[1] < p[2]}
  BY <1>1, Zenon DEF OpToRel
<1>4. PICK m \in T : \A k \in T : <<k, m>> \notin R
  BY <1>2, WFMin
<1>5. \A k \in T : ~(k < m)
  BY <1>3, <1>4
<1>6. QED BY <1>5

\* The memory of a sequence of jobs, added up one job after the other.
Sums(t, s) ==
    /\ t \in [0 .. Len(s) -> Nat]
    /\ t[0] = 0
    /\ \A i \in 1 .. Len(s) : t[i] = t[i - 1] + Memory[s[i]]

\* One job more.
LEMMA SumsAppend ==
    ASSUME NEW s \in Seq(Jobs), NEW j \in Jobs, NEW t, Sums(t, s)
    PROVE  \E u : Sums(u, Append(s, j)) /\ u[Len(s) + 1] = t[Len(s)] + Memory[j]
<1> DEFINE n == Len(s)
           u == [i \in 0 .. n + 1 |-> IF i = n + 1 THEN t[n] + Memory[j] ELSE t[i]]
<1>1. n \in Nat /\ Memory[j] \in Nat /\ t[n] \in Nat
  BY BatchAssumption DEF Sums
<1>2. /\ Len(Append(s, j)) = n + 1 /\ Append(s, j)[n + 1] = j
      /\ \A i \in 1 .. n : Append(s, j)[i] = s[i]
  OBVIOUS
<1>3. u \in [0 .. n + 1 -> Nat] /\ u[0] = 0 /\ u[n + 1] = t[n] + Memory[j]
  BY <1>1 DEF Sums
<1>4. ASSUME NEW i \in 1 .. n + 1
      PROVE  u[i] = u[i - 1] + Memory[Append(s, j)[i]]
  <2>1. CASE i = n + 1
    BY <1>1, <1>2, <2>1
  <2>2. CASE i # n + 1
    <3>1. i \in 1 .. n /\ i - 1 \in 0 .. n /\ i \in 0 .. n + 1 /\ i - 1 \in 0 .. n + 1 /\ i - 1 # n + 1
      BY <1>1, <2>2
    <3>2. t[i] = t[i - 1] + Memory[s[i]] /\ u[i] = t[i] /\ u[i - 1] = t[i - 1]
      BY <2>2, <3>1 DEF Sums
    <3>3. QED BY <1>2, <3>1, <3>2
  <2>3. QED BY <2>1, <2>2
<1>5. QED BY <1>2, <1>3, <1>4 DEF Sums

\* The sums exist, by induction on the length of the sequence.
LEMMA SumsExist == \A s \in Seq(Jobs) : \E t : Sums(t, s)
<1> DEFINE Bad == {n \in Nat : \E s \in Seq(Jobs) : Len(s) = n /\ ~\E t : Sums(t, s)}
<1> SUFFICES ASSUME Bad # {} PROVE FALSE
  OBVIOUS
<1>1. PICK n \in Bad : \A k \in Bad : n <= k
  BY Least
<1>2. PICK s \in Seq(Jobs) : Len(s) = n /\ ~\E t : Sums(t, s)
  BY <1>1
<1>3. CASE s = <<>>
  <2>1. Sums([i \in 0 .. 0 |-> 0], s)
    BY <1>3 DEF Sums
  <2>2. QED BY <1>2, <2>1
<1>4. CASE s # <<>>
  <2>1. PICK r \in Seq(Jobs), j \in Jobs : s = Append(r, j)
    BY <1>4, SequenceEmptyOrAppend
  <2>2. Len(r) \in Nat /\ Len(r) = n - 1 /\ n \in Nat
    BY <1>2, <2>1
  <2>3. PICK t : Sums(t, r)
    BY <1>1, <2>2
  <2>4. QED BY <1>2, <2>1, <2>3, SumsAppend
<1>5. QED BY <1>3, <1>4

\* There is one way to add up, by induction on the position.
LEMMA SumsUnique ==
    ASSUME NEW s \in Seq(Jobs), NEW t, Sums(t, s), NEW u,
           u = [i \in 0 .. Len(s) |-> IF i = 0 THEN 0 ELSE u[i - 1] + Memory[s[i]]]
    PROVE  t = u
<1> DEFINE Bad == {i \in 0 .. Len(s) : t[i] # u[i]}
<1>0. Len(s) \in Nat /\ t \in [0 .. Len(s) -> Nat]
  BY DEF Sums
<1>1. CASE Bad # {}
  <2>1. PICK i \in Bad : \A k \in Bad : i <= k
    <3>1. Bad \in SUBSET Nat
      BY <1>0
    <3>2. QED BY <1>1, <3>1, Least
  <2>2. i \in 0 .. Len(s) /\ u[i] = (IF i = 0 THEN 0 ELSE u[i - 1] + Memory[s[i]])
    OBVIOUS
  <2>3. i # 0
    BY <1>0, <2>1, <2>2 DEF Sums
  <2>4. i - 1 \in 0 .. Len(s) /\ i \in 1 .. Len(s)
    BY <1>0, <2>2, <2>3
  <2>5. t[i - 1] = u[i - 1]
    BY <2>1, <2>4
  <2>6. QED BY <2>1, <2>2, <2>3, <2>4, <2>5 DEF Sums
<1>2. CASE Bad = {}
  BY <1>0, <1>2
<1>3. QED BY <1>1, <1>2

\* Added up so, the memory of the sequence.
LEMMA MemorySums ==
    ASSUME NEW s \in Seq(Jobs), NEW t, Sums(t, s)
    PROVE  MemoryOf(s) = t[Len(s)]
<1> DEFINE Def(u) == u = [i \in 0 .. Len(s) |-> IF i = 0 THEN 0 ELSE u[i - 1] + Memory[s[i]]]
<1>1. Def(t)
  BY DEF Sums
<1>2. PICK u : u = CHOOSE v : Def(v)
  OBVIOUS
<1>3. Def(u)
  BY <1>1, <1>2
<1>4. u = t
  BY <1>3, SumsUnique
<1>5. MemoryOf(s) = u[Len(s)]
  BY <1>2 DEF MemoryOf
<1>6. QED BY <1>4, <1>5

\* The memory of no job, and of one job more.
LEMMA MemoryFacts ==
    /\ MemoryOf(<<>>) = 0
    /\ \A s \in Seq(Jobs), j \in Jobs : MemoryOf(Append(s, j)) = MemoryOf(s) + Memory[j]
<1>1. MemoryOf(<<>>) = 0
  <2>1. <<>> \in Seq(Jobs) /\ Len(<<>>) = 0
    BY EmptySeq
  <2>2. PICK t : Sums(t, <<>>)
    BY <2>1, SumsExist
  <2>3. MemoryOf(<<>>) = t[Len(<<>>)]
    BY <2>1, <2>2, MemorySums
  <2>4. QED BY <2>1, <2>2, <2>3 DEF Sums
<1>2. ASSUME NEW s \in Seq(Jobs), NEW j \in Jobs
      PROVE  MemoryOf(Append(s, j)) = MemoryOf(s) + Memory[j]
  <2>1. PICK t : Sums(t, s)
    BY SumsExist
  <2>2. PICK u : Sums(u, Append(s, j)) /\ u[Len(s) + 1] = t[Len(s)] + Memory[j]
    BY <2>1, SumsAppend
  <2>3. Append(s, j) \in Seq(Jobs) /\ Len(Append(s, j)) = Len(s) + 1
    OBVIOUS
  <2>4. MemoryOf(s) = t[Len(s)] /\ MemoryOf(Append(s, j)) = u[Len(Append(s, j))]
    BY <2>1, <2>2, <2>3, MemorySums
  <2>5. QED BY <2>2, <2>3, <2>4
<1>3. QED BY <1>1, <1>2

\* What is poisoned stays so when jobs are added to it.
LEMMA PoisonStays ==
    /\ ~Poisoned(<<>>)
    /\ \A s \in Seq(Jobs), j \in Jobs : Poisoned(s) => Poisoned(Append(s, j))
    /\ \A s \in Seq(Jobs), t \in Seq(Jobs) : Poisoned(s) \/ Poisoned(t) => Poisoned(s \o t)
<1>1. ~Poisoned(<<>>)
  BY DEF Poisoned, ToSet
<1>2. ASSUME NEW s \in Seq(Jobs), NEW j \in Jobs, Poisoned(s)
      PROVE  Poisoned(Append(s, j))
  <2>1. PICK i \in DOMAIN s : s[i] \in Poison
    BY <1>2 DEF Poisoned, ToSet
  <2>2. i \in DOMAIN Append(s, j) /\ Append(s, j)[i] = s[i]
    OBVIOUS
  <2>3. QED BY <2>1, <2>2 DEF Poisoned, ToSet
<1>3. ASSUME NEW s \in Seq(Jobs), NEW t \in Seq(Jobs), Poisoned(s)
      PROVE  Poisoned(s \o t)
  <2>1. PICK i \in DOMAIN s : s[i] \in Poison
    BY <1>3 DEF Poisoned, ToSet
  <2>2. i \in DOMAIN (s \o t) /\ (s \o t)[i] = s[i]
    OBVIOUS
  <2>3. QED BY <2>1, <2>2 DEF Poisoned, ToSet
<1>4. ASSUME NEW s \in Seq(Jobs), NEW t \in Seq(Jobs), Poisoned(t)
      PROVE  Poisoned(s \o t)
  <2>1. PICK i \in 1 .. Len(t) : t[i] \in Poison
    BY <1>4 DEF Poisoned, ToSet
  <2>2. Len(s) \in Nat /\ Len(t) \in Nat
    OBVIOUS
  <2>3. PICK k : k = Len(s) + i
    OBVIOUS
  <2>4. k \in 1 .. Len(s) + Len(t) /\ ~(k <= Len(s)) /\ k - Len(s) = i
    BY <2>2, <2>3
  <2>5. k \in DOMAIN (s \o t) /\ (s \o t)[k] = t[i]
    BY <2>2, <2>4
  <2>6. QED BY <2>1, <2>5 DEF Poisoned, ToSet
<1>5. QED BY <1>1, <1>2, <1>3, <1>4

\* A job is appended: it fits, it is alone, or something put back is before it.
LEMMA LimitsAppend ==
    ASSUME Typed, LimitsIInv, NEW j \in Jobs, AppendJob(j),
           ~Exceeds(j) \/ pendingJobs = <<>> \/ Poisoned(pendingJobs)
    PROVE  \/ Poisoned(pendingJobs')
           \/ Fits(pendingJobs') /\ currentMemoryUsed' = MemoryOf(pendingJobs')
<1>1. /\ pendingJobs \in Seq(Jobs) /\ currentMemoryUsed \in Nat /\ Memory[j] \in Nat
      /\ MaxRequests \in Nat \ {0} /\ Len(pendingJobs) \in Nat
  BY BatchAssumption DEF Typed, TypeOK, BatchTypeOK
<1>2. /\ pendingJobs' = Append(pendingJobs, j)
      /\ currentMemoryUsed' = currentMemoryUsed + Memory[j]
  BY DEF AppendJob
<1>3. CASE Poisoned(pendingJobs)
  BY <1>1, <1>2, <1>3, PoisonStays
<1>4. CASE ~Poisoned(pendingJobs)
  <2>1. Fits(pendingJobs) /\ currentMemoryUsed = MemoryOf(pendingJobs)
    BY <1>4 DEF LimitsIInv
  <2>2. MemoryOf(pendingJobs') = MemoryOf(pendingJobs) + Memory[j]
    BY <1>1, <1>2, MemoryFacts
  <2>3. currentMemoryUsed' = MemoryOf(pendingJobs')
    BY <1>2, <2>1, <2>2
  <2>4. Len(pendingJobs') = Len(pendingJobs) + 1
    BY <1>1, <1>2
  <2>5. Fits(pendingJobs')
    <3>1. CASE ~Exceeds(j)
      <4>1. Len(pendingJobs) + 1 <= MaxRequests /\ currentMemoryUsed + Memory[j] <= MaxMemory
        BY <1>1, <3>1, BatchAssumption DEF Exceeds
      <4>2. QED BY <1>2, <2>3, <2>4, <4>1 DEF Fits
    <3>2. CASE pendingJobs = <<>>
      <4>1. Len(pendingJobs') = 1
        BY <2>4, <3>2, EmptySeq
      <4>2. QED BY <1>1, <4>1 DEF Fits
    <3>3. QED BY <1>4, <3>1, <3>2
  <2>6. QED BY <2>3, <2>5
<1>5. QED BY <1>3, <1>4

\* The limits after a step that leaves the queue and the snapshots alone, and brings no
\* flusher to a stage that says something about them.
LEMMA LimitsKept ==
    ASSUME LimitsIInv, UNCHANGED <<pendingJobs, currentMemoryUsed, snap>>,
           \A f \in Flushers : fpc'[f] = fpc[f] \/ fpc'[f] \in {"idle", "snapshot", "failed"}
    PROVE  LimitsIInv'
<1>1. /\ Poisoned(pendingJobs') <=> Poisoned(pendingJobs)
      /\ Fits(pendingJobs') <=> Fits(pendingJobs)
      /\ MemoryOf(pendingJobs') = MemoryOf(pendingJobs)
      /\ \A f \in Flushers : snap'[f] = snap[f]
  OBVIOUS
<1>2. Poisoned(pendingJobs')
        \/ (Fits(pendingJobs') /\ currentMemoryUsed' = MemoryOf(pendingJobs'))
  BY <1>1 DEF LimitsIInv
<1>3. fpc'["add"] \in {"convert", "send", "create", "ok"} =>
         pendingJobs' = <<>> \/ Poisoned(pendingJobs')
  BY <1>1 DEF LimitsIInv, Flushers
<1>4. \A f \in Flushers :
         /\ fpc'[f] = "convert" => Poisoned(snap'[f]) \/ Fits(snap'[f])
         /\ fpc'[f] \in {"send", "create"} => Fits(snap'[f])
  BY <1>1 DEF LimitsIInv
<1>5. QED BY <1>2, <1>3, <1>4 DEF LimitsIInv, Poisoned, Fits, MemoryOf

\* AddJob and its flush keep the limits.
LEMMA LimitsAdd ==
    ASSUME PipelineIInv, LimitsIInv, RouteToBatch \/ BatchTook \/ BatchRefused
    PROVE  LimitsIInv'
<1>0. /\ fpc \in [Flushers -> {"idle", "snapshot", "convert", "send", "create", "ok", "failed"}]
      /\ bridge \in Jobs \cup {None} /\ adding \in Jobs \cup {None} /\ Typed
      /\ adding = None <=> fpc["add"] = "idle"
  BY DEF PipelineIInv, Typed, TypeOK, BatchTypeOK, Holding
<1>1. ASSUME NEW j \in Jobs, AppendJob(j), UNCHANGED snap,
             ~Exceeds(j) \/ pendingJobs = <<>> \/ Poisoned(pendingJobs),
             fpc'["add"] = "idle", \A f \in Flushers \ {"add"} : fpc'[f] = fpc[f]
      PROVE  LimitsIInv'
  <2>1. \/ Poisoned(pendingJobs')
        \/ Fits(pendingJobs') /\ currentMemoryUsed' = MemoryOf(pendingJobs')
    BY <1>0, <1>1, LimitsAppend
  <2>2. \A f \in Flushers :
         /\ fpc'[f] = "convert" => Poisoned(snap'[f]) \/ Fits(snap'[f])
         /\ fpc'[f] \in {"send", "create"} => Fits(snap'[f])
    BY <1>1 DEF LimitsIInv
  <2>3. QED BY <1>1, <2>1, <2>2 DEF LimitsIInv, Poisoned, Fits, MemoryOf
<1>2. CASE RouteToBatch
  <2>1. PICK j \in Jobs : j = bridge /\ AddJob(j)
    BY <1>0, <1>2 DEF RouteToBatch
  <2>2. CASE Exceeds(j)
    <3>1. /\ UNCHANGED <<pendingJobs, currentMemoryUsed, snap>>
          /\ fpc' = [fpc EXCEPT !["add"] = "snapshot"]
      BY <2>1, <2>2 DEF AddJob
    <3>2. \A f \in Flushers : fpc'[f] = fpc[f] \/ fpc'[f] \in {"idle", "snapshot", "failed"}
      BY <1>0, <3>1 DEF Flushers
    <3>3. QED BY <3>1, <3>2, LimitsKept
  <2>3. CASE ~Exceeds(j)
    <3>1. AppendJob(j) /\ UNCHANGED <<fpc, snap>> /\ adding = None
      BY <2>1, <2>3 DEF AddJob
    <3>2. QED BY <1>0, <1>1, <2>3, <3>1
  <2>4. QED BY <2>2, <2>3
<1>3. CASE BatchTook
  <2>1. /\ fpc["add"] = "ok" /\ AppendJob(adding) /\ UNCHANGED snap
        /\ fpc' = [fpc EXCEPT !["add"] = "idle"]
    BY <1>3 DEF BatchTook, AddAfterFlush
  <2>2. fpc'["add"] = "idle" /\ \A f \in Flushers \ {"add"} : fpc'[f] = fpc[f]
    BY <1>0, <2>1 DEF Flushers
  <2>3. adding \in Jobs /\ (pendingJobs = <<>> \/ Poisoned(pendingJobs))
    BY <1>0, <2>1 DEF LimitsIInv
  <2>4. QED BY <1>1, <2>1, <2>2, <2>3
<1>4. CASE BatchRefused
  <2>1. /\ UNCHANGED <<pendingJobs, currentMemoryUsed, snap>>
        /\ fpc' = [fpc EXCEPT !["add"] = "idle"]
    BY <1>4 DEF BatchRefused, AddFails
  <2>2. \A f \in Flushers : fpc'[f] = fpc[f] \/ fpc'[f] \in {"idle", "snapshot", "failed"}
    BY <1>0, <2>1 DEF Flushers
  <2>3. QED BY <2>1, <2>2, LimitsKept
<1>5. QED BY <1>2, <1>3, <1>4

\* FlushBatch keeps the limits.
LEMMA LimitsFlush ==
    ASSUME PipelineIInv, LimitsIInv, NEW f \in Flushers,
           Snapshot(f) \/ Convert(f) \/ UploadFile(f) \/ CreateBatch(f)
    PROVE  LimitsIInv'
<1>0. /\ fpc \in [Flushers -> {"idle", "snapshot", "convert", "send", "create", "ok", "failed"}]
      /\ pendingJobs \in Seq(Jobs) /\ snap \in [Flushers -> Seq(Jobs)]
  BY DEF PipelineIInv, Typed, TypeOK, BatchTypeOK
<1>1. ASSUME \/ Poisoned(pendingJobs')
             \/ Fits(pendingJobs') /\ currentMemoryUsed' = MemoryOf(pendingJobs'),
             pendingJobs' = pendingJobs \/ pendingJobs' = <<>> \/ Poisoned(pendingJobs'),
             \A g \in Flushers \ {f} : fpc'[g] = fpc[g] /\ snap'[g] = snap[g],
             fpc'[f] = "convert" => Poisoned(snap'[f]) \/ Fits(snap'[f]),
             fpc'[f] \in {"send", "create"} => Fits(snap'[f]),
             f = "add" /\ fpc'[f] \in {"convert", "send", "create", "ok"} =>
                pendingJobs' = <<>> \/ Poisoned(pendingJobs')
      PROVE  LimitsIInv'
  <2>1. fpc'["add"] \in {"convert", "send", "create", "ok"} =>
          pendingJobs' = <<>> \/ Poisoned(pendingJobs')
    BY <1>1 DEF LimitsIInv, Flushers
  <2>2. \A g \in Flushers :
         /\ fpc'[g] = "convert" => Poisoned(snap'[g]) \/ Fits(snap'[g])
         /\ fpc'[g] \in {"send", "create"} => Fits(snap'[g])
    BY <1>1 DEF LimitsIInv
  <2>3. QED BY <1>1, <2>1, <2>2 DEF LimitsIInv, Poisoned, Fits, MemoryOf
<1>2. /\ Poisoned(pendingJobs)
           \/ (Fits(pendingJobs) /\ currentMemoryUsed = MemoryOf(pendingJobs))
      /\ f = "add" /\ fpc[f] \in {"convert", "send", "create", "ok"} =>
           pendingJobs = <<>> \/ Poisoned(pendingJobs)
      /\ fpc[f] = "convert" => Poisoned(snap[f]) \/ Fits(snap[f])
      /\ fpc[f] \in {"send", "create"} => Fits(snap[f])
  BY DEF LimitsIInv
<1>3. Fits(<<>>) /\ MemoryOf(<<>>) = 0
  BY MemoryFacts, EmptySeq, BatchAssumption DEF Fits
<1>4. CASE Snapshot(f)
  <2>1. CASE pendingJobs = <<>>
    <3>1. /\ UNCHANGED <<pendingJobs, currentMemoryUsed, snap>>
          /\ fpc' = [fpc EXCEPT ![f] = "ok"]
      BY <1>4, <2>1 DEF Snapshot
    <3>2. fpc'[f] = "ok" /\ \A g \in Flushers \ {f} : fpc'[g] = fpc[g] /\ snap'[g] = snap[g]
      BY <1>0, <3>1
    <3>3. QED BY <1>1, <1>2, <2>1, <3>1, <3>2
  <2>2. CASE pendingJobs # <<>>
    <3>1. /\ fpc' = [fpc EXCEPT ![f] = "convert"] /\ snap' = [snap EXCEPT ![f] = pendingJobs]
          /\ pendingJobs' = <<>> /\ currentMemoryUsed' = 0
      BY <1>4, <2>2 DEF Snapshot
    <3>2. /\ fpc'[f] = "convert" /\ snap'[f] = pendingJobs
          /\ \A g \in Flushers \ {f} : fpc'[g] = fpc[g] /\ snap'[g] = snap[g]
      BY <1>0, <3>1
    <3>3. QED BY <1>1, <1>2, <1>3, <3>1, <3>2
  <2>3. QED BY <2>1, <2>2
<1>5. CASE Convert(f)
  <2>1. fpc[f] = "convert" /\ UNCHANGED currentMemoryUsed
    BY <1>5 DEF Convert
  <2>2. CASE ~Poisoned(snap[f])
    <3>1. fpc' = [fpc EXCEPT ![f] = "send"] /\ UNCHANGED <<pendingJobs, snap>>
      BY <1>5, <2>2 DEF Convert, Poisoned
    <3>2. /\ fpc'[f] = "send" /\ snap'[f] = snap[f]
          /\ \A g \in Flushers \ {f} : fpc'[g] = fpc[g] /\ snap'[g] = snap[g]
      BY <1>0, <3>1
    <3>3. QED BY <1>1, <1>2, <2>1, <2>2, <3>1, <3>2
  <2>3. CASE Poisoned(snap[f])
    <3>1. /\ fpc' = [fpc EXCEPT ![f] = "failed"] /\ snap' = [snap EXCEPT ![f] = <<>>]
          /\ pendingJobs' = pendingJobs \o snap[f]
      BY <1>5, <2>3 DEF Convert, Poisoned
    <3>2. /\ fpc'[f] = "failed"
          /\ \A g \in Flushers \ {f} : fpc'[g] = fpc[g] /\ snap'[g] = snap[g]
      BY <1>0, <3>1
    <3>3. Poisoned(pendingJobs')
      BY <1>0, <2>3, <3>1, PoisonStays
    <3>4. QED BY <1>1, <3>2, <3>3
  <2>4. QED BY <2>2, <2>3
<1>6. CASE UploadFile(f) \/ CreateBatch(f)
  <2>1. fpc[f] \in {"send", "create"} /\ UNCHANGED <<pendingJobs, currentMemoryUsed>>
    BY <1>6 DEF UploadFile, CreateBatch
  <2>2. \/ fpc' = [fpc EXCEPT ![f] = "create"] /\ UNCHANGED snap
        \/ fpc' = [fpc EXCEPT ![f] = "ok"] /\ snap' = [snap EXCEPT ![f] = <<>>]
        \/ fpc' = [fpc EXCEPT ![f] = "failed"] /\ snap' = [snap EXCEPT ![f] = <<>>]
    BY <1>6 DEF UploadFile, CreateBatch, Forget
  <2>3. /\ \/ fpc'[f] = "create" /\ snap'[f] = snap[f]
           \/ fpc'[f] \in {"ok", "failed"}
        /\ \A g \in Flushers \ {f} : fpc'[g] = fpc[g] /\ snap'[g] = snap[g]
    BY <1>0, <2>2
  <2>4. QED BY <1>1, <1>2, <2>1, <2>3
<1>7. QED BY <1>4, <1>5, <1>6

\* A batch that goes to the provider respects maxRequestsPerBatch and maxMemoryBytes, except
\* for a single job larger than the memory limit, although FlushBatch gives the lock up
\* between its snapshot and what becomes of it, jobs are put back uncounted and AddJob does
\* not test the limits again after its flush: for all limits and jobs.
THEOREM LimitsKeptByBatches == Spec => []BatchWithinLimits
<1>1. Init => LimitsIInv
  <2> SUFFICES ASSUME Init PROVE LimitsIInv
    OBVIOUS
  <2>1. /\ pendingJobs = <<>> /\ currentMemoryUsed = 0
        /\ fpc = [f \in Flushers |-> "idle"]
    BY DEF Init, BatchInit
  <2>2. Fits(<<>>) /\ MemoryOf(<<>>) = 0
    BY MemoryFacts, EmptySeq, BatchAssumption DEF Fits
  <2>3. fpc["add"] = "idle" /\ \A f \in Flushers : fpc[f] = "idle"
    BY <2>1 DEF Flushers
  <2>4. QED BY <2>1, <2>2, <2>3 DEF LimitsIInv
<1>2. ASSUME PipelineIInv, LimitsIInv, [Next]_vars PROVE LimitsIInv'
  <2>0. fpc \in [Flushers -> {"idle", "snapshot", "convert", "send", "create", "ok", "failed"}]
    BY <1>2 DEF PipelineIInv, Typed, TypeOK, BatchTypeOK
  <2>1. CASE RouteToBatch \/ BatchTook \/ BatchRefused
    BY <1>2, <2>1, LimitsAdd
  <2>2. CASE \E f \in Flushers : Snapshot(f) \/ Convert(f) \/ UploadFile(f) \/ CreateBatch(f)
    BY <1>2, <2>2, LimitsFlush
  <2>3. CASE Tick \/ TickDone \/ FinalFlush \/ BatchStopped
    <3>1. /\ UNCHANGED <<pendingJobs, currentMemoryUsed, snap>>
          /\ \E f \in Flushers, at \in {"idle", "snapshot"} : fpc' = [fpc EXCEPT ![f] = at]
      BY <2>3 DEF Tick, TickDone, FinalFlush, BatchStopped, Flushers
    <3>2. \A f \in Flushers : fpc'[f] = fpc[f] \/ fpc'[f] \in {"idle", "snapshot", "failed"}
      BY <2>0, <3>1
    <3>3. QED BY <1>2, <3>1, <3>2, LimitsKept
  <2>4. CASE UNCHANGED <<pendingJobs, currentMemoryUsed, snap, fpc>>
    BY <1>2, <2>4, LimitsKept
  <2>5. CASE \/ \E j \in Jobs : Submit(j) \/ Receive(j)
             \/ BridgeReceive \/ RouteToQueue \/ Dequeue \/ Feed \/ CloseJobChan
             \/ StopBatchFirst \/ StopManager \/ Stopped
    BY <2>4, <2>5 DEF Submit, Receive, BridgeReceive, RouteToQueue, Dequeue, Feed, CloseJobChan,
                      StopBatchFirst, StopBatch, StopManager, Stopped, batchVars
  <2>6. CASE \E w \in Workers :
               \/ Take(w) \/ WorkerExit(w) \/ OverLimit(w) \/ Limited(w)
               \/ Success(w) \/ (wpc[w] = "call" /\ Fail(w))
               \/ RateLimited(w) \/ Transient(w) \/ Requeue(w)
    BY <2>4, <2>6 DEF Take, WorkerExit, OverLimit, Limited, Success, Fail, RateLimited, Transient,
                      Requeue, RestOfBatch, batchVars
  <2>7. CASE \E b \in monitors :
               \/ \E status \in BatchStatus : WaitForBatch(b, status)
               \/ ReadBatchResponses(b) \/ BatchFails(b)
               \/ \E status \in WebhookStatuses : NotifyBatchComplete(b, status)
               \/ BatchAnswers(b)
    BY <2>4, <2>7 DEF WaitForBatch, ReadBatchResponses, BatchFails, NotifyBatchComplete,
                      BatchAnswers, RestOfMonitor
  <2>8. CASE RoutineExit
    BY <2>4, <2>8 DEF RoutineExit
  <2>9. CASE UNCHANGED vars
    BY <2>4, <2>9 DEF vars, batchVars
  <2>10. QED BY <1>2, <2>1, <2>2, <2>3, <2>5, <2>6, <2>7, <2>8, <2>9, Steps
<1>3. ASSUME PipelineIInv, LimitsIInv PROVE BatchWithinLimits
  <2> SUFFICES ASSUME NEW f \in Flushers, fpc[f] = "send"
               PROVE  /\ Len(snap[f]) <= MaxRequests
                      /\ Len(snap[f]) = 1 \/ MemoryOf(snap[f]) <= MaxMemory
    BY DEF BatchWithinLimits
  <2>1. snap[f] \in Seq(Jobs) /\ snap[f] # <<>> /\ Fits(snap[f])
    BY <1>3 DEF PipelineIInv, Typed, TypeOK, BatchTypeOK, Holding, LimitsIInv
  <2>2. Len(snap[f]) \in Nat \ {0}
    BY <2>1, EmptySeq
  <2>3. /\ Len(snap[f]) <= MaxRequests
        /\ Len(snap[f]) <= 1 \/ MemoryOf(snap[f]) <= MaxMemory
    BY <2>1 DEF Fits
  <2>4. PICK n \in Nat \ {0} : n = Len(snap[f])
    BY <2>2
  <2>5. n <= 1 => n = 1
    OBVIOUS
  <2>6. QED BY <2>3, <2>4, <2>5
<1>4. QED BY <1>1, <1>2, <1>3, PipelineInvariant, PTL DEF Spec
==============================================================================
