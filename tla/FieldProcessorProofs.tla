------------------------ MODULE FieldProcessorProofs ------------------------
(***************************************************************************)
(* Proofs about WorkerPool, for any number of requests, jobs, workers and  *)
(* shards and any quota, and about FieldProcessor, for any schema tree and *)
(* any batches on top of it.  The inductive invariant of the pool comes in *)
(* three layers: the structural part (types, and the agreement of calls,   *)
(* fates, heaps and workers), the quota semaphores, and the wakeups.       *)
(* Everything the field processor does to the pool is a step of the pool,  *)
(* so that invariant holds there too; the joins are proved on top of it.   *)
(***************************************************************************)
EXTENDS FieldProcessor, FiniteSetTheorems, TLAPS

-----------------------------------------------------------------------------
(* The worker pool *)

\* Typing without the bounds of the semaphores, which need the accounting.
WeakTypeOK ==
    /\ cancelled \subseteq Requests
    /\ call \in [Jobs -> CallStates]
    /\ fate \in [Jobs -> Fates]
    /\ semaphore \in [Requests -> Int]
    /\ nextShard \in Nat
    /\ home \in [Jobs -> Shards]
    /\ heap \in [Shards -> SUBSET Jobs]
    /\ wpc \in [Workers -> WorkerStates]
    /\ cur \in [Workers -> Jobs \cup {None}]
    /\ closed \in 0 .. NumShards

Structure ==
    /\ WeakTypeOK
    /\ CallMatchesFate
    /\ WorkerMatchesJob
    /\ JobInOnePlace
    /\ AbandonedOnlyIfEnded

\* The shape newGlobalWorkerPool gives the pool: at least one shard, and finitely
\* many workers, each with a shard of its own.
LEMMA PoolShape ==
    /\ NumShards \in Nat \ {0}
    /\ IsFiniteSet(Workers)
    /\ \A w \in Workers : Shard(w) \in Shards
<1>1. /\ NumShards \in Nat \ {0}
      /\ WorkersPerShard \in Int
  BY PoolAssumption DEF NumShards, WorkersPerShard
<1>2. IsFiniteSet(Shards) /\ IsFiniteSet(1 .. WorkersPerShard)
  BY <1>1, FS_Interval DEF Shards
<1>3. IsFiniteSet(Workers)
  BY <1>2, FS_Product DEF Workers
<1>4. \A w \in Workers : Shard(w) \in Shards
  BY DEF Workers, Shard
<1>5. QED BY <1>1, <1>3, <1>4

\* Initially nothing is submitted, queued or taken.
LEMMA StructureInit == PoolInit => Structure
<1> USE PoolAssumption, PoolShape
<1>1. PoolInit => WeakTypeOK
  BY DEF PoolInit, WeakTypeOK, CallStates, Fates, WorkerStates, Shards
<1>2. PoolInit => CallMatchesFate /\ WorkerMatchesJob /\ JobInOnePlace /\ AbandonedOnlyIfEnded
  BY DEF PoolInit, CallMatchesFate, WorkerMatchesJob, JobInOnePlace, AbandonedOnlyIfEnded
<1>3. QED BY <1>1, <1>2 DEF Structure

\* Every step of a submitting goroutine keeps the structure.
LEMMA StructureSubmit ==
    ASSUME Structure, NEW j \in Jobs, Call(j) \/ Submitter(j)
    PROVE  Structure'
<1> USE PoolAssumption, PoolShape
<1> USE DEF Structure, WeakTypeOK, CallStates, Fates, WorkerStates
<1>1. CASE Call(j)
  BY <1>1 DEF Call, CallMatchesFate, WorkerMatchesJob, JobInOnePlace, AbandonedOnlyIfEnded, Ended
<1>2. CASE Acquire(j)
  BY <1>2 DEF Acquire, CallMatchesFate, WorkerMatchesJob, JobInOnePlace, AbandonedOnlyIfEnded, Ended
<1>3. CASE GiveUp(j)
  BY <1>3 DEF GiveUp, CallMatchesFate, WorkerMatchesJob, JobInOnePlace, AbandonedOnlyIfEnded, Ended
<1>4. CASE Offer(j)
  BY <1>4 DEF Offer, CallMatchesFate, WorkerMatchesJob, JobInOnePlace, AbandonedOnlyIfEnded, Ended
<1>5. CASE Drop(j)
  BY <1>5 DEF Drop, CallMatchesFate, WorkerMatchesJob, JobInOnePlace, AbandonedOnlyIfEnded, Ended
<1>6. CASE Push(j)
  <2> DEFINE t == (nextShard + 1) % NumShards
  <2>1. t \in Shards
    BY DEF Shards
  <2>2. /\ nextShard' = nextShard + 1
        /\ home' = [home EXCEPT ![j] = t]
        /\ heap' = [heap EXCEPT ![t] = @ \cup {j}]
        /\ fate' = [fate EXCEPT ![j] = "queued"]
        /\ call' = [call EXCEPT ![j] = "signal"]
        /\ fate[j] = "none"
        /\ UNCHANGED <<cancelled, semaphore, wpc, cur, closed>>
    BY <1>6 DEF Push, CallMatchesFate
  <2> HIDE DEF t
  <2>3. WeakTypeOK'
    BY <2>1, <2>2
  <2>4. CallMatchesFate' /\ AbandonedOnlyIfEnded'
    BY <2>2 DEF CallMatchesFate, AbandonedOnlyIfEnded, Ended
  <2>5. WorkerMatchesJob'
    BY <2>2 DEF WorkerMatchesJob
  <2>6. JobInOnePlace'
    BY <2>1, <2>2 DEF JobInOnePlace
  <2>7. QED BY <2>3, <2>4, <2>5, <2>6
<1>7. CASE Signal(j)
  BY <1>7 DEF Signal, Waiting, WorkersOf, CallMatchesFate, WorkerMatchesJob, JobInOnePlace, AbandonedOnlyIfEnded, Ended
<1>8. QED BY <1>1, <1>2, <1>3, <1>4, <1>5, <1>6, <1>7 DEF Submitter

\* Every step of a worker keeps the structure.
LEMMA StructureWorker ==
    ASSUME Structure, NEW w \in Workers, Loop(w) \/ Finish(w)
    PROVE  Structure'
<1> USE PoolAssumption, PoolShape
<1> USE DEF Structure, WeakTypeOK, CallStates, Fates, WorkerStates
<1>1. CASE Top(w)
  BY <1>1 DEF Top, CallMatchesFate, WorkerMatchesJob, JobInOnePlace, AbandonedOnlyIfEnded, Ended
<1>2. CASE Park(w)
  BY <1>2 DEF Park, CallMatchesFate, WorkerMatchesJob, JobInOnePlace, AbandonedOnlyIfEnded, Ended
<1>3. CASE Pop(w)
  <2>1. PICK j \in heap[Shard(w)] :
              /\ heap' = [heap EXCEPT ![Shard(w)] = @ \ {j}]
              /\ fate' = [fate EXCEPT ![j] = "popped"]
              /\ cur' = [cur EXCEPT ![w] = j]
    BY <1>3 DEF Pop
  <2>2. /\ wpc[w] = "lock"
        /\ wpc' = [wpc EXCEPT ![w] = "check"]
        /\ UNCHANGED <<cancelled, call, semaphore, nextShard, home, closed>>
    BY <1>3 DEF Pop
  <2>3. j \in Jobs /\ fate[j] = "queued" /\ home[j] = Shard(w) /\ \A v \in Workers : cur[v] # j
    BY <2>1 DEF JobInOnePlace
  <2>4. WeakTypeOK'
    BY <2>1, <2>2, <2>3
  <2>5. CallMatchesFate' /\ AbandonedOnlyIfEnded'
    BY <2>1, <2>2, <2>3 DEF CallMatchesFate, AbandonedOnlyIfEnded, Ended
  <2>6. WorkerMatchesJob'
    BY <2>1, <2>2, <2>3 DEF WorkerMatchesJob
  <2>7. JobInOnePlace'
    BY <2>1, <2>2, <2>3 DEF JobInOnePlace, WorkerMatchesJob
  <2>8. QED BY <2>4, <2>5, <2>6, <2>7
<1>4. CASE Skip(w)
  BY <1>4 DEF Skip, CallMatchesFate, WorkerMatchesJob, JobInOnePlace, AbandonedOnlyIfEnded, Ended
<1>5. CASE Start(w)
  BY <1>5 DEF Start, CallMatchesFate, WorkerMatchesJob, JobInOnePlace, AbandonedOnlyIfEnded, Ended
<1>6. CASE Finish(w)
  BY <1>6 DEF Finish, CallMatchesFate, WorkerMatchesJob, JobInOnePlace, AbandonedOnlyIfEnded, Ended
<1>7. QED BY <1>1, <1>2, <1>3, <1>4, <1>5, <1>6 DEF Loop

\* The structure is kept by every step, and so holds always.
LEMMA StructureNext == Structure /\ [PoolNext]_poolVars => Structure'
<1> SUFFICES ASSUME Structure, [PoolNext]_poolVars PROVE Structure'
  OBVIOUS
<1>1. CASE \E j \in Jobs : Call(j) \/ Submitter(j)
  BY <1>1, StructureSubmit
<1>2. CASE \E w \in Workers : Loop(w) \/ Finish(w)
  BY <1>2, StructureWorker
<1>3. ASSUME NEW r \in Requests, Cancel(r) PROVE Structure'
  BY <1>3 DEF Cancel, Structure, WeakTypeOK, CallMatchesFate, WorkerMatchesJob,
              JobInOnePlace, AbandonedOnlyIfEnded, Ended
<1>4. CASE Shutdown
  BY <1>4, PoolShape DEF Shutdown, Structure, WeakTypeOK, CallMatchesFate, WorkerMatchesJob,
              JobInOnePlace, AbandonedOnlyIfEnded, Ended
<1>5. CASE UNCHANGED poolVars
  BY <1>5 DEF poolVars, Structure, WeakTypeOK, CallMatchesFate, WorkerMatchesJob,
              JobInOnePlace, AbandonedOnlyIfEnded, Ended
<1>6. QED BY <1>1, <1>2, <1>3, <1>4, <1>5 DEF PoolNext

-----------------------------------------------------------------------------
(* The quota semaphores. *)

Slots == SlotAccounting /\ semaphore \in [Requests -> 0 .. Quota]

\* The holders of a request's slots are finitely many, being jobs.
LEMMA HoldersFinite == \A r : IsFiniteSet(Holders(r)) /\ Cardinality(Holders(r)) \in Nat
<1>1. \A r : Holders(r) \in SUBSET Jobs
  BY DEF Holders
<1>2. QED BY <1>1, PoolAssumption, FS_Subset, FS_CardinalityType

\* A step that takes and returns no slot keeps the accounting.
LEMMA SlotsKept ==
    ASSUME Slots, UNCHANGED semaphore, \A j \in Jobs : HoldsSlot(j)' <=> HoldsSlot(j)
    PROVE  Slots'
<1>1. \A r \in Requests : Holders(r)' = Holders(r)
  BY DEF Holders
<1>2. QED BY <1>1 DEF Slots, SlotAccounting

\* A step that takes a slot for one job, when there is one, keeps it.
LEMMA SlotsTaken ==
    ASSUME Slots, NEW j \in Jobs, ~HoldsSlot(j), HoldsSlot(j)',
           \A k \in Jobs \ {j} : HoldsSlot(k)' <=> HoldsSlot(k),
           semaphore[ReqOf[j]] < Quota,
           semaphore' = [semaphore EXCEPT ![ReqOf[j]] = @ + 1]
    PROVE  Slots'
<1> USE PoolAssumption, HoldersFinite
<1>1. Holders(ReqOf[j])' = Holders(ReqOf[j]) \cup {j} /\ j \notin Holders(ReqOf[j])
  BY DEF Holders
<1>2. \A r \in Requests : r # ReqOf[j] => Holders(r)' = Holders(r)
  BY DEF Holders
<1>3. Cardinality(Holders(ReqOf[j])') = Cardinality(Holders(ReqOf[j])) + 1
  BY <1>1, FS_AddElement
<1>4. QED BY <1>2, <1>3 DEF Slots, SlotAccounting

\* A step that returns the slot of one job keeps it.
LEMMA SlotsReturned ==
    ASSUME Slots, NEW j \in Jobs, HoldsSlot(j), ~HoldsSlot(j)',
           \A k \in Jobs \ {j} : HoldsSlot(k)' <=> HoldsSlot(k),
           semaphore' = [semaphore EXCEPT ![ReqOf[j]] = @ - 1]
    PROVE  Slots'
<1> USE PoolAssumption, HoldersFinite
<1>1. Holders(ReqOf[j])' = Holders(ReqOf[j]) \ {j} /\ j \in Holders(ReqOf[j])
  BY DEF Holders
<1>2. \A r \in Requests : r # ReqOf[j] => Holders(r)' = Holders(r)
  BY DEF Holders
<1>3. /\ Cardinality(Holders(ReqOf[j])') = Cardinality(Holders(ReqOf[j])) - 1
      /\ Cardinality(Holders(ReqOf[j])') \in Nat
  BY <1>1, FS_RemoveElement, FS_CardinalityType
<1>4. QED BY <1>2, <1>3 DEF Slots, SlotAccounting

\* No slot is taken at the start.
LEMMA SlotsInit == PoolInit => Slots
<1> SUFFICES ASSUME PoolInit PROVE Slots
  OBVIOUS
<1>1. \A r \in Requests : Holders(r) = {}
  BY DEF PoolInit, Holders, HoldsSlot
<1>2. \A r \in Requests : Cardinality(Holders(r)) = 0
  BY <1>1, FS_EmptySet
<1>3. semaphore = [r \in Requests |-> 0] /\ 0 \in 0 .. Quota
  BY PoolAssumption DEF PoolInit
<1>4. QED BY <1>2, <1>3 DEF Slots, SlotAccounting

\* Every step keeps the accounting of the semaphores.
LEMMA SlotsNext == Structure /\ Slots /\ [PoolNext]_poolVars => Slots'
<1> SUFFICES ASSUME Structure, Slots, [PoolNext]_poolVars PROVE Slots'
  OBVIOUS
<1> USE PoolAssumption
<1> USE DEF Structure, WeakTypeOK, CallStates, Fates
<1>1. ASSUME NEW j \in Jobs, Call(j) \/ Submitter(j) PROVE Slots'
  <2>1. CASE Call(j)
    BY <2>1, SlotsKept DEF Call, HoldsSlot
  <2>2. CASE Acquire(j)
    <3>1. ~HoldsSlot(j) /\ HoldsSlot(j)' /\ \A k \in Jobs \ {j} : HoldsSlot(k)' <=> HoldsSlot(k)
      BY <2>2 DEF Acquire, HoldsSlot
    <3>2. QED BY <2>2, <3>1, SlotsTaken DEF Acquire
  <2>3. CASE GiveUp(j)
    BY <2>3, SlotsKept DEF GiveUp, HoldsSlot
  <2>4. CASE Offer(j)
    <3>1. CASE Ended(j)
      <4>1. HoldsSlot(j) /\ ~HoldsSlot(j)' /\ \A k \in Jobs \ {j} : HoldsSlot(k)' <=> HoldsSlot(k)
        BY <2>4, <3>1 DEF Offer, HoldsSlot
      <4>2. QED BY <2>4, <3>1, <4>1, SlotsReturned DEF Offer
    <3>2. CASE ~Ended(j)
      BY <2>4, <3>2, SlotsKept DEF Offer, HoldsSlot
    <3>3. QED BY <3>1, <3>2
  <2>5. CASE Drop(j)
    BY <2>5, SlotsKept DEF Drop, HoldsSlot
  <2>6. CASE Push(j)
    <3>1. /\ call[j] = "push"
          /\ call' = [call EXCEPT ![j] = "signal"]
          /\ fate' = [fate EXCEPT ![j] = "queued"]
          /\ UNCHANGED semaphore
      BY <2>6 DEF Push
    <3>2. QED BY <3>1, SlotsKept DEF HoldsSlot
  <2>7. CASE Signal(j)
    BY <2>7, SlotsKept DEF Signal, HoldsSlot
  <2>8. QED BY <1>1, <2>1, <2>2, <2>3, <2>4, <2>5, <2>6, <2>7 DEF Submitter
<1>2. ASSUME NEW w \in Workers, Loop(w) \/ Finish(w) PROVE Slots'
  <2>1. CASE Top(w) \/ Park(w)
    BY <2>1, SlotsKept DEF Top, Park, HoldsSlot
  <2>2. CASE Pop(w)
    <3>1. PICK j \in heap[Shard(w)] : fate' = [fate EXCEPT ![j] = "popped"]
      BY <2>2 DEF Pop
    <3>2. j \in Jobs /\ fate[j] = "queued"
      BY <3>1, PoolShape DEF JobInOnePlace
    <3>3. UNCHANGED <<semaphore, call>>
      BY <2>2 DEF Pop
    <3>4. QED BY <3>1, <3>2, <3>3, SlotsKept DEF HoldsSlot
  <2>3. CASE Skip(w) \/ Start(w)
    <3>1. cur[w] \in Jobs /\ fate[cur[w]] = "popped"
      BY <2>3 DEF Skip, Start, WorkerMatchesJob
    <3>2. QED BY <2>3, <3>1, SlotsKept DEF Skip, Start, HoldsSlot
  <2>4. CASE Finish(w)
    <3>1. PICK j \in Jobs : j = cur[w] /\ fate[j] = "running"
      BY <2>4 DEF Finish, WorkerMatchesJob
    <3>2. HoldsSlot(j) /\ ~HoldsSlot(j)' /\ \A k \in Jobs \ {j} : HoldsSlot(k)' <=> HoldsSlot(k)
      BY <2>4, <3>1 DEF Finish, HoldsSlot, CallMatchesFate
    <3>3. semaphore' = [semaphore EXCEPT ![ReqOf[j]] = @ - 1]
      BY <2>4, <3>1 DEF Finish
    <3>4. QED BY <3>1, <3>2, <3>3, SlotsReturned
  <2>5. QED BY <1>2, <2>1, <2>2, <2>3, <2>4 DEF Loop
<1>3. CASE (\E r \in Requests : Cancel(r)) \/ Shutdown \/ UNCHANGED poolVars
  BY <1>3, SlotsKept DEF Cancel, Shutdown, poolVars, HoldsSlot
<1>4. QED BY <1>1, <1>2, <1>3 DEF PoolNext

-----------------------------------------------------------------------------
(* The wakeups. *)

\* WakeupsCoverBacklog for one shard.
Covered(s) ==
    ~IsClosed(s) /\ Waiting(s) # {}
        => Cardinality(heap[s]) <= Cardinality(PendingSignals(s)) + Cardinality(Awake(s))

\* The backlog of a shard and the wakeups on the way to it can be counted.
LEMMA BacklogFinite ==
    ASSUME Structure, NEW s \in Shards
    PROVE  /\ IsFiniteSet(heap[s]) /\ Cardinality(heap[s]) \in Nat
           /\ IsFiniteSet(PendingSignals(s)) /\ Cardinality(PendingSignals(s)) \in Nat
           /\ IsFiniteSet(Awake(s)) /\ Cardinality(Awake(s)) \in Nat
<1>1. heap[s] \in SUBSET Jobs /\ PendingSignals(s) \in SUBSET Jobs /\ Awake(s) \in SUBSET Workers
  BY DEF Structure, WeakTypeOK, PendingSignals, Awake, WorkersOf
<1>2. QED BY <1>1, PoolAssumption, PoolShape, FS_Subset, FS_CardinalityType

\* The same in the next state.
LEMMA BacklogFiniteNext ==
    ASSUME Structure', NEW s \in Shards
    PROVE  /\ IsFiniteSet(heap[s]') /\ Cardinality(heap[s]') \in Nat
           /\ IsFiniteSet(PendingSignals(s)') /\ Cardinality(PendingSignals(s)') \in Nat
           /\ IsFiniteSet(Awake(s)') /\ Cardinality(Awake(s)') \in Nat
<1>1. heap[s]' \in SUBSET Jobs /\ PendingSignals(s)' \in SUBSET Jobs /\ Awake(s)' \in SUBSET Workers
  BY DEF Structure, WeakTypeOK, PendingSignals, Awake, WorkersOf
<1>2. QED BY <1>1, PoolAssumption, PoolShape, FS_Subset, FS_CardinalityType

\* Adding or removing one element changes the cardinality by one.
LEMMA CardinalityByOne ==
    ASSUME NEW S, NEW x, IsFiniteSet(S)
    PROVE  /\ x \notin S => Cardinality(S \cup {x}) = Cardinality(S) + 1
           /\ x \in S => Cardinality(S \ {x}) = Cardinality(S) - 1
  BY FS_AddElement, FS_RemoveElement

\* A step that adds no job to the shard, withdraws no wakeup and sends no worker
\* to sleep keeps the shard covered.
LEMMA CoveredKept ==
    ASSUME Structure, Structure', NEW s \in Shards, Covered(s), IsClosed(s) => IsClosed(s)',
           heap[s]' \subseteq heap[s],
           PendingSignals(s) \subseteq PendingSignals(s)',
           Awake(s) \subseteq Awake(s)',
           Waiting(s)' \subseteq Waiting(s)
    PROVE  Covered(s)'
<1>1. /\ Cardinality(heap[s]') <= Cardinality(heap[s])
      /\ Cardinality(PendingSignals(s)) <= Cardinality(PendingSignals(s)')
      /\ Cardinality(Awake(s)) <= Cardinality(Awake(s)')
  <2>1. IsFiniteSet(heap[s]) /\ IsFiniteSet(PendingSignals(s)') /\ IsFiniteSet(Awake(s)')
    BY BacklogFinite, BacklogFiniteNext
  <2>2. QED BY <2>1, FS_Subset
<1>2. /\ Cardinality(heap[s]) \in Nat /\ Cardinality(heap[s]') \in Nat
      /\ Cardinality(PendingSignals(s)) \in Nat /\ Cardinality(PendingSignals(s)') \in Nat
      /\ Cardinality(Awake(s)) \in Nat /\ Cardinality(Awake(s)') \in Nat
  BY BacklogFinite, BacklogFiniteNext
<1>3. QED BY <1>1, <1>2 DEF Covered

\* No worker sleeps at the start.
LEMMA CoveredInit == PoolInit => WakeupsCoverBacklog
  BY DEF PoolInit, WakeupsCoverBacklog, Waiting, WorkersOf

\* A submitting step keeps every shard covered: a push adds a job and a signal,
\* a signal turns a sleeping worker into one that is awake.
LEMMA CoveredSubmit ==
    ASSUME Structure, Structure', NEW j \in Jobs, Call(j) \/ Submitter(j),
           NEW s \in Shards, Covered(s)
    PROVE  Covered(s)'
<1> USE PoolAssumption, PoolShape
<1> USE DEF IsClosed
<1>1. CASE Call(j) \/ Acquire(j) \/ GiveUp(j) \/ Offer(j) \/ Drop(j)
  <2>1. /\ UNCHANGED <<heap, home, wpc, closed>>
        /\ call[j] # "signal"
        /\ \A k \in Jobs : k # j => call'[k] = call[k]
    BY <1>1 DEF Call, Acquire, GiveUp, Offer, Drop, Structure, WeakTypeOK
  <2>2. /\ heap[s]' \subseteq heap[s] /\ Awake(s) \subseteq Awake(s)'
        /\ Waiting(s)' \subseteq Waiting(s) /\ PendingSignals(s) \subseteq PendingSignals(s)'
    BY <2>1 DEF Awake, Waiting, WorkersOf, PendingSignals
  <2>3. QED BY <2>1, <2>2, CoveredKept
<1>2. CASE Push(j)
  <2> DEFINE t == (nextShard + 1) % NumShards
  <2>1. t \in Shards
    BY DEF Shards, Structure, WeakTypeOK
  <2>2. /\ home' = [home EXCEPT ![j] = t]
        /\ heap' = [heap EXCEPT ![t] = @ \cup {j}]
        /\ call' = [call EXCEPT ![j] = "signal"]
        /\ call[j] = "push"
        /\ UNCHANGED <<wpc, closed>>
    BY <1>2 DEF Push
  <2> HIDE DEF t
  <2>3. Awake(s)' = Awake(s) /\ Waiting(s)' = Waiting(s)
    BY <2>2 DEF Awake, Waiting, WorkersOf
  <2>4. CASE s # t
    <3>1. heap[s]' \subseteq heap[s] /\ PendingSignals(s) \subseteq PendingSignals(s)'
      BY <2>1, <2>2, <2>4 DEF PendingSignals, Structure, WeakTypeOK
    <3>2. QED BY <2>2, <2>3, <3>1, CoveredKept
  <2>5. CASE s = t
    <3>1. /\ heap[s]' = heap[s] \cup {j} /\ j \notin heap[s]
          /\ PendingSignals(s)' = PendingSignals(s) \cup {j} /\ j \notin PendingSignals(s)
      BY <2>1, <2>2, <2>5 DEF PendingSignals, Structure, WeakTypeOK, JobInOnePlace, CallMatchesFate
    <3>2. /\ Cardinality(heap[s]') = Cardinality(heap[s]) + 1
          /\ Cardinality(PendingSignals(s)') = Cardinality(PendingSignals(s)) + 1
      BY <3>1, BacklogFinite, CardinalityByOne
    <3>3. QED BY <2>2, <2>3, <3>2, BacklogFinite DEF Covered
  <2>6. QED BY <2>4, <2>5
<1>3. CASE Signal(j)
  <2>1. /\ call[j] = "signal"
        /\ call' = [call EXCEPT ![j] = "accepted"]
        /\ UNCHANGED <<heap, home, closed>>
    BY <1>3 DEF Signal
  <2>2. CASE Waiting(home[j]) = {} /\ UNCHANGED wpc
    <3>1. Awake(s)' = Awake(s) /\ Waiting(s)' = Waiting(s)
      BY <2>2 DEF Awake, Waiting, WorkersOf
    <3>2. CASE s = home[j]
      BY <2>2, <3>1, <3>2 DEF Covered
    <3>3. CASE s # home[j]
      <4>1. PendingSignals(s) \subseteq PendingSignals(s)'
        BY <2>1, <3>3 DEF PendingSignals, Structure, WeakTypeOK
      <4>2. QED BY <2>1, <3>1, <4>1, CoveredKept
    <3>4. QED BY <3>2, <3>3
  <2>3. ASSUME NEW w \in Waiting(home[j]), wpc' = [wpc EXCEPT ![w] = "lock"]
        PROVE  Covered(s)'
    <3>1. w \in Workers /\ Shard(w) = home[j] /\ wpc[w] = "wait"
      BY <2>3 DEF Waiting, WorkersOf
    <3>2. Waiting(s)' \subseteq Waiting(s)
      BY <2>3, <3>1 DEF Waiting, WorkersOf, Structure, WeakTypeOK
    <3>3. CASE s # home[j]
      <4>1. PendingSignals(s) \subseteq PendingSignals(s)' /\ Awake(s) \subseteq Awake(s)'
        BY <2>1, <2>3, <3>1, <3>3 DEF PendingSignals, Awake, WorkersOf, Structure, WeakTypeOK
      <4>2. QED BY <2>1, <3>2, <4>1, CoveredKept
    <3>4. CASE s = home[j]
      <4>1. /\ PendingSignals(s)' = PendingSignals(s) \ {j} /\ j \in PendingSignals(s)
            /\ Awake(s)' = Awake(s) \cup {w} /\ w \notin Awake(s)
        BY <2>1, <2>3, <3>1, <3>4 DEF PendingSignals, Awake, WorkersOf, Structure, WeakTypeOK
      <4>2. /\ Cardinality(PendingSignals(s)') = Cardinality(PendingSignals(s)) - 1
            /\ Cardinality(Awake(s)') = Cardinality(Awake(s)) + 1
        BY <4>1, BacklogFinite, CardinalityByOne
      <4>3. heap[s]' = heap[s] /\ (IsClosed(s)' <=> IsClosed(s)) /\ Waiting(s) # {}
        BY <2>1, <2>3, <3>4
      <4>4. QED BY <4>2, <4>3, BacklogFinite DEF Covered
    <3>5. QED BY <3>3, <3>4
  <2>4. QED BY <1>3, <2>2, <2>3 DEF Signal
<1>4. QED BY <1>1, <1>2, <1>3 DEF Submitter

\* A worker's step keeps every shard covered: it goes to sleep only over an empty
\* heap, and leaves the awake workers together with the job it takes.
LEMMA CoveredWorker ==
    ASSUME Structure, Structure', NEW w \in Workers, Loop(w) \/ Finish(w),
           NEW s \in Shards, Covered(s)
    PROVE  Covered(s)'
<1> USE PoolAssumption, PoolShape
<1>1. /\ UNCHANGED <<call, home, closed>>
      /\ \A v \in Workers : v # w => wpc'[v] = wpc[v]
      /\ wpc[w] # "wait"
      /\ \A u \in Shards : u # Shard(w) => heap'[u] = heap[u]
  BY DEF Loop, Top, Park, Pop, Skip, Start, Finish, Structure, WeakTypeOK
<1>2. PendingSignals(s)' = PendingSignals(s) /\ (IsClosed(s)' <=> IsClosed(s))
  BY <1>1 DEF PendingSignals, IsClosed
<1>3. CASE s # Shard(w)
  <2>1. Awake(s)' = Awake(s) /\ Waiting(s)' = Waiting(s)
    BY <1>1, <1>3 DEF Awake, Waiting, WorkersOf
  <2>2. QED BY <1>1, <1>2, <1>3, <2>1, CoveredKept
<1>4. CASE s = Shard(w) /\ (Top(w) \/ Skip(w) \/ Start(w) \/ Finish(w))
  <2>1. CASE IsClosed(s)
    BY <1>2, <2>1 DEF Covered
  <2>2. CASE ~IsClosed(s)
    <3>1. /\ heap' = heap /\ wpc'[w] # "wait"
          /\ wpc[w] \in {"top", "lock"} => wpc'[w] \in {"top", "lock"}
      BY <1>4, <2>2 DEF Top, Skip, Start, Finish, Structure, WeakTypeOK
    <3>2. Awake(s) \subseteq Awake(s)' /\ Waiting(s)' \subseteq Waiting(s)
      BY <1>1, <3>1 DEF Awake, Waiting, WorkersOf
    <3>3. QED BY <1>2, <3>1, <3>2, CoveredKept
  <2>3. QED BY <2>1, <2>2
<1>5. CASE s = Shard(w) /\ Park(w)
  <2>1. heap[s]' = {}
    BY <1>5 DEF Park
  <2>2. Cardinality(heap[s]') = 0
    BY <2>1, FS_EmptySet
  <2>3. QED BY <2>2, BacklogFiniteNext DEF Covered
<1>6. CASE s = Shard(w) /\ Pop(w)
  <2>1. PICK j \in heap[s] : heap' = [heap EXCEPT ![s] = @ \ {j}]
    BY <1>6 DEF Pop
  <2>2. wpc[w] = "lock" /\ wpc' = [wpc EXCEPT ![w] = "check"]
    BY <1>6 DEF Pop
  <2>3. Awake(s)' = Awake(s) \ {w} /\ w \in Awake(s) /\ Waiting(s)' = Waiting(s)
    BY <1>6, <2>2 DEF Awake, Waiting, WorkersOf, Structure, WeakTypeOK
  <2>4. heap[s]' = heap[s] \ {j}
    BY <2>1 DEF Structure, WeakTypeOK
  <2>5. /\ Cardinality(heap[s]') = Cardinality(heap[s]) - 1
        /\ Cardinality(Awake(s)') = Cardinality(Awake(s)) - 1
    BY <2>1, <2>3, <2>4, BacklogFinite, CardinalityByOne
  <2>6. QED BY <1>2, <2>3, <2>5, BacklogFinite DEF Covered
<1>7. QED BY <1>3, <1>4, <1>5, <1>6 DEF Loop

\* Every step of the pool keeps every backlog covered by wakeups.
LEMMA CoveredNext ==
    Structure /\ Structure' /\ WakeupsCoverBacklog /\ [PoolNext]_poolVars => WakeupsCoverBacklog'
<1> SUFFICES ASSUME Structure, Structure', WakeupsCoverBacklog, [PoolNext]_poolVars,
                    NEW s \in Shards
             PROVE  Covered(s)'
  BY DEF WakeupsCoverBacklog, Covered
<1>1. Covered(s)
  BY DEF WakeupsCoverBacklog, Covered
<1>2. CASE \E j \in Jobs : Call(j) \/ Submitter(j)
  BY <1>1, <1>2, CoveredSubmit
<1>3. CASE \E w \in Workers : Loop(w) \/ Finish(w)
  BY <1>1, <1>3, CoveredWorker
<1>4. CASE (\E r \in Requests : Cancel(r)) \/ Shutdown \/ UNCHANGED poolVars
  <2>1. UNCHANGED <<heap, home, call, wpc>> /\ (IsClosed(s) => IsClosed(s)')
    BY <1>4 DEF Cancel, Shutdown, poolVars, IsClosed, Structure, WeakTypeOK, Shards
  <2>2. /\ PendingSignals(s)' = PendingSignals(s) /\ Awake(s)' = Awake(s)
        /\ Waiting(s)' = Waiting(s)
    BY <2>1 DEF PendingSignals, Awake, Waiting
  <2>3. QED BY <1>1, <2>1, <2>2, CoveredKept
<1>5. QED BY <1>2, <1>3, <1>4 DEF PoolNext

-----------------------------------------------------------------------------
(* The theorems. *)

\* The inductive invariant holds in every reachable state.
THEOREM PoolInvariance == PoolSpec => []PoolInv
<1> DEFINE Inv == Structure /\ Slots /\ WakeupsCoverBacklog
<1>1. PoolInit => Inv
  BY StructureInit, SlotsInit, CoveredInit
<1>2. Inv /\ [PoolNext]_poolVars => Inv'
  BY StructureNext, SlotsNext, CoveredNext
<1>3. Inv => PoolInv
  BY DEF Structure, WeakTypeOK, Slots, PoolInv, PoolTypeOK
<1> HIDE DEF Inv
<1>4. QED BY <1>1, <1>2, <1>3, PTL DEF PoolSpec

\* The variables of the pool stay in their ranges; in particular no semaphore is
\* released more often than it was taken, nor taken beyond the quota.
THEOREM PoolTypeCorrect == PoolSpec => []PoolTypeOK
<1>1. PoolInv => PoolTypeOK
  BY DEF PoolInv
<1>2. QED BY <1>1, PoolInvariance, PTL

\* The slots taken of a request's semaphore are its admitted, unfinished jobs.
THEOREM PoolSlotAccounting == PoolSpec => []SlotAccounting
<1>1. PoolInv => SlotAccounting
  BY DEF PoolInv
<1>2. QED BY <1>1, PoolInvariance, PTL

\* No job is in two places, so none is run twice.
THEOREM PoolJobInOnePlace == PoolSpec => []JobInOnePlace
<1>1. PoolInv => JobInOnePlace
  BY DEF PoolInv
<1>2. QED BY <1>1, PoolInvariance, PTL

\* The pool throws a job away, or refuses it, only when its context has ended.
THEOREM PoolAbandons == PoolSpec => []AbandonedOnlyIfEnded
<1>1. PoolInv => AbandonedOnlyIfEnded
  BY DEF PoolInv
<1>2. QED BY <1>1, PoolInvariance, PTL

\* No wakeup is lost although Signal is called after the mutex is released.
THEOREM PoolNoLostWakeup == PoolSpec => []NoLostWakeup
<1>1. PoolInv => NoLostWakeup
  <2> SUFFICES ASSUME PoolInv, NEW s \in Shards, ~IsClosed(s), heap[s] # {}, Waiting(s) # {},
                      PendingSignals(s) = {}, Awake(s) = {}
               PROVE  FALSE
    BY DEF NoLostWakeup
  <2>1. Cardinality(heap[s]) <= 0 + 0
    BY FS_EmptySet DEF PoolInv, WakeupsCoverBacklog
  <2>2. IsFiniteSet(heap[s])
    <3>1. heap[s] \in SUBSET Jobs
      BY DEF PoolInv, PoolTypeOK
    <3>2. QED BY <3>1, PoolAssumption, FS_Subset
  <2>3. Cardinality(heap[s]) \in Nat /\ Cardinality(heap[s]) # 0
    BY <2>2, FS_CardinalityType, FS_EmptySet
  <2>4. QED BY <2>1, <2>3
<1>2. QED BY <1>1, PoolInvariance, PTL

-----------------------------------------------------------------------------
(* The field processor *)

Active(j) == npc[j] \notin {"idle", "end"}
Fresh(j) == npc[j] = "idle" /\ call[j] = "idle"

CurrentBatch(n) == IF InRest(n) THEN Rest[n] ELSE Ordered[n][batch[n]]
LaterBatches(n) ==
    {j \in Jobs : \/ ~InRest(n) /\ j \in Rest[n]
                  \/ \E k \in DOMAIN Ordered[n] : k > batch[n] /\ j \in Ordered[n][k]}

\* Where the nodes are in their batches.
Places ==
    /\ batch \in [Inner -> Nat] /\ \A n \in Inner : batch[n] \in 1 .. Len(Ordered[n]) + 1
    /\ todo \in [Inner -> SUBSET Jobs]

\* The types of the variables, with the channels and the batches as functions.
FieldTypeOK ==
    /\ Places
    /\ npc \in [Nodes -> NodeStates]
    /\ at \in [Inner -> Jobs \cup {None}]
    /\ wg \in [Inner -> Int]
    /\ made \subseteq Jobs
    /\ got \in [Inner -> SUBSET Jobs]
    /\ ch \in [Requests -> Seq(Jobs)] /\ \A r \in Requests : Len(ch[r]) <= BufferSize
    /\ outcome \in [Requests -> {"running", "ok", "error", "timeout"}]

\* A field the pool was asked to run is in progress exactly while its function runs; one
\* in progress without the pool is the one its parent processes itself.  A call of
\* SubmitWithContext that has not returned is the one the parent is at; a field inside
\* the pool belongs to the batch the parent waits for.
FieldOK(j) ==
    LET p == ParentOf[j]
    IN  /\ call[j] # "idle" => (Active(j) <=> fate[j] = "running") /\ (npc[j] = "end" <=> fate[j] = "done")
        /\ call[j] = "idle" /\ Active(j) => npc[p] = "inline" /\ at[p] = j
        /\ call[j] \in {"acquire", "offer", "push", "signal"} => npc[p] = "submitting" /\ at[p] = j
        /\ fate[j] \in {"queued", "popped", "running"}
             => npc[p] \in {"submit", "submitting"} /\ j \in CurrentBatch(p)

\* What a node is at is the field it processes itself or the one it is submitting, and
\* what it has not come to yet is untouched.
NodeOK(n) ==
    /\ npc[n] = "inline" => at[n] \in CurrentBatch(n) /\ call[at[n]] = "idle" /\ Active(at[n])
    /\ npc[n] = "submitting" => at[n] \in CurrentBatch(n) /\ call[at[n]] # "idle"
    /\ npc[n] = "sequential" => InRest(n)
    /\ npc[n] \in {"idle", "start", "llm", "batch"} => \A j \in CurrentBatch(n) : Fresh(j)
    /\ npc[n] \in {"idle", "start", "llm", "batch", "submit", "submitting", "sequential", "inline"}
         => \A j \in LaterBatches(n) : Fresh(j)
    /\ npc[n] \in {"submit", "submitting", "sequential"} \/ (npc[n] = "inline" /\ InRest(n))
         => todo[n] \subseteq CurrentBatch(n) /\ \A j \in todo[n] : Fresh(j)

Joins == FieldTypeOK /\ (\A j \in Jobs : FieldOK(j)) /\ (\A n \in Inner : NodeOK(n))

\* Before the deadline a result that was made is about to be collected, or in the
\* channel, or collected.
Sent(j) == ParentOf[j] \in Requests /\ \E i \in DOMAIN ch[ParentOf[j]] : ch[ParentOf[j]][i] = j
Kept == \A j \in made : ReqOf[j] \in cancelled \/ npc[j] = "value" \/ j \in got[ParentOf[j]] \/ Sent(j)

FieldIInv == Joins /\ WaitGroupAccounting /\ Kept

-----------------------------------------------------------------------------
(* The pool underneath. *)

\* A node goes through its batches in order, and puts only fields into todo.
LEMMA PlacesKept == Places /\ [Next]_vars => Places'
<1> SUFFICES ASSUME Places, [Next]_vars PROVE Places'
  OBVIOUS
<1>1. ASSUME NEW n \in Inner, Process(n)
      PROVE  Places'
  <2>1. /\ Ordered[n] \in Seq(SUBSET Jobs) /\ Len(Ordered[n]) \in Nat /\ DOMAIN Ordered[n] = 1 .. Len(Ordered[n])
        /\ Rest[n] \in SUBSET Jobs /\ batch[n] \in 1 .. Len(Ordered[n]) + 1 /\ todo[n] \in SUBSET Jobs
    BY FieldAssumption DEF Places
  <2>2. /\ batch' = batch \/ \E i \in 1 .. Len(Ordered[n]) + 1 : batch' = [batch EXCEPT ![n] = i]
        /\ todo' = todo \/ \E B \in SUBSET Jobs : todo' = [todo EXCEPT ![n] = B]
    <3>1. CASE OrderedBatch(n)
      <4>1. batch[n] \in DOMAIN Ordered[n] /\ Len(Ordered[n]) + 1 \in 1 .. Len(Ordered[n]) + 1
        BY <2>1, <3>1 DEF OrderedBatch, InRest
      <4>2. Ordered[n][batch[n]] \in SUBSET Jobs
        BY <2>1, <4>1
      <4>3. QED BY <3>1, <4>1, <4>2 DEF OrderedBatch
    <3>2. CASE RestBatch(n)
      BY <2>1, <3>2 DEF RestBatch
    <3>3. CASE Sequential(n)
      BY <2>1, <3>3 DEF Sequential
    <3>4. CASE InlineDone(n)
      BY <2>1, <3>4 DEF InlineDone, InRest
    <3>5. CASE SubmitField(n)
      <4>1. todo' = todo \/ \E j \in todo[n] : todo' = [todo EXCEPT ![n] = todo[n] \ {j}]
        BY <3>5 DEF SubmitField
      <4>2. batch' = batch
        BY <3>5 DEF SubmitField
      <4>3. QED BY <2>1, <4>1, <4>2
    <3>6. CASE WaitForCompletion(n)
      <4>1. (IF InRest(n) THEN batch[n] ELSE batch[n] + 1) \in 1 .. Len(Ordered[n]) + 1
        BY <2>1 DEF InRest
      <4>2. batch' = [batch EXCEPT ![n] = IF InRest(n) THEN batch[n] ELSE batch[n] + 1] /\ todo' = todo
        BY <3>6 DEF WaitForCompletion
      <4>3. QED BY <4>1, <4>2
    <3>7. CASE SubmitReturned(n) \/ Gathered(n)
      BY <3>7 DEF SubmitReturned, Gathered
    <3>8. QED BY <1>1, <3>1, <3>2, <3>3, <3>4, <3>5, <3>6, <3>7 DEF Process
  <2>3. batch' \in [Inner -> Nat] /\ \A m \in Inner : batch'[m] \in 1 .. Len(Ordered[m]) + 1
    BY <2>1, <2>2 DEF Places
  <2>4. todo' \in [Inner -> SUBSET Jobs]
    BY <2>2 DEF Places
  <2>5. QED BY <2>3, <2>4 DEF Places
<1>2. CASE UNCHANGED <<batch, todo>>
  BY <1>2 DEF Places
<1>3. QED
  BY <1>1, <1>2 DEF Next, Field, BeginField, GenerateField, OnWorker, StartField, CollectField, FinishField, Consume,
                    Receive, Complete, Timeout, PoolStep, fieldVars, vars

\* Every step of the field processor is one of the pool or leaves it alone; the deferred
\* cancel of Generate is the end of the request's context.
LEMMA StepsOfPool == Places /\ [Next]_vars => [PoolNext]_poolVars
<1> SUFFICES ASSUME Places, [Next]_vars PROVE [PoolNext]_poolVars
  OBVIOUS
<1>1. ASSUME NEW n \in Inner, Process(n)
      PROVE  [PoolNext]_poolVars
  <2>1. CASE SubmitField(n)
    <3>1. PICK j \in todo[n] : Call(j)
      BY <2>1 DEF SubmitField
    <3>2. j \in Jobs
      BY <3>1 DEF Places
    <3>3. QED BY <3>1, <3>2 DEF PoolNext
  <2>2. CASE ~SubmitField(n)
    BY <1>1, <2>2 DEF Process, OrderedBatch, RestBatch, Sequential, InlineDone, SubmitReturned, WaitForCompletion, Gathered
  <2>3. QED BY <2>1, <2>2
<1>2. ASSUME NEW j \in Jobs, Field(j)
      PROVE  [PoolNext]_poolVars
  BY <1>2 DEF Field, BeginField, GenerateField
<1>3. ASSUME NEW w \in Workers, OnWorker(w)
      PROVE  [PoolNext]_poolVars
  BY <1>3 DEF OnWorker, StartField, CollectField, FinishField, PoolNext, Loop
<1>4. ASSUME NEW r \in Requests, Consume(r) \/ Timeout(r)
      PROVE  [PoolNext]_poolVars
  <2>1. CASE Receive(r)
    BY <2>1 DEF Receive
  <2>2. CASE Complete(r)
    <3>1. CASE r \in cancelled
      BY <2>2, <3>1 DEF Complete, poolVars
    <3>2. CASE r \notin cancelled
      <4>1. Cancel(r)
        BY <2>2, <3>2, FieldAssumption DEF Complete, Cancel
      <4>2. QED BY <4>1 DEF PoolNext
    <3>3. QED BY <3>1, <3>2
  <2>3. CASE Timeout(r)
    BY <2>3 DEF Timeout, PoolNext
  <2>4. QED BY <1>4, <2>1, <2>2, <2>3 DEF Consume
<1>5. CASE PoolStep
  BY <1>5 DEF PoolStep, PoolNext, Loop
<1>6. CASE UNCHANGED vars
  BY <1>6 DEF vars
<1>7. QED BY <1>1, <1>2, <1>3, <1>4, <1>5, <1>6 DEF Next

\* What is proved of the pool alone holds in the composition: by its definition every step
\* here is a step of WorkerPool or leaves it alone.
LEMMA PoolWithin == Spec => PoolSpec
<1>1. Init => PoolInit /\ Places
  BY FieldAssumption DEF Init, Places
<1>2. QED BY <1>1, PlacesKept, StepsOfPool, PTL DEF Spec, PoolSpec

-----------------------------------------------------------------------------
(* The tree and its batches. *)

\* No field is its own parent.
LEMMA ParentApart == \A j \in Jobs : ParentOf[j] # j /\ ParentOf[j] \in Inner
<1> SUFFICES ASSUME NEW j \in Jobs PROVE ParentOf[j] # j /\ ParentOf[j] \in Inner
  OBVIOUS
<1>1. ParentOf[j] \in Inner /\ ReqOf[j] \in Requests /\ Requests \cap Jobs = {}
  BY FieldAssumption, PoolAssumption
<1>2. ASSUME ParentOf[j] = j PROVE FALSE
  <2>1. {j} \in SUBSET Inner
    BY <1>1, <1>2
  <2>2. ReqOf[j] \in {j}
    BY <1>2, <2>1, TreeAssumption
  <2>3. QED BY <1>1, <2>2
<1>3. QED BY <1>1, <1>2

\* The batches of a node hold its own fields, and what comes later is not in the current one.
LEMMA BatchShape ==
    ASSUME FieldTypeOK, NEW n \in Inner
    PROVE  /\ \A j \in CurrentBatch(n) \cup LaterBatches(n) : j \in Jobs /\ ParentOf[j] = n
           /\ CurrentBatch(n) \cap LaterBatches(n) = {}
<1>1. batch[n] \in 1 .. Len(Ordered[n]) + 1 /\ Ordered[n] \in Seq(SUBSET Jobs) /\ Rest[n] \in SUBSET Jobs
  BY FieldAssumption DEF FieldTypeOK, Places
<1>2. \A i \in DOMAIN Ordered[n] : Ordered[n][i] \in BatchSets(n) /\ Ordered[n][i] \in SUBSET Jobs
  BY <1>1 DEF BatchSets
<1>3. Rest[n] \in BatchSets(n)
  BY DEF BatchSets
<1>4. \A B \in BatchSets(n) : \A j \in B : ParentOf[j] = n
  BY FieldAssumption
<1>5. ~InRest(n) => batch[n] \in DOMAIN Ordered[n]
  BY <1>1 DEF InRest
<1>6. \A j \in CurrentBatch(n) : j \in Jobs /\ ParentOf[j] = n
  BY <1>1, <1>2, <1>3, <1>4, <1>5 DEF CurrentBatch
<1>7. \A j \in LaterBatches(n) : j \in Jobs /\ ParentOf[j] = n
  BY <1>1, <1>2, <1>3, <1>4 DEF LaterBatches
<1>8. \A i, k \in DOMAIN Ordered[n] : Ordered[n][i] \cap Rest[n] = {} /\ (i # k => Ordered[n][i] \cap Ordered[n][k] = {})
  BY FieldAssumption
<1>9. CurrentBatch(n) \cap LaterBatches(n) = {}
  <2>1. CASE InRest(n)
    <3>1. LaterBatches(n) = {}
      <4>1. \A k \in DOMAIN Ordered[n] : ~(k > batch[n])
        BY <1>1, <2>1 DEF InRest
      <4>2. QED BY <2>1, <4>1 DEF LaterBatches
    <3>2. QED BY <3>1
  <2>2. CASE ~InRest(n)
    <3>1. ASSUME NEW j \in CurrentBatch(n), j \in LaterBatches(n) PROVE FALSE
      <4>1. j \in Ordered[n][batch[n]]
        BY <2>2, <3>1 DEF CurrentBatch
      <4>2. j \in Rest[n] \/ \E k \in DOMAIN Ordered[n] : k > batch[n] /\ j \in Ordered[n][k]
        BY <3>1 DEF LaterBatches
      <4>3. batch[n] \in DOMAIN Ordered[n] /\ batch[n] \in Int
        BY <1>1, <1>5, <2>2
      <4>4. QED BY <1>1, <1>8, <4>1, <4>2, <4>3
    <3>2. QED BY <3>1
  <2>3. QED BY <2>1, <2>2
<1>10. QED BY <1>6, <1>7, <1>9

\* Once the current batch of a node is over, the next one was still ahead of it.
LEMMA NextBatch ==
    ASSUME FieldTypeOK, NEW n \in Inner, ~InRest(n), batch'[n] \in {batch[n] + 1, Len(Ordered[n]) + 1}
    PROVE  CurrentBatch(n)' \subseteq LaterBatches(n) /\ LaterBatches(n)' \subseteq LaterBatches(n)
<1>1. batch[n] \in 1 .. Len(Ordered[n]) + 1 /\ Ordered[n] \in Seq(SUBSET Jobs) /\ batch'[n] \in Nat
      /\ Len(Ordered[n]) \in Nat /\ DOMAIN Ordered[n] = 1 .. Len(Ordered[n])
  BY FieldAssumption DEF FieldTypeOK, Places
<1>2. Rest[n] \subseteq LaterBatches(n) /\ \A k \in DOMAIN Ordered[n] : k > batch[n] => Ordered[n][k] \subseteq LaterBatches(n)
  <2>1. Rest[n] \in SUBSET Jobs /\ \A k \in DOMAIN Ordered[n] : Ordered[n][k] \in SUBSET Jobs
    BY <1>1, FieldAssumption
  <2>2. QED BY <2>1 DEF LaterBatches
<1>3. batch'[n] > batch[n]
  BY <1>1 DEF InRest
<1>4. CurrentBatch(n)' \subseteq LaterBatches(n)
  <2>1. CASE InRest(n)'
    BY <1>2, <2>1 DEF CurrentBatch
  <2>2. CASE ~InRest(n)'
    <3>1. batch'[n] \in DOMAIN Ordered[n]
      BY <1>1, <1>3, <2>2 DEF InRest
    <3>2. QED BY <1>2, <1>3, <2>2, <3>1 DEF CurrentBatch
  <2>3. QED BY <2>1, <2>2
<1>5. LaterBatches(n)' \subseteq LaterBatches(n)
  <2>1. \A k \in DOMAIN Ordered[n] : k > batch'[n] => k > batch[n]
    BY <1>1, <1>3
  <2>2. SUFFICES ASSUME NEW j \in LaterBatches(n)' PROVE j \in LaterBatches(n)
    OBVIOUS
  <2>3. j \in Rest[n] \/ \E k \in DOMAIN Ordered[n] : k > batch'[n] /\ j \in Ordered[n][k]
    BY <2>2 DEF LaterBatches
  <2>4. QED BY <1>2, <2>1, <2>3
<1>6. QED BY <1>4, <1>5

-----------------------------------------------------------------------------
(* What a step leaves alone stays in order. *)

\* A field stays in order when neither it nor the place of its parent changes.
LEMMA FieldFrame ==
    ASSUME NEW j \in Jobs, FieldOK(j), call'[j] = call[j], fate'[j] = fate[j],
           Active(j)' <=> Active(j), npc'[j] = "end" <=> npc[j] = "end",
           \/ UNCHANGED <<npc[ParentOf[j]], at[ParentOf[j]], batch[ParentOf[j]]>>
           \/ npc[ParentOf[j]] \notin {"inline", "submit", "submitting"}
    PROVE  FieldOK(j)'
<1>1. CASE npc[ParentOf[j]] \notin {"inline", "submit", "submitting"}
  BY <1>1 DEF FieldOK
<1>2. CASE UNCHANGED <<npc[ParentOf[j]], at[ParentOf[j]], batch[ParentOf[j]]>>
  BY <1>2 DEF FieldOK, CurrentBatch, InRest
<1>3. QED BY <1>1, <1>2

\* A node stays in order when it stays where it is, or is started, or is over, and its
\* fields are not touched.
LEMMA NodeFrame ==
    ASSUME FieldTypeOK, NEW n \in Inner, NodeOK(n), UNCHANGED <<at[n], batch[n], todo[n]>>,
           \/ npc'[n] = npc[n]
           \/ npc[n] \in {"idle", "start", "llm"} /\ npc'[n] \in {"start", "llm", "batch"}
           \/ npc'[n] \in {"gathered", "closed", "value", "novalue", "collected", "end"},
           \A k \in Jobs : ParentOf[k] = n => /\ Fresh(k) => Fresh(k)'
                                              /\ call[k] = "idle" /\ Active(k) => call'[k] = "idle" /\ Active(k)'
                                              /\ call[k] # "idle" => call'[k] # "idle"
    PROVE  NodeOK(n)'
<1>1. CurrentBatch(n)' = CurrentBatch(n) /\ LaterBatches(n)' = LaterBatches(n) /\ InRest(n)' = InRest(n)
  BY DEF CurrentBatch, LaterBatches, InRest
<1>2. \A j \in CurrentBatch(n) \cup LaterBatches(n) : j \in Jobs /\ ParentOf[j] = n
  BY BatchShape
<1>3. CASE npc'[n] = npc[n]
  <2>1. npc'[n] = "inline" => at'[n] \in CurrentBatch(n)' /\ call'[at'[n]] = "idle" /\ Active(at[n])'
    BY <1>1, <1>2, <1>3 DEF NodeOK
  <2>2. npc'[n] = "submitting" => at'[n] \in CurrentBatch(n)' /\ call'[at'[n]] # "idle"
    BY <1>1, <1>2, <1>3 DEF NodeOK
  <2>3. npc'[n] = "sequential" => InRest(n)'
    BY <1>1, <1>3 DEF NodeOK
  <2>4. /\ npc'[n] \in {"idle", "start", "llm", "batch"} => \A j \in CurrentBatch(n)' : Fresh(j)'
        /\ npc'[n] \in {"idle", "start", "llm", "batch", "submit", "submitting", "sequential", "inline"}
             => \A j \in LaterBatches(n)' : Fresh(j)'
    <3>1. \A j \in CurrentBatch(n) \cup LaterBatches(n) : Fresh(j) => Fresh(j)'
      BY <1>2
    <3>2. QED BY <1>1, <1>3, <3>1 DEF NodeOK
  <2>5. npc'[n] \in {"submit", "submitting", "sequential"} \/ (npc'[n] = "inline" /\ InRest(n)')
          => todo'[n] \subseteq CurrentBatch(n)' /\ \A j \in todo'[n] : Fresh(j)'
    BY <1>1, <1>2, <1>3 DEF NodeOK
  <2>6. QED BY <2>1, <2>2, <2>3, <2>4, <2>5 DEF NodeOK
<1>4. CASE npc[n] \in {"idle", "start", "llm"} /\ npc'[n] \in {"start", "llm", "batch"}
  BY <1>1, <1>2, <1>4 DEF NodeOK
<1>5. CASE npc'[n] \in {"gathered", "closed", "value", "novalue", "collected", "end"}
  BY <1>5 DEF NodeOK
<1>6. QED BY <1>3, <1>4, <1>5

\* A step of node n, which may start or end one of its fields, keeps the rest in order.
LEMMA OwnStep ==
    ASSUME Joins, FieldTypeOK', NEW n \in Inner, npc[n] \notin {"idle", "end"}, npc'[n] \notin {"idle", "end"},
           \A m \in Nodes \ {n} :
              \/ npc'[m] = npc[m]
              \/ m \in Jobs /\ ParentOf[m] = n /\ npc[m] = "idle" /\ npc'[m] = "start"
              \/ m \in Jobs /\ ParentOf[m] = n /\ npc[m] \in {"value", "novalue"} /\ npc'[m] = "end",
           \A m \in Inner \ {n} : UNCHANGED <<at[m], batch[m], todo[m]>>,
           \A k \in Jobs : ParentOf[k] # n => UNCHANGED <<call[k], fate[k]>>,
           NodeOK(n)',
           \A k \in Jobs : ParentOf[k] = n => FieldOK(k)'
    PROVE  Joins'
<1>1. ASSUME NEW j \in Jobs
      PROVE  FieldOK(j)'
  <2>1. CASE ParentOf[j] = n
    BY <2>1
  <2>2. CASE ParentOf[j] # n
    <3>1. ParentOf[j] \in Inner \ {n} /\ ParentOf[j] \in Nodes /\ j \in Nodes
      BY <2>2, ParentApart, FieldAssumption DEF Nodes, Inner
    <3>2. /\ npc'[ParentOf[j]] = npc[ParentOf[j]] \/ npc[ParentOf[j]] \notin {"inline", "submit", "submitting"}
          /\ UNCHANGED <<at[ParentOf[j]], batch[ParentOf[j]]>>
      BY <3>1
    <3>3. (Active(j)' <=> Active(j)) /\ (npc'[j] = "end" <=> npc[j] = "end")
      BY <2>2, <3>1 DEF Active
    <3>4. FieldOK(j) /\ UNCHANGED <<call[j], fate[j]>>
      BY <2>2 DEF Joins
    <3>5. QED BY <3>2, <3>3, <3>4, FieldFrame
  <2>3. QED BY <2>1, <2>2
<1>2. ASSUME NEW m \in Inner
      PROVE  NodeOK(m)'
  <2>1. CASE m = n
    BY <2>1
  <2>2. CASE m # n
    <3>1. m \in Nodes /\ NodeOK(m) /\ FieldTypeOK
      BY FieldAssumption DEF Nodes, Inner, Joins
    <3>2. \/ npc'[m] = npc[m]
          \/ npc[m] \in {"idle", "start", "llm"} /\ npc'[m] \in {"start", "llm", "batch"}
          \/ npc'[m] \in {"gathered", "closed", "value", "novalue", "collected", "end"}
      BY <2>2, <3>1
    <3>3. ASSUME NEW k \in Jobs, ParentOf[k] = m
          PROVE  /\ Fresh(k) => Fresh(k)'
                 /\ call[k] = "idle" /\ Active(k) => call'[k] = "idle" /\ Active(k)'
                 /\ call[k] # "idle" => call'[k] # "idle"
      <4>1. call'[k] = call[k] /\ k \in Nodes
        BY <2>2, <3>3 DEF Nodes
      <4>2. npc'[k] = npc[k] \/ k = n
        BY <2>2, <3>3, <4>1
      <4>3. QED BY <4>1, <4>2 DEF Fresh, Active
    <3>4. QED BY <2>2, <3>1, <3>2, <3>3, NodeFrame
  <2>3. QED BY <2>1, <2>2
<1>3. QED BY <1>1, <1>2 DEF Joins

\* A step that only moves one node from before or after its batches to another such
\* place keeps everything in order.
LEMMA QuietMove ==
    ASSUME Joins, FieldTypeOK', NEW m \in Nodes, NEW p, npc' = [npc EXCEPT ![m] = p],
           \/ npc[m] \in {"start", "llm"} /\ p \in {"llm", "batch", "value", "novalue"}
           \/ npc[m] \in {"gathered", "value"} /\ p \in {"closed", "value", "collected"},
           UNCHANGED <<at, batch, todo, call, fate>>
    PROVE  Joins'
<1>1. npc'[m] = p /\ \A k \in Nodes : k # m => npc'[k] = npc[k]
  BY DEF Joins, FieldTypeOK
<1>2. \A k \in Nodes : (Active(k)' <=> Active(k)) /\ (npc'[k] = "end" <=> npc[k] = "end")
  BY <1>1 DEF Active
<1>3. ASSUME NEW j \in Jobs
      PROVE  FieldOK(j)'
  <2>1. ParentOf[j] \in Nodes /\ j \in Nodes /\ FieldOK(j)
    BY ParentApart, FieldAssumption DEF Nodes, Inner, Joins
  <2>2. npc'[ParentOf[j]] = npc[ParentOf[j]] \/ npc[ParentOf[j]] \notin {"inline", "submit", "submitting"}
    BY <1>1, <2>1
  <2>3. QED BY <1>2, <2>1, <2>2, FieldFrame
<1>4. ASSUME NEW n \in Inner
      PROVE  NodeOK(n)'
  <2>1. n \in Nodes /\ NodeOK(n) /\ FieldTypeOK
    BY FieldAssumption DEF Nodes, Inner, Joins
  <2>2. \/ npc'[n] = npc[n]
        \/ npc[n] \in {"idle", "start", "llm"} /\ npc'[n] \in {"start", "llm", "batch"}
        \/ npc'[n] \in {"gathered", "closed", "value", "novalue", "collected", "end"}
    BY <1>1, <2>1
  <2>3. \A k \in Jobs : /\ Fresh(k) => Fresh(k)'
                        /\ call[k] = "idle" /\ Active(k) => call'[k] = "idle" /\ Active(k)'
                        /\ call[k] # "idle" => call'[k] # "idle"
    BY <1>1, <1>2 DEF Fresh, Nodes
  <2>4. QED BY <2>1, <2>2, <2>3, NodeFrame
<1>5. QED BY <1>3, <1>4 DEF Joins

-----------------------------------------------------------------------------
(* The steps of a node. *)

\* A node that runs field j of its batch itself.
LEMMA InlineKeeps ==
    ASSUME Joins, Structure, FieldTypeOK', NEW n \in Inner, NEW j \in CurrentBatch(n), Fresh(j),
           npc[n] \in {"batch", "sequential"}, RunInline(n, j), UNCHANGED <<batch, call, fate>>,
           \A m \in Inner \ {n} : todo'[m] = todo[m],
           InRest(n) => todo'[n] \subseteq CurrentBatch(n) \ {j} /\ \A k \in todo'[n] : Fresh(k)
    PROVE  Joins'
<1>1. j \in Jobs /\ ParentOf[j] = n /\ j # n /\ j \in Nodes /\ n \in Nodes /\ j \notin LaterBatches(n)
  BY BatchShape, ParentApart, FieldAssumption DEF Joins, Nodes, Inner
<1>2. /\ npc'[n] = "inline" /\ npc'[j] = "start" /\ \A m \in Nodes : m \notin {n, j} => npc'[m] = npc[m]
      /\ at'[n] = j /\ \A m \in Inner : m # n => at'[m] = at[m]
  BY <1>1 DEF RunInline, Joins, FieldTypeOK
<1>3. npc[j] = "idle" /\ call[j] = "idle" /\ fate[j] = "none"
  BY <1>1 DEF Fresh, Structure, CallMatchesFate
<1>4. CurrentBatch(n)' = CurrentBatch(n) /\ LaterBatches(n)' = LaterBatches(n) /\ InRest(n)' = InRest(n)
  BY DEF CurrentBatch, LaterBatches, InRest
<1>5. \A k \in CurrentBatch(n) \cup LaterBatches(n) : k \in Jobs /\ k # n /\ (k # j => (Fresh(k) => Fresh(k)'))
  BY <1>2, BatchShape, ParentApart DEF Fresh, Nodes, Joins
<1>6. NodeOK(n)'
  <2>1. at'[n] \in CurrentBatch(n)' /\ call'[at'[n]] = "idle" /\ Active(j)'
    BY <1>2, <1>3, <1>4 DEF Active
  <2>2. \A k \in LaterBatches(n) : Fresh(k)
    BY DEF Joins, NodeOK
  <2>3. \A k \in LaterBatches(n)' : Fresh(k)'
    BY <1>1, <1>4, <1>5, <2>2
  <2>4. InRest(n)' => todo'[n] \subseteq CurrentBatch(n)' /\ \A k \in todo'[n] : Fresh(k)'
    BY <1>4, <1>5
  <2>5. QED BY <1>2, <2>1, <2>3, <2>4 DEF NodeOK, Active
<1>7. ASSUME NEW k \in Jobs, ParentOf[k] = n
      PROVE  FieldOK(k)'
  <2>1. CASE k = j
    BY <1>2, <1>3, <1>7, <2>1 DEF FieldOK
  <2>2. CASE k # j
    <3>1. npc'[k] = npc[k]
      BY <1>2, <1>7, <2>2, ParentApart DEF Nodes
    <3>2. npc[ParentOf[k]] \notin {"inline", "submit", "submitting"} /\ FieldOK(k)
      BY <1>7 DEF Joins
    <3>3. QED BY <3>1, <3>2, FieldFrame DEF Active
  <2>3. QED BY <2>1, <2>2
<1>8. QED BY <1>1, <1>2, <1>3, <1>6, <1>7, OwnStep

\* A step of node n that leaves its fields and the pool alone.
LEMMA MoveKeeps ==
    ASSUME Joins, FieldTypeOK', NEW n \in Inner, NEW p, npc' = [npc EXCEPT ![n] = p], npc[n] \notin {"idle", "end"},
           p \notin {"idle", "end"},
           \A k \in Jobs : ParentOf[k] = n => FieldOK(k)',
           \A m \in Inner \ {n} : UNCHANGED <<at[m], batch[m], todo[m]>>, UNCHANGED <<call, fate>>,
           NodeOK(n)'
    PROVE  Joins'
<1>1. n \in Nodes /\ npc'[n] = p /\ \A m \in Nodes : m # n => npc'[m] = npc[m]
  BY FieldAssumption DEF Joins, FieldTypeOK, Nodes, Inner
<1>2. QED BY <1>1, OwnStep

\* Fields of a node that waits for none of them stay in order, whatever it does next.
LEMMA NobodyWaited ==
    ASSUME Joins, NEW n \in Inner, NEW p, npc' = [npc EXCEPT ![n] = p], npc[n] \notin {"inline", "submit", "submitting"},
           UNCHANGED <<call, fate>>
    PROVE  \A k \in Jobs : ParentOf[k] = n => FieldOK(k)'
<1> SUFFICES ASSUME NEW k \in Jobs, ParentOf[k] = n PROVE FieldOK(k)'
  OBVIOUS
<1>1. npc'[k] = npc[k] /\ FieldOK(k)
  BY ParentApart DEF Joins, FieldTypeOK, Nodes
<1>2. QED BY <1>1, FieldFrame DEF Active

\* The fields of a node are not its own place.
LEMMA FreshKept ==
    ASSUME Joins, NEW n \in Inner, NEW p, npc' = [npc EXCEPT ![n] = p], call' = call
    PROVE  \A k \in Jobs : ParentOf[k] = n /\ Fresh(k) => Fresh(k)'
  BY ParentApart DEF Joins, FieldTypeOK, Nodes, Fresh

\* A batch of the ProcessingOrder begins, or the batches are abandoned.
LEMMA OrderedBatchKeeps ==
    ASSUME Joins, Structure, FieldTypeOK', NEW n \in Inner, OrderedBatch(n)
    PROVE  Joins'
<1>1. npc[n] = "batch" /\ ~InRest(n) /\ CurrentBatch(n) = Ordered[n][batch[n]] /\ UNCHANGED <<call, fate>> /\ FieldTypeOK
  BY DEF OrderedBatch, CurrentBatch, poolVars, Joins
<1>2. NodeOK(n) /\ (\A k \in CurrentBatch(n) : Fresh(k)) /\ (\A k \in LaterBatches(n) : Fresh(k))
  BY <1>1 DEF Joins, NodeOK
<1>3. \A k \in CurrentBatch(n) \cup LaterBatches(n) : k \in Jobs /\ ParentOf[k] = n
  BY <1>1, BatchShape
<1>4. CASE batch' = [batch EXCEPT ![n] = Len(Ordered[n]) + 1] /\ UNCHANGED <<npc, at, todo>>
  <2>1. batch'[n] = Len(Ordered[n]) + 1 /\ \A m \in Inner \ {n} : batch'[m] = batch[m]
    BY <1>1, <1>4 DEF FieldTypeOK, Places
  <2>2. CurrentBatch(n)' \subseteq LaterBatches(n) /\ LaterBatches(n)' \subseteq LaterBatches(n)
    BY <1>1, <2>1, NextBatch
  <2>3. npc' = [npc EXCEPT ![n] = "batch"]
    BY <1>1, <1>4, FieldAssumption DEF FieldTypeOK, Nodes, Inner
  <2>4. \A k \in LaterBatches(n) : Fresh(k)'
    BY <1>1, <1>2, <1>4 DEF Fresh
  <2>5. NodeOK(n)'
    BY <1>1, <1>4, <2>2, <2>4 DEF NodeOK
  <2>6. QED BY <1>1, <1>4, <2>1, <2>3, <2>5, NobodyWaited, MoveKeeps
<1>5. ASSUME NEW j \in CurrentBatch(n), RunInline(n, j), UNCHANGED <<batch, todo>>
      PROVE  Joins'
  BY <1>1, <1>2, <1>5, InlineKeeps
<1>6. CASE todo' = [todo EXCEPT ![n] = CurrentBatch(n)] /\ npc' = [npc EXCEPT ![n] = "submit"] /\ UNCHANGED <<batch, at>>
  <2>1. todo'[n] = CurrentBatch(n) /\ \A m \in Inner \ {n} : todo'[m] = todo[m]
    BY <1>1, <1>6 DEF FieldTypeOK, Places
  <2>2. CurrentBatch(n)' = CurrentBatch(n) /\ LaterBatches(n)' = LaterBatches(n)
    BY <1>6 DEF CurrentBatch, LaterBatches, InRest
  <2>3. npc'[n] = "submit" /\ \A k \in CurrentBatch(n) \cup LaterBatches(n) : Fresh(k)'
    BY <1>1, <1>2, <1>3, <1>6, FreshKept, FieldAssumption DEF FieldTypeOK, Nodes, Inner
  <2>4. NodeOK(n)'
    BY <2>1, <2>2, <2>3 DEF NodeOK
  <2>5. \A k \in Jobs : ParentOf[k] = n => FieldOK(k)'
    BY <1>1, <1>6, NobodyWaited
  <2>6. \A m \in Inner \ {n} : UNCHANGED <<at[m], batch[m], todo[m]>>
    BY <1>6, <2>1
  <2>7. PICK p \in {"submit"} : npc' = [npc EXCEPT ![n] = p]
    BY <1>6
  <2>8. QED BY <1>1, <2>4, <2>5, <2>6, <2>7, MoveKeeps
<1>7. QED BY <1>1, <1>4, <1>5, <1>6 DEF OrderedBatch

\* The remaining fields begin.
LEMMA RestBatchKeeps ==
    ASSUME Joins, FieldTypeOK', NEW n \in Inner, RestBatch(n)
    PROVE  Joins'
<1>1. npc[n] = "batch" /\ InRest(n) /\ CurrentBatch(n) = Rest[n] /\ UNCHANGED <<call, fate, at, batch>> /\ FieldTypeOK
  BY DEF RestBatch, CurrentBatch, poolVars, Joins
<1>2. (\A k \in CurrentBatch(n) : Fresh(k)) /\ (\A k \in LaterBatches(n) : Fresh(k))
  BY <1>1 DEF Joins, NodeOK
<1>3. \A k \in CurrentBatch(n) \cup LaterBatches(n) : k \in Jobs /\ ParentOf[k] = n
  BY <1>1, BatchShape
<1>4. PICK p \in {"gathered", "sequential", "submit"} : npc' = [npc EXCEPT ![n] = p]
  BY DEF RestBatch
<1>5. todo'[n] = CurrentBatch(n) /\ \A m \in Inner \ {n} : todo'[m] = todo[m]
  BY <1>1 DEF RestBatch, FieldTypeOK, Places
<1>6. CurrentBatch(n)' = CurrentBatch(n) /\ LaterBatches(n)' = LaterBatches(n) /\ InRest(n)'
  BY <1>1 DEF CurrentBatch, LaterBatches, InRest
<1>7. npc'[n] = p /\ \A k \in CurrentBatch(n) \cup LaterBatches(n) : Fresh(k)'
  BY <1>1, <1>2, <1>3, <1>4, FreshKept, FieldAssumption DEF FieldTypeOK, Nodes, Inner
<1>8. NodeOK(n)'
  BY <1>5, <1>6, <1>7 DEF NodeOK
<1>9. QED BY <1>1, <1>4, <1>5, <1>8, NobodyWaited, MoveKeeps

\* The next of the remaining fields is processed by the node itself, or the loop ends.
LEMMA SequentialKeeps ==
    ASSUME Joins, Structure, FieldTypeOK', NEW n \in Inner, Sequential(n)
    PROVE  Joins'
<1>1. npc[n] = "sequential" /\ UNCHANGED <<call, fate, batch>> /\ FieldTypeOK
  BY DEF Sequential, poolVars, Joins
<1>2. InRest(n) /\ todo[n] \subseteq CurrentBatch(n) /\ \A k \in todo[n] : Fresh(k)
  BY <1>1 DEF Joins, NodeOK
<1>3. CASE npc' = [npc EXCEPT ![n] = "gathered"] /\ UNCHANGED <<todo, at>>
  <2>1. NodeOK(n)'
    BY <1>1, <1>3, FieldAssumption DEF NodeOK, FieldTypeOK, Nodes, Inner
  <2>2. \A k \in Jobs : ParentOf[k] = n => FieldOK(k)'
    BY <1>1, <1>3, NobodyWaited
  <2>3. PICK p \in {"gathered"} : npc' = [npc EXCEPT ![n] = p]
    BY <1>3
  <2>4. QED BY <1>1, <1>3, <2>1, <2>2, <2>3, MoveKeeps
<1>4. ASSUME NEW j \in todo[n], RunInline(n, j), todo' = [todo EXCEPT ![n] = @ \ {j}]
      PROVE  Joins'
  <2>1. todo'[n] = todo[n] \ {j} /\ \A m \in Inner \ {n} : todo'[m] = todo[m]
    BY <1>1, <1>4 DEF FieldTypeOK, Places
  <2>2. QED BY <1>1, <1>2, <1>4, <2>1, InlineKeeps
<1>5. QED BY <1>3, <1>4 DEF Sequential

\* The field a node processed itself is over, and the node goes on or gives up.
LEMMA InlineDoneKeeps ==
    ASSUME Joins, Structure, FieldTypeOK', NEW n \in Inner, InlineDone(n)
    PROVE  Joins'
<1> DEFINE j == at[n]
<1>1. npc[n] = "inline" /\ npc[j] \in {"value", "novalue"} /\ UNCHANGED <<call, fate, todo>> /\ at' = [at EXCEPT ![n] = None]
      /\ FieldTypeOK
  BY DEF InlineDone, poolVars, Joins
<1>2. j \in CurrentBatch(n) /\ call[j] = "idle" /\ (\A k \in LaterBatches(n) : Fresh(k))
      /\ (InRest(n) => todo[n] \subseteq CurrentBatch(n) /\ \A k \in todo[n] : Fresh(k))
  BY <1>1 DEF Joins, NodeOK
<1>3. j \in Jobs /\ ParentOf[j] = n /\ j # n /\ j \in Nodes /\ n \in Nodes /\ j \notin LaterBatches(n)
  BY <1>1, <1>2, BatchShape, ParentApart, FieldAssumption DEF Nodes, Inner
<1>4. PICK p \in {"batch", "sequential", "gathered"}, b \in {batch[n], batch[n] + 1, Len(Ordered[n]) + 1} :
         /\ npc' = [npc EXCEPT ![j] = "end", ![n] = p]
         /\ batch' = [batch EXCEPT ![n] = b]
         /\ p = "batch" <=> ~InRest(n)
         /\ ~InRest(n) => b \in {batch[n] + 1, Len(Ordered[n]) + 1}
         /\ p = "sequential" => b = batch[n]
  BY DEF InlineDone
<1> HIDE DEF j
<1>5. /\ npc'[n] = p /\ npc'[j] = "end" /\ \A m \in Nodes : m \notin {n, j} => npc'[m] = npc[m]
      /\ batch'[n] = b /\ \A m \in Inner \ {n} : batch'[m] = batch[m] /\ at'[m] = at[m]
  BY <1>1, <1>3, <1>4 DEF FieldTypeOK, Places
<1>6. \A k \in CurrentBatch(n) \cup LaterBatches(n) : k # j /\ Fresh(k) => Fresh(k)'
  <2>1. \A k \in CurrentBatch(n) \cup LaterBatches(n) : k \in Jobs /\ ParentOf[k] = n
    BY <1>1, BatchShape
  <2>2. QED BY <1>1, <1>5, <2>1, ParentApart DEF Fresh, Nodes
<1>7. NodeOK(n)'
  <2>1. CASE p = "batch"
    <3>1. CurrentBatch(n)' \subseteq LaterBatches(n) /\ LaterBatches(n)' \subseteq LaterBatches(n)
      BY <1>1, <1>4, <1>5, <2>1, NextBatch
    <3>2. QED BY <1>2, <1>3, <1>5, <1>6, <2>1, <3>1 DEF NodeOK
  <2>2. CASE p = "sequential"
    <3>1. CurrentBatch(n)' = CurrentBatch(n) /\ LaterBatches(n)' = LaterBatches(n) /\ InRest(n)' = InRest(n)
      BY <1>4, <1>5, <2>2 DEF CurrentBatch, LaterBatches, InRest
    <3>2. InRest(n) /\ \A k \in todo[n] : k # j
      BY <1>1, <1>2, <1>4, <2>2 DEF Fresh
    <3>3. (\A k \in LaterBatches(n) : Fresh(k)') /\ (\A k \in todo[n] : Fresh(k)')
      BY <1>2, <1>3, <1>6, <3>2
    <3>4. QED BY <1>1, <1>2, <1>5, <2>2, <3>1, <3>2, <3>3 DEF NodeOK
  <2>3. CASE p = "gathered"
    BY <1>5, <2>3 DEF NodeOK
  <2>4. QED BY <2>1, <2>2, <2>3
<1>8. ASSUME NEW k \in Jobs, ParentOf[k] = n
      PROVE  FieldOK(k)'
  <2>1. CASE k = j
    <3>1. fate[j] = "none"
      BY <1>2, <1>3 DEF Structure, CallMatchesFate
    <3>2. QED BY <1>1, <1>2, <1>5, <2>1, <3>1 DEF FieldOK, Active
  <2>2. CASE k # j
    <3>1. npc'[k] = npc[k] /\ FieldOK(k)
      BY <1>5, <1>8, <2>2, ParentApart DEF Joins, Nodes
    <3>2. ~(call[k] = "idle" /\ Active(k)) /\ call[k] \notin {"acquire", "offer", "push", "signal"}
          /\ fate[k] \notin {"queued", "popped", "running"}
      BY <1>1, <1>8, <2>2, <3>1 DEF FieldOK, j
    <3>3. QED BY <1>1, <3>1, <3>2 DEF FieldOK, Active
  <2>3. QED BY <2>1, <2>2
<1>9. QED BY <1>1, <1>3, <1>5, <1>7, <1>8, OwnStep

\* A field of the batch is handed to the pool.
LEMMA SubmitFieldKeeps ==
    ASSUME Joins, Structure, FieldTypeOK', NEW n \in Inner, SubmitField(n)
    PROVE  Joins'
<1>1. PICK j \in todo[n] : todo' = [todo EXCEPT ![n] = @ \ {j}] /\ at' = [at EXCEPT ![n] = j] /\ Call(j)
  BY DEF SubmitField
<1>2. npc[n] = "submit" /\ npc' = [npc EXCEPT ![n] = "submitting"] /\ batch' = batch /\ FieldTypeOK
  BY DEF SubmitField, Joins
<1>3. todo[n] \subseteq CurrentBatch(n) /\ (\A k \in todo[n] : Fresh(k)) /\ (\A k \in LaterBatches(n) : Fresh(k))
  BY <1>2 DEF Joins, NodeOK
<1>4. j \in CurrentBatch(n) /\ j \in Jobs /\ ParentOf[j] = n /\ j # n /\ n \in Nodes /\ j \notin LaterBatches(n)
  BY <1>1, <1>2, <1>3, BatchShape, ParentApart, FieldAssumption DEF Nodes, Inner
<1>5. /\ npc'[n] = "submitting" /\ \A m \in Nodes : m # n => npc'[m] = npc[m]
      /\ at'[n] = j /\ todo'[n] = todo[n] \ {j}
      /\ \A m \in Inner \ {n} : at'[m] = at[m] /\ todo'[m] = todo[m] /\ batch'[m] = batch[m]
  BY <1>1, <1>2, <1>4 DEF FieldTypeOK, Places
<1>6. /\ call'[j] \in {"acquire", "refused"} /\ fate' = fate
      /\ \A k \in Jobs : k # j => call'[k] = call[k]
  BY <1>1, <1>4 DEF Call, Structure, WeakTypeOK
<1>7. CurrentBatch(n)' = CurrentBatch(n) /\ LaterBatches(n)' = LaterBatches(n)
  BY <1>2 DEF CurrentBatch, LaterBatches, InRest
<1>8. \A k \in CurrentBatch(n) \cup LaterBatches(n) : k # j /\ Fresh(k) => Fresh(k)'
  <2>1. \A k \in CurrentBatch(n) \cup LaterBatches(n) : k \in Jobs /\ ParentOf[k] = n
    BY <1>2, BatchShape
  <2>2. QED BY <1>5, <1>6, <2>1, ParentApart DEF Fresh, Nodes
<1>9. NodeOK(n)'
  <2>1. (\A k \in LaterBatches(n)' : Fresh(k)') /\ todo'[n] \subseteq CurrentBatch(n)' /\ (\A k \in todo'[n] : Fresh(k)')
    BY <1>3, <1>4, <1>5, <1>7, <1>8
  <2>2. QED BY <1>4, <1>5, <1>6, <1>7, <2>1 DEF NodeOK
<1>10. ASSUME NEW k \in Jobs, ParentOf[k] = n
       PROVE  FieldOK(k)'
  <2>1. CASE k = j
    <3>1. npc[j] = "idle" /\ fate[j] = "none" /\ npc'[j] = "idle" /\ call[j] = "idle"
      BY <1>3, <1>4, <1>5 DEF Fresh, Structure, CallMatchesFate, Nodes
    <3>2. QED BY <1>5, <1>6, <1>10, <2>1, <3>1 DEF FieldOK, Active
  <2>2. CASE k # j
    <3>1. npc'[k] = npc[k] /\ FieldOK(k) /\ call'[k] = call[k]
      BY <1>5, <1>6, <1>10, <2>2, ParentApart DEF Joins, Nodes
    <3>2. QED BY <1>2, <1>5, <1>6, <1>7, <1>10, <3>1 DEF FieldOK, Active
  <2>3. QED BY <2>1, <2>2
<1>11. QED BY <1>2, <1>4, <1>5, <1>6, <1>9, <1>10, OwnStep

\* SubmitWithContext has returned.
LEMMA SubmitReturnedKeeps ==
    ASSUME Joins, FieldTypeOK', NEW n \in Inner, SubmitReturned(n)
    PROVE  Joins'
<1>1. npc[n] = "submitting" /\ npc' = [npc EXCEPT ![n] = "submit"] /\ at' = [at EXCEPT ![n] = None]
      /\ UNCHANGED <<call, fate, batch, todo>> /\ FieldTypeOK /\ call[at[n]] \in {"accepted", "refused"}
  BY DEF SubmitReturned, Joins, poolVars
<1>2. todo[n] \subseteq CurrentBatch(n) /\ (\A k \in todo[n] : Fresh(k)) /\ (\A k \in LaterBatches(n) : Fresh(k))
  BY <1>1 DEF Joins, NodeOK
<1>3. CurrentBatch(n)' = CurrentBatch(n) /\ LaterBatches(n)' = LaterBatches(n)
  BY <1>1 DEF CurrentBatch, LaterBatches, InRest
<1>4. npc'[n] = "submit" /\ \A m \in Inner \ {n} : at'[m] = at[m]
  BY <1>1, FieldAssumption DEF FieldTypeOK, Nodes, Inner
<1>5. \A k \in CurrentBatch(n) \cup LaterBatches(n) : Fresh(k) => Fresh(k)'
  BY <1>1, BatchShape, FreshKept
<1>6. NodeOK(n)'
  <2>1. (\A k \in LaterBatches(n)' : Fresh(k)') /\ todo'[n] \subseteq CurrentBatch(n)' /\ (\A k \in todo'[n] : Fresh(k)')
    BY <1>1, <1>2, <1>3, <1>5
  <2>2. QED BY <1>4, <2>1 DEF NodeOK
<1>7. ASSUME NEW k \in Jobs, ParentOf[k] = n
      PROVE  FieldOK(k)'
  <2>1. npc'[k] = npc[k] /\ FieldOK(k)
    BY <1>1, <1>7, ParentApart DEF Joins, FieldTypeOK, Nodes
  <2>2. QED BY <1>1, <1>3, <1>4, <1>7, <2>1 DEF FieldOK, Active
<1>8. QED BY <1>1, <1>4, <1>6, <1>7, MoveKeeps

\* The WaitGroup of the node is at zero: no field of it is left in the pool, so the next
\* batch may begin, or ProcessFields return.
LEMMA WaitForCompletionKeeps ==
    ASSUME Joins, Structure, FieldTypeOK', NEW n \in Inner, WaitForCompletion(n),
           \A k \in Jobs : ParentOf[k] = n => ~Outstanding(k)
    PROVE  Joins'
<1>1. npc[n] = "submit" /\ todo[n] = {} /\ UNCHANGED <<call, fate, at, todo>> /\ FieldTypeOK
  BY DEF WaitForCompletion, Joins, poolVars
<1>2. PICK p \in {"gathered", "batch"}, b \in {batch[n], batch[n] + 1} :
         /\ npc' = [npc EXCEPT ![n] = p] /\ batch' = [batch EXCEPT ![n] = b]
         /\ p = "batch" => ~InRest(n) /\ b = batch[n] + 1
  BY DEF WaitForCompletion
<1>3. npc'[n] = p /\ batch'[n] = b /\ \A m \in Inner \ {n} : batch'[m] = batch[m]
  BY <1>1, <1>2, FieldAssumption DEF FieldTypeOK, Nodes, Inner, Places
<1>4. \A k \in LaterBatches(n) : Fresh(k) /\ Fresh(k)'
  <2>1. \A k \in LaterBatches(n) : Fresh(k)
    BY <1>1 DEF Joins, NodeOK
  <2>2. QED BY <1>1, <1>2, <2>1, BatchShape, FreshKept
<1>5. NodeOK(n)'
  <2>1. CASE p = "batch"
    <3>1. CurrentBatch(n)' \subseteq LaterBatches(n) /\ LaterBatches(n)' \subseteq LaterBatches(n)
      BY <1>1, <1>2, <1>3, <2>1, NextBatch
    <3>2. QED BY <1>3, <1>4, <2>1, <3>1 DEF NodeOK
  <2>2. CASE p = "gathered"
    BY <1>3, <2>2 DEF NodeOK
  <2>3. QED BY <2>1, <2>2
<1>6. ASSUME NEW k \in Jobs, ParentOf[k] = n
      PROVE  FieldOK(k)'
  <2>1. npc'[k] = npc[k] /\ FieldOK(k)
    BY <1>1, <1>2, <1>6, ParentApart DEF Joins, FieldTypeOK, Nodes
  <2>2. fate[k] \notin {"queued", "popped", "running"}
    <3>1. fate[k] \in {"queued", "popped", "running"} => call[k] \notin {"idle", "refused"}
      BY <1>6 DEF Structure, CallMatchesFate
    <3>2. QED BY <1>6, <3>1 DEF Outstanding
  <2>3. QED BY <1>1, <1>6, <2>1, <2>2 DEF FieldOK, Active
<1>7. QED BY <1>1, <1>2, <1>3, <1>5, <1>6, MoveKeeps

-----------------------------------------------------------------------------
(* The steps of the pool and of its workers. *)

\* A step inside the pool that leaves the nodes alone.
LEMMA PoolChange ==
    ASSUME Joins, FieldTypeOK', UNCHANGED <<npc, at, batch, todo>>, NEW j \in Jobs,
           call'[j] = "idle" <=> call[j] = "idle",
           \A k \in Jobs : k # j => UNCHANGED <<call[k], fate[k]>>,
           FieldOK(j)'
    PROVE  Joins'
<1>1. ASSUME NEW k \in Jobs
      PROVE  FieldOK(k)'
  <2>1. CASE k # j
    <3>1. FieldOK(k)
      BY DEF Joins
    <3>2. (Active(k)' <=> Active(k)) /\ (npc'[k] = "end" <=> npc[k] = "end")
      BY DEF Active
    <3>3. QED BY <2>1, <3>1, <3>2, FieldFrame
  <2>2. QED BY <2>1
<1>2. ASSUME NEW n \in Inner
      PROVE  NodeOK(n)'
  <2>1. \A k \in Jobs : /\ Fresh(k) => Fresh(k)'
                        /\ call[k] = "idle" /\ Active(k) => call'[k] = "idle" /\ Active(k)'
                        /\ call[k] # "idle" => call'[k] # "idle"
    BY DEF Fresh, Active
  <2>2. NodeOK(n) /\ FieldTypeOK
    BY DEF Joins
  <2>3. QED BY <2>1, <2>2, NodeFrame
<1>3. QED BY <1>1, <1>2 DEF Joins

\* The submitting call of a field goes on.
LEMMA SubmitterKeeps ==
    ASSUME Joins, Structure, FieldTypeOK', UNCHANGED fieldVars, NEW j \in Jobs, Submitter(j)
    PROVE  Joins'
<1>1. UNCHANGED <<npc, at, batch, todo>> /\ FieldOK(j) /\ ParentOf[j] \in Inner
  BY ParentApart DEF fieldVars, Joins
<1>2. /\ \A k \in Jobs : k # j => UNCHANGED <<call[k], fate[k]>>
      /\ call[j] \in {"acquire", "offer", "push", "signal"}
      /\ call'[j] \in {"offer", "push", "signal", "accepted", "refused"}
      /\ \/ fate'[j] = fate[j]
         \/ call[j] = "push" /\ fate'[j] \in {"queued", "dropped"}
      /\ fate[j] = "none" <=> call[j] # "signal"
  BY DEF Structure, WeakTypeOK, CallMatchesFate, Submitter, Acquire, GiveUp, Offer, Drop, Push, Signal
<1>3. npc[ParentOf[j]] = "submitting" /\ at[ParentOf[j]] = j
  BY <1>1, <1>2 DEF FieldOK
<1>4. j \in CurrentBatch(ParentOf[j])
  BY <1>1, <1>3 DEF Joins, NodeOK
<1>5. FieldOK(j)'
  <2>1. CASE call[j] = "signal"
    BY <1>1, <1>2, <1>3, <2>1 DEF FieldOK, Active, CurrentBatch, InRest
  <2>2. CASE call[j] # "signal"
    <3>1. fate[j] = "none" /\ ~Active(j) /\ npc[j] # "end"
      BY <1>1, <1>2, <2>2 DEF FieldOK
    <3>2. QED BY <1>1, <1>2, <1>3, <1>4, <3>1 DEF FieldOK, Active, CurrentBatch, InRest
  <2>3. QED BY <2>1, <2>2
<1>6. QED BY <1>1, <1>2, <1>5, PoolChange

\* A worker looks at its shard, takes a field from it, or passes over one.
LEMMA LoopKeeps ==
    ASSUME Joins, Structure, FieldTypeOK', UNCHANGED fieldVars, NEW w \in Workers,
           Top(w) \/ Park(w) \/ Pop(w) \/ Skip(w)
    PROVE  Joins'
<1>1. UNCHANGED <<npc, at, batch, todo>>
  BY DEF fieldVars
<1>2. CASE Top(w) \/ Park(w)
  <2>1. UNCHANGED <<call, fate>>
    BY <1>2 DEF Top, Park
  <2>2. QED BY <1>1, <2>1 DEF Joins, FieldOK, NodeOK, Active, Fresh, CurrentBatch, LaterBatches, InRest
<1>3. CASE Pop(w)
  <2>1. PICK j \in heap[Shard(w)] : fate' = [fate EXCEPT ![j] = "popped"]
    BY <1>3 DEF Pop
  <2>2. j \in Jobs /\ fate[j] = "queued" /\ call' = call
    BY <1>3, <2>1, PoolShape DEF Pop, Structure, WeakTypeOK, JobInOnePlace
  <2>3. fate'[j] = "popped" /\ \A k \in Jobs : k # j => fate'[k] = fate[k]
    BY <2>1, <2>2 DEF Structure, WeakTypeOK
  <2>4. FieldOK(j)'
    BY <1>1, <2>2, <2>3 DEF Joins, FieldOK, Active, CurrentBatch, InRest
  <2>5. QED BY <1>1, <2>2, <2>3, <2>4, PoolChange
<1>4. CASE Skip(w)
  <2>1. cur[w] \in Jobs /\ fate[cur[w]] = "popped" /\ call' = call /\ fate' = [fate EXCEPT ![cur[w]] = "skipped"]
    BY <1>4 DEF Skip, Structure, WeakTypeOK, WorkerMatchesJob
  <2>2. PICK j \in Jobs : j = cur[w]
    BY <2>1
  <2>3. fate'[j] = "skipped" /\ fate[j] = "popped" /\ \A k \in Jobs : k # j => fate'[k] = fate[k]
    BY <2>1, <2>2 DEF Structure, WeakTypeOK
  <2>4. FieldOK(j)'
    BY <1>1, <2>1, <2>3 DEF Joins, FieldOK, Active, CurrentBatch, InRest
  <2>5. QED BY <1>1, <2>1, <2>3, <2>4, PoolChange
<1>5. QED BY <1>2, <1>3, <1>4

\* A worker begins or ends the function of field j.
LEMMA FunctionKeeps ==
    ASSUME Joins, Structure, FieldTypeOK', UNCHANGED <<at, batch, todo, call>>, NEW j \in Jobs, call[j] # "idle",
           NEW p, NEW f, npc' = [npc EXCEPT ![j] = p], fate' = [fate EXCEPT ![j] = f],
           \/ fate[j] = "popped" /\ p = "start" /\ f = "running"
           \/ fate[j] = "running" /\ npc[j] \in {"collected", "novalue"} /\ p = "end" /\ f = "done"
    PROVE  Joins'
<1>1. npc'[j] = p /\ \A k \in Nodes : k # j => npc'[k] = npc[k]
  BY DEF Joins, FieldTypeOK, Nodes
<1>2. fate'[j] = f /\ \A k \in Jobs : k # j => fate'[k] = fate[k]
  BY DEF Structure, WeakTypeOK
<1>3. FieldOK(j) /\ ParentOf[j] \in Nodes /\ ParentOf[j] # j /\ FieldTypeOK
  BY ParentApart, FieldAssumption DEF Joins, Nodes, Inner
<1>4. fate[j] = "popped" => npc[j] = "idle"
  BY <1>3 DEF FieldOK, Active
<1>5. ASSUME NEW k \in Jobs
      PROVE  FieldOK(k)'
  <2>1. CASE k = j
    BY <1>1, <1>2, <1>3, <2>1 DEF FieldOK, Active, CurrentBatch, InRest
  <2>2. CASE k # j
    <3>1. FieldOK(k) /\ npc'[k] = npc[k] /\ fate'[k] = fate[k] /\ ParentOf[k] \in Nodes
      BY <1>1, <1>2, <2>2, ParentApart, FieldAssumption DEF Joins, Nodes, Inner
    <3>2. npc'[ParentOf[k]] = npc[ParentOf[k]] \/ npc[ParentOf[k]] \notin {"inline", "submit", "submitting"}
      BY <1>1, <1>4, <3>1
    <3>3. QED BY <3>1, <3>2, FieldFrame DEF Active
  <2>3. QED BY <2>1, <2>2
<1>6. ASSUME NEW n \in Inner
      PROVE  NodeOK(n)'
  <2>1. NodeOK(n) /\ n \in Nodes
    BY FieldAssumption DEF Joins, Nodes, Inner
  <2>2. \/ npc'[n] = npc[n]
        \/ npc[n] \in {"idle", "start", "llm"} /\ npc'[n] \in {"start", "llm", "batch"}
        \/ npc'[n] \in {"gathered", "closed", "value", "novalue", "collected", "end"}
    BY <1>1, <1>4, <2>1
  <2>3. \A k \in Jobs : /\ Fresh(k) => Fresh(k)'
                        /\ call[k] = "idle" /\ Active(k) => call'[k] = "idle" /\ Active(k)'
                        /\ call[k] # "idle" => call'[k] # "idle"
    BY <1>1 DEF Fresh, Active, Nodes
  <2>4. QED BY <1>3, <2>1, <2>2, <2>3, NodeFrame
<1>7. QED BY <1>5, <1>6 DEF Joins

\* The field a worker holds was handed to the pool.
LEMMA WorkersField ==
    ASSUME Structure, NEW w \in Workers, wpc[w] \in {"check", "run"}
    PROVE  /\ cur[w] \in Jobs /\ call[cur[w]] \notin {"idle", "refused"}
           /\ wpc[w] = "check" => fate[cur[w]] = "popped"
           /\ wpc[w] = "run" => fate[cur[w]] = "running"
<1>1. cur[w] \in Jobs /\ fate[cur[w]] \in {"popped", "running"}
      /\ (wpc[w] = "check" => fate[cur[w]] = "popped") /\ (wpc[w] = "run" => fate[cur[w]] = "running")
  BY DEF Structure, WeakTypeOK, WorkerMatchesJob
<1>2. QED BY <1>1 DEF Structure, CallMatchesFate

\* A worker calls the function of a field, or the function returns.
LEMMA WorkerKeeps ==
    ASSUME Joins, Structure, FieldTypeOK', NEW w \in Workers, StartField(w) \/ FinishField(w)
    PROVE  Joins'
<1>1. wpc[w] \in {"check", "run"} /\ UNCHANGED <<at, batch, todo, call>>
  BY DEF StartField, Start, FinishField, Finish
<1>2. PICK j \in Jobs : j = cur[w] /\ call[j] # "idle"
  BY <1>1, WorkersField
<1>3. CASE StartField(w)
  <2>1. PICK p, f : p = "start" /\ f = "running" /\ npc' = [npc EXCEPT ![j] = p] /\ fate' = [fate EXCEPT ![j] = f]
    BY <1>2, <1>3 DEF StartField, Start
  <2>2. fate[j] = "popped"
    BY <1>1, <1>2, <1>3, WorkersField DEF StartField, Start
  <2>3. QED BY <1>1, <1>2, <2>1, <2>2, FunctionKeeps
<1>4. CASE FinishField(w)
  <2>1. PICK p, f : p = "end" /\ f = "done" /\ npc' = [npc EXCEPT ![j] = p] /\ fate' = [fate EXCEPT ![j] = f]
    BY <1>2, <1>4 DEF FinishField, Finish
  <2>2. fate[j] = "running" /\ npc[j] \in {"collected", "novalue"}
    BY <1>1, <1>2, <1>4, WorkersField DEF FinishField, Finish
  <2>3. QED BY <1>1, <1>2, <2>1, <2>2, FunctionKeeps
<1>5. QED BY <1>3, <1>4

-----------------------------------------------------------------------------
(* The types of the variables. *)

\* Collecting a result keeps the channels and the maps of results well formed.
LEMMA CollectType ==
    ASSUME FieldTypeOK, NEW j \in Jobs, Collect(j) \/ UNCHANGED <<ch, got>>
    PROVE  /\ got' \in [Inner -> SUBSET Jobs]
           /\ ch' \in [Requests -> Seq(Jobs)] /\ \A r \in Requests : Len(ch'[r]) <= BufferSize
<1>1. /\ got \in [Inner -> SUBSET Jobs] /\ ch \in [Requests -> Seq(Jobs)]
      /\ \A r \in Requests : Len(ch[r]) <= BufferSize /\ Len(ch[r]) \in Nat
  BY DEF FieldTypeOK
<1>2. BufferSize \in Nat /\ Objects \subseteq Inner
  BY FieldAssumption DEF Inner
<1>3. CASE UNCHANGED <<ch, got>>
  BY <1>1, <1>3
<1>4. ASSUME ParentOf[j] \in Requests, Len(ch[ParentOf[j]]) < BufferSize,
             ch' = [ch EXCEPT ![ParentOf[j]] = Append(@, j)], UNCHANGED got
      PROVE  /\ ch' \in [Requests -> Seq(Jobs)] /\ \A r \in Requests : Len(ch'[r]) <= BufferSize
  <2>1. Append(ch[ParentOf[j]], j) \in Seq(Jobs) /\ Len(Append(ch[ParentOf[j]], j)) = Len(ch[ParentOf[j]]) + 1
    BY <1>1, <1>4
  <2>2. QED BY <1>1, <1>2, <1>4, <2>1
<1>5. ASSUME ParentOf[j] \in Objects, got' = [got EXCEPT ![ParentOf[j]] = @ \cup {j}], UNCHANGED ch
      PROVE  got' \in [Inner -> SUBSET Jobs]
  BY <1>1, <1>2, <1>5
<1>6. QED BY <1>1, <1>3, <1>4, <1>5 DEF Collect

\* Every step keeps the types.
LEMMA FieldTypeKept == Joins /\ Structure /\ Next => FieldTypeOK'
<1> SUFFICES ASSUME Joins, Structure, Next PROVE FieldTypeOK'
  OBVIOUS
<1>1. Places' /\ FieldTypeOK
  BY PlacesKept DEF Joins, FieldTypeOK
<1>2. /\ npc \in [Nodes -> NodeStates] /\ at \in [Inner -> Jobs \cup {None}] /\ wg \in [Inner -> Int] /\ made \subseteq Jobs
      /\ got \in [Inner -> SUBSET Jobs] /\ ch \in [Requests -> Seq(Jobs)] /\ \A r \in Requests : Len(ch[r]) <= BufferSize
      /\ outcome \in [Requests -> {"running", "ok", "error", "timeout"}]
  BY <1>1 DEF FieldTypeOK
<1>3. ASSUME NEW n \in Inner, Process(n)
      PROVE  FieldTypeOK'
  <2>1. todo[n] \subseteq Jobs /\ outcome' = outcome
    BY <1>1, <1>3 DEF FieldTypeOK, Places, Process, OrderedBatch, RestBatch, Sequential, InlineDone, SubmitField,
                      SubmitReturned, WaitForCompletion, Gathered
  <2>2. \A j \in CurrentBatch(n) : j \in Jobs
    BY <1>1, BatchShape
  <2>3. CASE OrderedBatch(n)
    <3>1. Ordered[n][batch[n]] = CurrentBatch(n)
      BY <2>3 DEF OrderedBatch, CurrentBatch
    <3>2. npc' \in [Nodes -> NodeStates] /\ at' \in [Inner -> Jobs \cup {None}]
      <4>1. CASE UNCHANGED <<npc, at>>
        BY <1>2, <4>1
      <4>2. ASSUME NEW j \in CurrentBatch(n), RunInline(n, j)
            PROVE  npc' \in [Nodes -> NodeStates] /\ at' \in [Inner -> Jobs \cup {None}]
        BY <1>2, <2>2, <4>2 DEF RunInline, NodeStates
      <4>3. CASE npc' = [npc EXCEPT ![n] = "submit"] /\ at' = at
        BY <1>2, <4>3 DEF NodeStates
      <4>4. QED BY <2>3, <3>1, <4>1, <4>2, <4>3 DEF OrderedBatch
    <3>3. QED BY <1>1, <1>2, <2>1, <2>3, <3>2 DEF OrderedBatch, FieldTypeOK
  <2>4. CASE RestBatch(n)
    <3>1. npc' \in [Nodes -> NodeStates]
      BY <1>2, <2>4 DEF RestBatch, NodeStates
    <3>2. QED BY <1>1, <1>2, <2>1, <2>4, <3>1 DEF RestBatch, FieldTypeOK
  <2>5. CASE Sequential(n)
    <3>1. npc' \in [Nodes -> NodeStates] /\ at' \in [Inner -> Jobs \cup {None}]
      BY <1>2, <2>1, <2>5 DEF Sequential, RunInline, NodeStates
    <3>2. QED BY <1>1, <1>2, <2>1, <2>5, <3>1 DEF Sequential, FieldTypeOK
  <2>6. CASE InlineDone(n)
    <3>1. npc[n] = "inline"
      BY <2>6 DEF InlineDone
    <3>2. at[n] \in Jobs
      BY <2>2, <3>1 DEF Joins, NodeOK
    <3>3. npc' \in [Nodes -> NodeStates] /\ at' \in [Inner -> Jobs \cup {None}]
      BY <1>2, <2>6 DEF InlineDone, NodeStates
    <3>4. Collect(at[n]) \/ UNCHANGED <<ch, got>>
      BY <2>6 DEF InlineDone, CollectFails
    <3>5. /\ got' \in [Inner -> SUBSET Jobs]
          /\ ch' \in [Requests -> Seq(Jobs)] /\ \A r \in Requests : Len(ch'[r]) <= BufferSize
      BY <1>1, <3>2, <3>4, CollectType
    <3>6. QED BY <1>1, <1>2, <2>1, <2>6, <3>3, <3>5 DEF InlineDone, FieldTypeOK
  <2>7. CASE SubmitField(n)
    <3>1. npc' \in [Nodes -> NodeStates] /\ at' \in [Inner -> Jobs \cup {None}]
      BY <1>2, <2>1, <2>7 DEF SubmitField, NodeStates
    <3>2. wg' \in [Inner -> Int]
      BY <1>2, <2>7 DEF SubmitField
    <3>3. QED BY <1>1, <1>2, <2>1, <2>7, <3>1, <3>2 DEF SubmitField, FieldTypeOK
  <2>8. CASE SubmitReturned(n)
    <3>1. npc' \in [Nodes -> NodeStates] /\ at' \in [Inner -> Jobs \cup {None}]
      BY <1>2, <2>8 DEF SubmitReturned, NodeStates
    <3>2. wg[n] \in Int /\ wg' \in [Inner -> Int]
      BY <1>2, <2>8 DEF SubmitReturned
    <3>3. QED BY <1>1, <1>2, <2>1, <2>8, <3>1, <3>2 DEF SubmitReturned, FieldTypeOK
  <2>9. CASE WaitForCompletion(n)
    <3>1. npc' \in [Nodes -> NodeStates]
      BY <1>2, <2>9 DEF WaitForCompletion, NodeStates
    <3>2. QED BY <1>1, <1>2, <2>1, <2>9, <3>1 DEF WaitForCompletion, FieldTypeOK
  <2>10. CASE Gathered(n)
    <3>1. npc' \in [Nodes -> NodeStates]
      BY <1>2, <2>10 DEF Gathered, NodeStates
    <3>2. made' \subseteq Jobs
      BY <1>2, <2>10, FieldAssumption DEF Gathered, Inner
    <3>3. QED BY <1>1, <1>2, <2>1, <2>10, <3>1, <3>2 DEF Gathered, FieldTypeOK
  <2>11. QED BY <1>3, <2>3, <2>4, <2>5, <2>6, <2>7, <2>8, <2>9, <2>10 DEF Process
<1>4. ASSUME NEW j \in Jobs, Field(j)
      PROVE  FieldTypeOK'
  <2>1. npc' \in [Nodes -> NodeStates] /\ made' \subseteq Jobs
    BY <1>2, <1>4 DEF Field, BeginField, GenerateField, NodeStates
  <2>2. UNCHANGED <<at, wg, got, ch, outcome>>
    BY <1>4 DEF Field, BeginField, GenerateField
  <2>3. QED BY <1>1, <1>2, <2>1, <2>2 DEF FieldTypeOK
<1>5. ASSUME NEW w \in Workers, OnWorker(w)
      PROVE  FieldTypeOK'
  <2>1. npc' \in [Nodes -> NodeStates] /\ wg' \in [Inner -> Int] /\ UNCHANGED <<at, made, outcome>>
    <3>1. npc' \in [Nodes -> NodeStates]
      BY <1>2, <1>5 DEF OnWorker, StartField, CollectField, FinishField, NodeStates
    <3>2. CASE wg' = wg
      BY <1>2, <1>5, <3>1, <3>2 DEF OnWorker, StartField, CollectField, FinishField
    <3>3. CASE FinishField(w)
      <4>1. PICK n \in Inner : wg' = [wg EXCEPT ![n] = wg[n] - 1]
        BY <3>3, WorkersField, ParentApart DEF FinishField, Finish
      <4>2. wg' \in [Inner -> Int]
        BY <1>2, <4>1
      <4>3. QED BY <3>1, <3>3, <4>2 DEF FinishField
    <3>4. QED BY <1>5, <3>2, <3>3 DEF OnWorker, StartField, CollectField
  <2>2. CASE CollectField(w)
    <3>1. cur[w] \in Jobs
      BY <2>2, WorkersField DEF CollectField
    <3>2. Collect(cur[w]) \/ UNCHANGED <<ch, got>>
      BY <2>2 DEF CollectField, CollectFails
    <3>3. /\ got' \in [Inner -> SUBSET Jobs]
          /\ ch' \in [Requests -> Seq(Jobs)] /\ \A r \in Requests : Len(ch'[r]) <= BufferSize
      BY <1>1, <3>1, <3>2, CollectType
    <3>4. QED BY <1>1, <1>2, <2>1, <3>3 DEF FieldTypeOK
  <2>3. CASE StartField(w) \/ FinishField(w)
    <3>1. UNCHANGED <<ch, got>>
      BY <2>3 DEF StartField, FinishField
    <3>2. QED BY <1>1, <1>2, <2>1, <3>1 DEF FieldTypeOK
  <2>4. QED BY <1>5, <2>2, <2>3 DEF OnWorker
<1>6. ASSUME NEW r \in Requests, Receive(r)
      PROVE  FieldTypeOK'
  <2>1. ch[r] \in Seq(Jobs) /\ ch[r] # << >> /\ r \in Inner
    BY <1>2, <1>6 DEF Receive, Inner
  <2>2. Head(ch[r]) \in Jobs /\ Tail(ch[r]) \in Seq(Jobs) /\ Len(Tail(ch[r])) <= BufferSize
    <3>1. Head(ch[r]) \in Jobs /\ Tail(ch[r]) \in Seq(Jobs) /\ Len(Tail(ch[r])) = Len(ch[r]) - 1 /\ Len(ch[r]) \in Nat
      BY <2>1
    <3>2. QED BY <1>2, <3>1, FieldAssumption
  <2>3. ch' \in [Requests -> Seq(Jobs)] /\ \A q \in Requests : Len(ch'[q]) <= BufferSize
    BY <1>2, <1>6, <2>2 DEF Receive
  <2>4. got' \in [Inner -> SUBSET Jobs] /\ outcome' \in [Requests -> {"running", "ok", "error", "timeout"}]
    <3>1. CASE r \in cancelled
      BY <1>2, <1>6, <3>1 DEF Receive
    <3>2. CASE r \notin cancelled
      <4>1. got' = [got EXCEPT ![r] = got[r] \cup {Head(ch[r])}] /\ outcome' = outcome
        BY <1>6, <3>2 DEF Receive
      <4>2. got[r] \cup {Head(ch[r])} \in SUBSET Jobs
        BY <1>2, <2>1, <2>2
      <4>3. QED BY <1>2, <4>1, <4>2
    <3>3. QED BY <3>1, <3>2
  <2>5. UNCHANGED <<npc, at, wg, made>>
    BY <1>6 DEF Receive
  <2>6. QED BY <1>1, <1>2, <2>3, <2>4, <2>5 DEF FieldTypeOK
<1>7. ASSUME NEW r \in Requests, Complete(r)
      PROVE  FieldTypeOK'
  <2>1. outcome' \in [Requests -> {"running", "ok", "error", "timeout"}]
    BY <1>2, <1>7 DEF Complete
  <2>2. QED BY <1>1, <1>2, <1>7, <2>1 DEF Complete, FieldTypeOK
<1>8. CASE UNCHANGED fieldVars
  BY <1>1, <1>2, <1>8 DEF FieldTypeOK, fieldVars
<1>9. QED BY <1>3, <1>4, <1>5, <1>6, <1>7, <1>8 DEF Next, Consume, Timeout, PoolStep

-----------------------------------------------------------------------------
(* The WaitGroups. *)

Waited(n) == {j \in Jobs : ParentOf[j] = n /\ Outstanding(j)}

\* There are finitely many fields to wait for.
LEMMA WaitedFinite == \A n : IsFiniteSet(Waited(n)) /\ Cardinality(Waited(n)) \in Nat
<1>1. \A n : Waited(n) \in SUBSET Jobs
  BY DEF Waited
<1>2. QED BY <1>1, PoolAssumption, FS_Subset, FS_CardinalityType

\* A step that registers and signs off no field keeps the accounting.
LEMMA CountKept ==
    ASSUME WaitGroupAccounting, wg' = wg, \A j \in Jobs : Outstanding(j)' <=> Outstanding(j)
    PROVE  WaitGroupAccounting'
<1>1. \A n \in Inner : {j \in Jobs : ParentOf[j] = n /\ Outstanding(j)}' = {j \in Jobs : ParentOf[j] = n /\ Outstanding(j)}
  OBVIOUS
<1>2. QED BY <1>1 DEF WaitGroupAccounting

\* A step that registers or signs off field j changes the WaitGroup of its parent.
LEMMA CountChanged ==
    ASSUME WaitGroupAccounting, FieldTypeOK, NEW j \in Jobs, NEW d \in {1, -1},
           wg' = [wg EXCEPT ![ParentOf[j]] = @ + d],
           Outstanding(j) <=> d = -1, Outstanding(j)' <=> d = 1,
           \A k \in Jobs \ {j} : Outstanding(k)' <=> Outstanding(k)
    PROVE  WaitGroupAccounting'
<1>1. ASSUME NEW n \in Inner, n # ParentOf[j]
      PROVE  wg'[n] = Cardinality(Waited(n)')
  <2>1. Waited(n)' = Waited(n)
    BY <1>1 DEF Waited
  <2>2. QED BY <1>1, <2>1 DEF WaitGroupAccounting, Waited, FieldTypeOK
<1>2. ASSUME NEW n \in Inner, n = ParentOf[j]
      PROVE  wg'[n] = Cardinality(Waited(n)')
  <2>1. wg'[n] = wg[n] + d /\ wg[n] = Cardinality(Waited(n)) /\ IsFiniteSet(Waited(n)) /\ Cardinality(Waited(n)) \in Nat
    BY <1>2, WaitedFinite DEF WaitGroupAccounting, Waited, FieldTypeOK
  <2>2. CASE d = 1
    <3>1. Waited(n)' = Waited(n) \cup {j} /\ j \notin Waited(n)
      BY <1>2, <2>2 DEF Waited
    <3>2. QED BY <2>1, <2>2, <3>1, CardinalityByOne
  <2>3. CASE d = -1
    <3>1. Waited(n)' = Waited(n) \ {j} /\ j \in Waited(n)
      BY <1>2, <2>3 DEF Waited
    <3>2. QED BY <2>1, <2>3, <3>1, CardinalityByOne
  <2>4. QED BY <2>2, <2>3
<1>3. QED BY <1>1, <1>2 DEF WaitGroupAccounting, Waited

\* The nodes that move are not submitting, before or after, and no result waits at them.
QuietMoves ==
    /\ \A m \in Nodes : \/ npc'[m] = npc[m]
                        \/ npc[m] \notin {"submitting", "value"} /\ npc'[m] # "submitting"
    /\ \A m \in Inner : npc[m] = "submitting" => at'[m] = at[m]

\* Such a step registers and signs off nothing, if it leaves the calls and the fates.
LEMMA QuietCount ==
    ASSUME WaitGroupAccounting, wg' = wg,
           \A m \in Inner : /\ npc'[m] = "submitting" <=> npc[m] = "submitting"
                            /\ npc[m] = "submitting" => at'[m] = at[m],
           \A j \in Jobs : call'[j] = call[j] /\ (fate'[j] = "done" <=> fate[j] = "done")
    PROVE  WaitGroupAccounting'
<1>1. \A j \in Jobs : Outstanding(j)' <=> Outstanding(j)
  BY ParentApart DEF Outstanding
<1>2. QED BY <1>1, CountKept

\* The steps of nodes that neither submit nor collect are such steps.
LEMMA NodesMoveQuietly ==
    ASSUME Joins, Structure, NEW n \in Inner,
           OrderedBatch(n) \/ RestBatch(n) \/ Sequential(n) \/ WaitForCompletion(n) \/ Gathered(n)
    PROVE  QuietMoves
<1>1. FieldTypeOK /\ npc[n] \in {"batch", "sequential", "submit", "gathered"} /\ n \in Nodes
  BY FieldAssumption DEF Joins, OrderedBatch, RestBatch, Sequential, WaitForCompletion, Gathered, Nodes, Inner
<1>2. ASSUME NEW p, npc' = [npc EXCEPT ![n] = p], p # "submitting", at' = at
      PROVE  QuietMoves
  BY <1>1, <1>2 DEF QuietMoves, FieldTypeOK
<1>3. ASSUME NEW j \in Jobs, npc[j] = "idle", RunInline(n, j)
      PROVE  QuietMoves
  <2>1. j \in Nodes
    BY DEF Nodes
  <2>2. QED BY <1>1, <1>3, <2>1 DEF QuietMoves, FieldTypeOK, RunInline
<1>4. CASE OrderedBatch(n)
  <2>1. /\ Ordered[n][batch[n]] = CurrentBatch(n)
        /\ \A j \in CurrentBatch(n) : j \in Jobs /\ npc[j] = "idle"
    BY <1>1, <1>4, BatchShape DEF OrderedBatch, CurrentBatch, Joins, NodeOK, Fresh
  <2>2. \/ UNCHANGED <<npc, at>>
        \/ \E j \in CurrentBatch(n) : RunInline(n, j)
        \/ npc' = [npc EXCEPT ![n] = "submit"] /\ at' = at
    BY <1>4, <2>1 DEF OrderedBatch
  <2>3. QED BY <1>2, <1>3, <2>1, <2>2 DEF QuietMoves
<1>5. CASE Sequential(n)
  <2>1. \A j \in todo[n] : j \in Jobs /\ npc[j] = "idle"
    BY <1>1, <1>5 DEF Sequential, Joins, NodeOK, Fresh, FieldTypeOK, Places
  <2>2. \/ npc' = [npc EXCEPT ![n] = "gathered"] /\ at' = at
        \/ \E j \in todo[n] : RunInline(n, j)
    BY <1>5 DEF Sequential
  <2>3. QED BY <1>2, <1>3, <2>1, <2>2
<1>6. CASE RestBatch(n)
  <2>1. at' = at /\ \E p \in {"gathered", "sequential", "submit"} : npc' = [npc EXCEPT ![n] = p]
    BY <1>6 DEF RestBatch
  <2>2. QED BY <1>2, <2>1
<1>7. CASE WaitForCompletion(n) \/ Gathered(n)
  <2>1. at' = at /\ \E p \in {"gathered", "batch", "closed", "value"} : npc' = [npc EXCEPT ![n] = p]
    BY <1>7 DEF WaitForCompletion, Gathered
  <2>2. QED BY <1>2, <2>1
<1>8. QED BY <1>4, <1>5, <1>6, <1>7

-----------------------------------------------------------------------------
(* No result is lost. *)

\* A step keeps the results if the new ones wait to be collected and the old ones stay
\* where they are or move on.
LEMMA KeptFrame ==
    ASSUME Kept, cancelled \subseteq cancelled',
           \A j \in made' : j \in made \/ npc'[j] = "value",
           \A j \in made :
              /\ npc[j] = "value" => npc'[j] = "value" \/ ReqOf[j] \in cancelled' \/ j \in got'[ParentOf[j]] \/ Sent(j)'
              /\ j \in got[ParentOf[j]] => j \in got'[ParentOf[j]]
              /\ Sent(j) => Sent(j)' \/ ReqOf[j] \in cancelled' \/ j \in got'[ParentOf[j]]
    PROVE  Kept'
  BY DEF Kept

\* A step that collects nothing and leaves the values that wait to be collected.
LEMMA QuietKept ==
    ASSUME Kept, FieldTypeOK, cancelled \subseteq cancelled', UNCHANGED <<got, ch>>,
           \A j \in made' : j \in made \/ npc'[j] = "value",
           \A j \in Jobs : npc[j] = "value" => npc'[j] = "value"
    PROVE  Kept'
<1>1. \A j \in made : Sent(j) => Sent(j)'
  BY DEF Sent
<1>2. made \subseteq Jobs
  BY DEF FieldTypeOK
<1>3. QED BY <1>1, <1>2, KeptFrame

\* A collected result is in the channel or in the map of its object, with all others.
LEMMA CollectPlaces ==
    ASSUME FieldTypeOK, NEW j \in Jobs, Collect(j)
    PROVE  /\ j \in got'[ParentOf[j]] \/ Sent(j)'
           /\ \A k \in Jobs : (k \in got[ParentOf[k]] => k \in got'[ParentOf[k]]) /\ (Sent(k) => Sent(k)')
<1>1. got \in [Inner -> SUBSET Jobs] /\ ch \in [Requests -> Seq(Jobs)] /\ Objects \subseteq Inner
  BY DEF FieldTypeOK, Inner
<1>2. CASE ParentOf[j] \in Requests /\ ch' = [ch EXCEPT ![ParentOf[j]] = Append(@, j)] /\ UNCHANGED got
  <2>1. PICK q \in Requests : q = ParentOf[j]
    BY <1>2
  <2>2. ch[q] \in Seq(Jobs) /\ Len(ch[q]) \in Nat /\ DOMAIN ch[q] = 1 .. Len(ch[q])
    BY <1>1
  <2>3. /\ ch'[q] = Append(ch[q], j) /\ DOMAIN ch'[q] = 1 .. Len(ch[q]) + 1
        /\ ch'[q][Len(ch[q]) + 1] = j /\ \A i \in DOMAIN ch[q] : ch'[q][i] = ch[q][i]
        /\ \A r \in Requests : r # q => ch'[r] = ch[r]
    BY <1>1, <1>2, <2>1, <2>2
  <2>4. Sent(j)'
    <3>1. Len(ch[q]) + 1 \in DOMAIN ch'[q]
      BY <2>2, <2>3
    <3>2. QED BY <2>1, <2>3, <3>1 DEF Sent
  <2>5. ASSUME NEW k \in Jobs, Sent(k)
        PROVE  Sent(k)'
    <3>1. PICK i \in DOMAIN ch[ParentOf[k]] : ch[ParentOf[k]][i] = k
      BY <2>5 DEF Sent
    <3>2. ParentOf[k] \in Requests
      BY <2>5 DEF Sent
    <3>3. CASE ParentOf[k] = q
      <4>1. i \in DOMAIN ch'[q] /\ ch'[q][i] = k
        BY <2>2, <2>3, <3>1, <3>3
      <4>2. QED BY <3>2, <3>3, <4>1 DEF Sent
    <3>4. CASE ParentOf[k] # q
      BY <2>3, <3>1, <3>2, <3>4 DEF Sent
    <3>5. QED BY <3>3, <3>4
  <2>6. QED BY <1>2, <2>4, <2>5
<1>3. CASE ParentOf[j] \in Objects /\ got' = [got EXCEPT ![ParentOf[j]] = @ \cup {j}] /\ UNCHANGED ch
  <2>1. \A k \in Jobs : Sent(k) => Sent(k)'
    BY <1>3 DEF Sent
  <2>2. ParentOf[j] \in Inner /\ \A k \in Jobs : ParentOf[k] \in Inner
    BY <1>1, <1>3, ParentApart
  <2>3. QED BY <1>1, <1>3, <2>1, <2>2
<1>4. QED BY <1>2, <1>3 DEF Collect

\* A step after which field j no longer waits to be collected keeps the results if j was
\* collected, or its deadline has passed.
LEMMA CollectKept ==
    ASSUME Kept, FieldTypeOK, NEW j \in Jobs, UNCHANGED <<made, cancelled>>,
           \/ Collect(j)
           \/ UNCHANGED <<ch, got>> /\ (CtxDone(j) \/ npc[j] # "value"),
           \A k \in Jobs : k # j /\ npc[k] = "value" => npc'[k] = "value"
    PROVE  Kept'
<1>1. made \subseteq Jobs /\ j \notin Requests
  BY FieldAssumption DEF FieldTypeOK
<1>2. CASE Collect(j)
  <2>1. /\ j \in got'[ParentOf[j]] \/ Sent(j)'
        /\ \A k \in Jobs : (k \in got[ParentOf[k]] => k \in got'[ParentOf[k]]) /\ (Sent(k) => Sent(k)')
    BY <1>2, CollectPlaces
  <2>2. QED BY <1>1, <2>1, KeptFrame
<1>3. CASE UNCHANGED <<ch, got>> /\ (CtxDone(j) \/ npc[j] # "value")
  <2>1. \A k \in Jobs : Sent(k) => Sent(k)'
    BY <1>3 DEF Sent
  <2>2. npc[j] = "value" => ReqOf[j] \in cancelled'
    BY <1>1, <1>3 DEF CtxDone, Root
  <2>3. QED BY <1>1, <1>3, <2>1, <2>2, KeptFrame
<1>4. QED BY <1>2, <1>3

\* Generate takes the first result out of the channel; after the deadline it drops it.
LEMMA ReceiveKept ==
    ASSUME Kept, FieldTypeOK, NEW r \in Requests, Receive(r)
    PROVE  Kept'
<1>1. made \subseteq Jobs /\ UNCHANGED <<made, cancelled, npc>> /\ ch[r] \in Seq(Jobs) /\ ch[r] # << >>
      /\ ch' = [ch EXCEPT ![r] = Tail(@)] /\ ch \in [Requests -> Seq(Jobs)] /\ got \in [Inner -> SUBSET Jobs] /\ r \in Inner
  BY DEF FieldTypeOK, Receive, poolVars, Inner
<1>2. \A j \in Jobs : j \in got[ParentOf[j]] => j \in got'[ParentOf[j]]
  <2>1. CASE r \in cancelled
    BY <2>1 DEF Receive
  <2>2. CASE r \notin cancelled
    BY <1>1, <2>2, ParentApart, ZenonT(40) DEF Receive
  <2>3. QED BY <2>1, <2>2
<1>3. ASSUME NEW j \in Jobs, Sent(j)
      PROVE  Sent(j)' \/ ReqOf[j] \in cancelled' \/ j \in got'[ParentOf[j]]
  <2>1. PICK i \in DOMAIN ch[ParentOf[j]] : ch[ParentOf[j]][i] = j
    BY <1>3 DEF Sent
  <2>2. ParentOf[j] \in Requests /\ ReqOf[j] = ParentOf[j]
    BY <1>3, FieldAssumption DEF Sent
  <2>3. CASE ParentOf[j] # r
    BY <1>1, <2>1, <2>2, <2>3 DEF Sent
  <2>4. CASE ParentOf[j] = r /\ r \in cancelled
    BY <1>1, <2>2, <2>4
  <2>5. CASE ParentOf[j] = r /\ r \notin cancelled /\ i = 1
    <3>1. got' = [got EXCEPT ![r] = got[r] \cup {Head(ch[r])}] /\ Head(ch[r]) = j
      BY <1>1, <2>1, <2>5 DEF Receive
    <3>2. QED BY <1>1, <2>5, <3>1
  <2>6. CASE ParentOf[j] = r /\ i # 1
    <3>1. i - 1 \in DOMAIN Tail(ch[r]) /\ Tail(ch[r])[i - 1] = j
      BY <1>1, <2>1, <2>6
    <3>2. ch'[r] = Tail(ch[r])
      BY <1>1
    <3>3. QED BY <2>2, <2>6, <3>1, <3>2 DEF Sent
  <2>7. QED BY <2>3, <2>4, <2>5, <2>6
<1>4. QED BY <1>1, <1>2, <1>3, KeptFrame

-----------------------------------------------------------------------------
(* The invariant is inductive, given that of the pool. *)

\* A step of a node keeps the invariant.
LEMMA ProcessKeeps ==
    ASSUME FieldIInv, Structure, FieldTypeOK', NEW n \in Inner, Process(n)
    PROVE  FieldIInv'
<1>1. Joins /\ WaitGroupAccounting /\ Kept /\ FieldTypeOK /\ n \in Nodes
  BY FieldAssumption DEF FieldIInv, Joins, Nodes, Inner
<1>2. CASE OrderedBatch(n) \/ RestBatch(n) \/ Sequential(n) \/ WaitForCompletion(n) \/ Gathered(n)
  <2>1. QuietMoves
    BY <1>1, <1>2, NodesMoveQuietly
  <2>2. UNCHANGED <<call, fate, cancelled, wg, got, ch>>
    BY <1>2 DEF OrderedBatch, RestBatch, Sequential, WaitForCompletion, Gathered, poolVars
  <2>3. WaitGroupAccounting'
    <3>1. \A m \in Inner : /\ npc'[m] = "submitting" <=> npc[m] = "submitting"
                           /\ npc[m] = "submitting" => at'[m] = at[m]
      BY <2>1, FieldAssumption DEF QuietMoves, Nodes, Inner
    <3>2. QED BY <1>1, <2>2, <3>1, QuietCount
  <2>4. Kept'
    <3>1. \A j \in Jobs : npc[j] = "value" => npc'[j] = "value"
      BY <2>1 DEF QuietMoves, Nodes
    <3>2. \A j \in made' : j \in made \/ npc'[j] = "value"
      BY <1>1, <1>2 DEF OrderedBatch, RestBatch, Sequential, WaitForCompletion, Gathered, FieldTypeOK
    <3>3. QED BY <1>1, <2>2, <3>1, <3>2, QuietKept
  <2>5. Joins'
    <3>1. CASE WaitForCompletion(n)
      <4>1. wg[n] = 0
        BY <3>1 DEF WaitForCompletion
      <4>2. Cardinality(Waited(n)) = 0
        BY <1>1, <4>1 DEF WaitGroupAccounting, Waited
      <4>3. Waited(n) = {}
        BY <4>2, WaitedFinite, FS_EmptySet
      <4>4. \A k \in Jobs : ParentOf[k] = n => ~Outstanding(k)
        BY <4>3 DEF Waited
      <4>5. QED BY <1>1, <3>1, <4>4, WaitForCompletionKeeps
    <3>2. CASE Gathered(n)
      <4>1. PICK p \in {"closed", "value"} : npc' = [npc EXCEPT ![n] = p]
        BY <3>2 DEF Gathered
      <4>2. npc[n] = "gathered" /\ UNCHANGED <<at, batch, todo, call, fate>>
        BY <3>2 DEF Gathered, poolVars
      <4>3. QED BY <1>1, <4>1, <4>2, QuietMove
    <3>3. QED BY <1>1, <1>2, <3>1, <3>2, OrderedBatchKeeps, RestBatchKeeps, SequentialKeeps
  <2>6. QED BY <2>3, <2>4, <2>5 DEF FieldIInv
<1>3. CASE InlineDone(n)
  <2>1. npc[n] = "inline" /\ UNCHANGED <<call, fate, cancelled, wg, made>>
    BY <1>3 DEF InlineDone, poolVars
  <2>2. at[n] \in CurrentBatch(n)
    BY <1>1, <2>1 DEF Joins, NodeOK
  <2>3. PICK j \in Jobs : j = at[n]
    BY <1>1, <2>2, BatchShape
  <2>4. /\ npc[j] \in {"value", "novalue"} /\ at' = [at EXCEPT ![n] = None]
        /\ \E p \in {"batch", "sequential", "gathered"} : npc' = [npc EXCEPT ![j] = "end", ![n] = p]
        /\ Collect(j) \/ (UNCHANGED <<ch, got>> /\ (CtxDone(j) \/ npc[j] # "value"))
    BY <1>3, <2>3 DEF InlineDone, CollectFails
  <2>5. PICK p \in {"batch", "sequential", "gathered"} : npc' = [npc EXCEPT ![j] = "end", ![n] = p]
    BY <2>4
  <2>6. j \in Nodes /\ npc'[n] = p /\ (j # n => npc'[j] = "end") /\ \A m \in Nodes : m \notin {n, j} => npc'[m] = npc[m]
    BY <1>1, <2>5 DEF FieldTypeOK, Nodes
  <2>7. WaitGroupAccounting'
    <3>1. \A m \in Inner : /\ npc'[m] = "submitting" <=> npc[m] = "submitting"
                           /\ npc[m] = "submitting" => at'[m] = at[m]
      BY <1>1, <2>1, <2>4, <2>6, FieldAssumption DEF FieldTypeOK, Nodes, Inner
    <3>2. QED BY <1>1, <2>1, <3>1, QuietCount
  <2>8. Kept'
    <3>1. \A k \in Jobs : k # j /\ npc[k] = "value" => npc'[k] = "value"
      BY <2>1, <2>6 DEF Nodes
    <3>2. QED BY <1>1, <2>1, <2>4, <3>1, CollectKept
  <2>9. QED BY <1>1, <1>3, <2>7, <2>8, InlineDoneKeeps DEF FieldIInv
<1>4. CASE SubmitField(n)
  <2>1. PICK j \in todo[n] : at' = [at EXCEPT ![n] = j] /\ Call(j)
    BY <1>4 DEF SubmitField
  <2>2. /\ npc[n] = "submit" /\ npc' = [npc EXCEPT ![n] = "submitting"] /\ UNCHANGED <<made, got, ch>>
        /\ wg' = [wg EXCEPT ![n] = @ + 1] /\ fate' = fate /\ cancelled' = cancelled
    BY <1>4, <2>1 DEF SubmitField, Call
  <2>3. j \in CurrentBatch(n) /\ call[j] = "idle"
    BY <1>1, <2>1, <2>2 DEF Joins, NodeOK, Fresh
  <2>4. j \in Jobs /\ ParentOf[j] = n
    BY <1>1, <2>3, BatchShape
  <2>5. /\ npc'[n] = "submitting" /\ (\A m \in Nodes : m # n => npc'[m] = npc[m])
        /\ at'[n] = j /\ (\A m \in Inner : m # n => at'[m] = at[m])
        /\ call'[j] \in {"acquire", "refused"} /\ \A k \in Jobs : k # j => call'[k] = call[k]
    BY <1>1, <2>1, <2>2, <2>4 DEF FieldTypeOK, Call, Structure, WeakTypeOK
  <2>6. WaitGroupAccounting'
    <3>1. ~Outstanding(j) /\ Outstanding(j)'
      <4>1. fate[j] = "none"
        BY <2>3, <2>4 DEF Structure, CallMatchesFate
      <4>2. QED BY <2>2, <2>3, <2>4, <2>5, <4>1 DEF Outstanding
    <3>2. ASSUME NEW k \in Jobs \ {j}
          PROVE  Outstanding(k)' <=> Outstanding(k)
      <4>1. ParentOf[k] \in Nodes /\ ParentOf[k] \in Inner
        BY ParentApart, FieldAssumption DEF Nodes, Inner
      <4>2. QED BY <2>2, <2>5, <4>1 DEF Outstanding
    <3>3. PICK d \in {1, -1} : d = 1 /\ wg' = [wg EXCEPT ![ParentOf[j]] = @ + d]
      BY <2>2, <2>4
    <3>4. (Outstanding(j) <=> d = -1) /\ (Outstanding(j)' <=> d = 1)
      BY <3>1, <3>3
    <3>5. QED BY <1>1, <2>4, <3>2, <3>3, <3>4, CountChanged
  <2>7. Kept'
    <3>1. \A k \in Jobs : npc[k] = "value" => npc'[k] = "value"
      BY <2>2, <2>5 DEF Nodes
    <3>2. QED BY <1>1, <2>2, <3>1, QuietKept
  <2>8. QED BY <1>1, <1>4, <2>6, <2>7, SubmitFieldKeeps DEF FieldIInv
<1>5. CASE SubmitReturned(n)
  <2>1. /\ npc[n] = "submitting" /\ npc' = [npc EXCEPT ![n] = "submit"] /\ at' = [at EXCEPT ![n] = None]
        /\ UNCHANGED <<call, fate, cancelled, made, got, ch>> /\ call[at[n]] \in {"accepted", "refused"}
        /\ wg' = [wg EXCEPT ![n] = IF call[at[n]] = "refused" THEN @ - 1 ELSE @]
    BY <1>5 DEF SubmitReturned, poolVars
  <2>2. at[n] \in CurrentBatch(n)
    BY <1>1, <2>1 DEF Joins, NodeOK
  <2>3. PICK j \in Jobs : j = at[n] /\ ParentOf[j] = n
    BY <1>1, <2>2, BatchShape
  <2>4. /\ npc'[n] = "submit" /\ (\A m \in Nodes : m # n => npc'[m] = npc[m])
        /\ (\A m \in Inner : m # n => at'[m] = at[m])
    BY <1>1, <2>1 DEF FieldTypeOK
  <2>5. ASSUME NEW k \in Jobs \ {j}
        PROVE  Outstanding(k)' <=> Outstanding(k)
    <3>1. ParentOf[k] \in Nodes /\ ParentOf[k] \in Inner
      BY ParentApart, FieldAssumption DEF Nodes, Inner
    <3>2. QED BY <2>1, <2>3, <2>4, <3>1 DEF Outstanding
  <2>6. WaitGroupAccounting'
    <3>1. CASE call[j] = "refused"
      <4>1. fate[j] = "none"
        BY <3>1 DEF Structure, CallMatchesFate
      <4>2. Outstanding(j) /\ ~Outstanding(j)'
        BY <2>1, <2>3, <2>4, <3>1, <4>1 DEF Outstanding
      <4>3. wg[n] \in Int /\ wg[n] - 1 = wg[n] + (-1)
        BY <1>1 DEF FieldTypeOK
      <4>4. PICK d \in {1, -1} : d = -1 /\ wg' = [wg EXCEPT ![ParentOf[j]] = @ + d]
        BY <2>1, <2>3, <3>1, <4>3
      <4>5. (Outstanding(j) <=> d = -1) /\ (Outstanding(j)' <=> d = 1)
        BY <4>2, <4>4
      <4>6. QED BY <1>1, <2>5, <4>4, <4>5, CountChanged
    <3>2. CASE call[j] = "accepted"
      <4>1. Outstanding(j)' <=> Outstanding(j)
        BY <2>1, <3>2 DEF Outstanding
      <4>2. wg' = wg
        BY <1>1, <2>1, <2>3, <3>2 DEF FieldTypeOK
      <4>3. QED BY <1>1, <2>5, <4>1, <4>2, CountKept
    <3>3. QED BY <2>1, <2>3, <3>1, <3>2
  <2>7. Kept'
    <3>1. \A k \in Jobs : npc[k] = "value" => npc'[k] = "value"
      BY <2>1, <2>4 DEF Nodes
    <3>2. QED BY <1>1, <2>1, <3>1, QuietKept
  <2>8. QED BY <1>1, <1>5, <2>6, <2>7, SubmitReturnedKeeps DEF FieldIInv
<1>6. QED BY <1>2, <1>3, <1>4, <1>5 DEF Process, FieldIInv

\* processField on a field keeps the invariant.
LEMMA FieldKeeps ==
    ASSUME FieldIInv, FieldTypeOK', NEW j \in Jobs, Field(j)
    PROVE  FieldIInv'
<1>1. Joins /\ WaitGroupAccounting /\ Kept /\ FieldTypeOK /\ j \in Nodes
  BY DEF FieldIInv, Joins, Nodes
<1>2. PICK p \in {"llm", "batch", "value", "novalue"} : npc' = [npc EXCEPT ![j] = p]
  BY DEF Field, BeginField, GenerateField
<1>3. npc[j] \in {"start", "llm"} /\ UNCHANGED <<at, batch, todo, call, fate, wg, got, ch, cancelled>>
      /\ (made' = made \/ (p = "value" /\ made' = made \cup {j}))
  BY <1>1, <1>2 DEF Field, BeginField, GenerateField, poolVars, FieldTypeOK
<1>4. npc'[j] = p /\ \A m \in Nodes : m # j => npc'[m] = npc[m]
  BY <1>1, <1>2 DEF FieldTypeOK
<1>5. Joins'
  BY <1>1, <1>2, <1>3, QuietMove
<1>6. WaitGroupAccounting'
  <2>1. \A m \in Inner : npc'[m] = "submitting" <=> npc[m] = "submitting"
    BY <1>3, <1>4, FieldAssumption DEF Nodes, Inner
  <2>2. QED BY <1>1, <1>3, <2>1, QuietCount
<1>7. Kept'
  <2>1. \A k \in Jobs : npc[k] = "value" => npc'[k] = "value"
    BY <1>3, <1>4 DEF Nodes
  <2>2. \A k \in made' : k \in made \/ npc'[k] = "value"
    BY <1>3, <1>4
  <2>3. QED BY <1>1, <1>3, <2>1, <2>2, QuietKept
<1>8. QED BY <1>5, <1>6, <1>7 DEF FieldIInv

\* A worker that runs the function of a field keeps the invariant.
LEMMA OnWorkerKeeps ==
    ASSUME FieldIInv, Structure, FieldTypeOK', NEW w \in Workers, OnWorker(w)
    PROVE  FieldIInv'
<1>1. Joins /\ WaitGroupAccounting /\ Kept /\ FieldTypeOK
  BY DEF FieldIInv, Joins
<1>2. wpc[w] \in {"check", "run"}
  BY DEF OnWorker, StartField, Start, CollectField, FinishField, Finish
<1>3. PICK j \in Jobs : j = cur[w] /\ call[j] \notin {"idle", "refused"}
  BY <1>2, WorkersField
<1>4. j \in Nodes /\ FieldOK(j)
  BY <1>1 DEF Joins, Nodes
<1>5. CASE StartField(w)
  <2>1. /\ npc' = [npc EXCEPT ![j] = "start"] /\ fate' = [fate EXCEPT ![j] = "running"]
        /\ UNCHANGED <<at, call, wg, made, got, ch, cancelled>>
    BY <1>3, <1>5 DEF StartField, Start
  <2>2. fate[j] = "popped" /\ npc[j] = "idle"
    BY <1>2, <1>3, <1>4, <1>5, WorkersField DEF StartField, Start, FieldOK, Active
  <2>3. npc'[j] = "start" /\ (\A m \in Nodes : m # j => npc'[m] = npc[m])
        /\ fate'[j] = "running" /\ (\A k \in Jobs : k # j => fate'[k] = fate[k])
    BY <1>1, <1>4, <2>1 DEF FieldTypeOK, Structure, WeakTypeOK
  <2>4. WaitGroupAccounting'
    <3>1. \A m \in Inner : npc'[m] = "submitting" <=> npc[m] = "submitting"
      BY <2>2, <2>3, FieldAssumption DEF Nodes, Inner
    <3>2. QED BY <1>1, <2>1, <2>2, <2>3, <3>1, QuietCount
  <2>5. Kept'
    <3>1. \A k \in Jobs : npc[k] = "value" => npc'[k] = "value"
      BY <2>2, <2>3 DEF Nodes
    <3>2. QED BY <1>1, <2>1, <3>1, QuietKept
  <2>6. QED BY <1>1, <1>5, <2>4, <2>5, WorkerKeeps DEF FieldIInv
<1>6. CASE CollectField(w)
  <2>1. /\ npc[j] = "value" /\ UNCHANGED <<at, batch, todo, call, fate, wg, made, cancelled>>
        /\ Collect(j) \/ (UNCHANGED <<ch, got>> /\ CtxDone(j))
    BY <1>3, <1>6 DEF CollectField, CollectFails, poolVars
  <2>2. PICK p \in {"collected"} : npc' = [npc EXCEPT ![j] = p]
    BY <1>3, <1>6 DEF CollectField
  <2>3. npc'[j] = "collected" /\ (\A m \in Nodes : m # j => npc'[m] = npc[m])
    BY <1>1, <1>4, <2>2 DEF FieldTypeOK
  <2>4. Joins'
    BY <1>1, <1>4, <2>1, <2>2, QuietMove
  <2>5. WaitGroupAccounting'
    <3>1. \A m \in Inner : npc'[m] = "submitting" <=> npc[m] = "submitting"
      BY <2>1, <2>3, FieldAssumption DEF Nodes, Inner
    <3>2. QED BY <1>1, <2>1, <3>1, QuietCount
  <2>6. Kept'
    <3>1. \A k \in Jobs : k # j /\ npc[k] = "value" => npc'[k] = "value"
      BY <2>3 DEF Nodes
    <3>2. QED BY <1>1, <2>1, <3>1, CollectKept
  <2>7. QED BY <2>4, <2>5, <2>6 DEF FieldIInv
<1>7. CASE FinishField(w)
  <2>1. /\ npc' = [npc EXCEPT ![j] = "end"] /\ fate' = [fate EXCEPT ![j] = "done"]
        /\ wg' = [wg EXCEPT ![ParentOf[j]] = @ - 1]
        /\ UNCHANGED <<at, call, made, got, ch, cancelled>> /\ npc[j] \in {"collected", "novalue"}
    BY <1>3, <1>7 DEF FinishField, Finish
  <2>2. fate[j] = "running"
    BY <1>2, <1>3, <1>7, WorkersField DEF FinishField, Finish
  <2>3. npc'[j] = "end" /\ (\A m \in Nodes : m # j => npc'[m] = npc[m])
        /\ fate'[j] = "done" /\ (\A k \in Jobs : k # j => fate'[k] = fate[k])
    BY <1>1, <1>4, <2>1 DEF FieldTypeOK, Structure, WeakTypeOK
  <2>4. \A m \in Inner : npc'[m] = "submitting" <=> npc[m] = "submitting"
    BY <2>1, <2>3, FieldAssumption DEF Nodes, Inner
  <2>5. \A k \in Jobs \ {j} : Outstanding(k)' <=> Outstanding(k)
    BY <2>1, <2>3, <2>4, ParentApart DEF Outstanding
  <2>6. Outstanding(j) /\ ~Outstanding(j)'
    BY <1>3, <2>2, <2>3 DEF Outstanding
  <2>7. WaitGroupAccounting'
    <3>1. wg[ParentOf[j]] \in Int /\ wg[ParentOf[j]] - 1 = wg[ParentOf[j]] + (-1)
      BY <1>1, ParentApart DEF FieldTypeOK
    <3>2. PICK d \in {1, -1} : d = -1 /\ wg' = [wg EXCEPT ![ParentOf[j]] = @ + d]
      BY <2>1, <3>1
    <3>3. (Outstanding(j) <=> d = -1) /\ (Outstanding(j)' <=> d = 1)
      BY <2>6, <3>2
    <3>4. QED BY <1>1, <2>5, <3>2, <3>3, CountChanged
  <2>8. Kept'
    <3>1. \A k \in Jobs : npc[k] = "value" => npc'[k] = "value"
      BY <2>1, <2>3 DEF Nodes
    <3>2. QED BY <1>1, <2>1, <3>1, QuietKept
  <2>9. QED BY <1>1, <1>7, <2>7, <2>8, WorkerKeeps DEF FieldIInv
<1>8. QED BY <1>5, <1>6, <1>7 DEF OnWorker

\* The loop over the results channel, and the end of a context, keep the invariant.
LEMMA ConsumeKeeps ==
    ASSUME FieldIInv, FieldTypeOK', NEW r \in Requests, Consume(r) \/ Timeout(r)
    PROVE  FieldIInv'
<1>1. Joins /\ WaitGroupAccounting /\ Kept /\ FieldTypeOK
  BY DEF FieldIInv, Joins
<1>2. UNCHANGED <<npc, at, batch, todo, call, fate, wg, made>>
  BY DEF Consume, Receive, Complete, Timeout, Cancel, poolVars, fieldVars
<1>3. Joins'
  BY <1>1, <1>2 DEF Joins, FieldOK, NodeOK, Active, Fresh, CurrentBatch, LaterBatches, InRest
<1>4. WaitGroupAccounting'
  BY <1>1, <1>2, QuietCount
<1>5. CASE Receive(r)
  BY <1>1, <1>3, <1>4, <1>5, ReceiveKept DEF FieldIInv
<1>6. CASE Complete(r) \/ Timeout(r)
  <2>1. cancelled \subseteq cancelled' /\ UNCHANGED <<got, ch>>
    BY <1>6 DEF Complete, Timeout, Cancel, fieldVars
  <2>2. Kept'
    BY <1>1, <1>2, <2>1, QuietKept
  <2>3. QED BY <1>3, <1>4, <2>2 DEF FieldIInv
<1>7. QED BY <1>5, <1>6 DEF Consume

\* The steps of the pool itself keep the invariant.
LEMMA PoolStepKeeps ==
    ASSUME FieldIInv, Structure, FieldTypeOK', PoolStep
    PROVE  FieldIInv'
<1>1. Joins /\ WaitGroupAccounting /\ Kept /\ FieldTypeOK
  BY DEF FieldIInv, Joins
<1>2. UNCHANGED fieldVars /\ UNCHANGED <<npc, at, batch, todo, wg, made, got, ch>>
  BY DEF PoolStep, fieldVars
<1>3. ASSUME NEW j \in Jobs, Submitter(j)
      PROVE  FieldIInv'
  <2>1. /\ \A k \in Jobs : k # j => UNCHANGED <<call[k], fate[k]>>
        /\ call[j] \in {"acquire", "offer", "push", "signal"}
        /\ call'[j] \in {"offer", "push", "signal", "accepted", "refused"}
        /\ fate'[j] = fate[j] \/ (fate[j] = "none" /\ fate'[j] \in {"queued", "dropped"})
        /\ cancelled' = cancelled
    BY <1>3 DEF Structure, WeakTypeOK, CallMatchesFate, Submitter, Acquire, GiveUp, Offer, Drop, Push, Signal
  <2>2. npc[ParentOf[j]] = "submitting" /\ at[ParentOf[j]] = j
    BY <1>1, <2>1 DEF Joins, FieldOK
  <2>3. \A k \in Jobs : Outstanding(k)' <=> Outstanding(k)
    BY <1>2, <2>1, <2>2 DEF Outstanding
  <2>4. WaitGroupAccounting'
    BY <1>1, <1>2, <2>3, CountKept
  <2>5. Kept'
    BY <1>1, <1>2, <2>1, QuietKept
  <2>6. QED BY <1>1, <1>2, <1>3, <2>4, <2>5, SubmitterKeeps DEF FieldIInv
<1>4. ASSUME NEW w \in Workers, Top(w) \/ Park(w) \/ Pop(w) \/ Skip(w)
      PROVE  FieldIInv'
  <2>1. call' = call /\ cancelled' = cancelled
    BY <1>4 DEF Top, Park, Pop, Skip
  <2>2. \A k \in Jobs : fate'[k] = "done" <=> fate[k] = "done"
    <3>1. CASE Top(w) \/ Park(w)
      BY <3>1 DEF Top, Park
    <3>2. CASE Pop(w)
      <4>1. PICK j \in heap[Shard(w)] : fate' = [fate EXCEPT ![j] = "popped"]
        BY <3>2 DEF Pop
      <4>2. j \in Jobs /\ fate[j] = "queued" /\ fate \in [Jobs -> Fates]
        BY <4>1, PoolShape DEF Structure, WeakTypeOK, JobInOnePlace
      <4>3. QED BY <4>1, <4>2
    <3>3. CASE Skip(w)
      <4>1. cur[w] \in Jobs /\ fate[cur[w]] = "popped" /\ fate' = [fate EXCEPT ![cur[w]] = "skipped"] /\ fate \in [Jobs -> Fates]
        BY <3>3 DEF Skip, Structure, WeakTypeOK, WorkerMatchesJob
      <4>2. QED BY <4>1
    <3>4. QED BY <1>4, <3>1, <3>2, <3>3
  <2>3. WaitGroupAccounting'
    BY <1>1, <1>2, <2>1, <2>2, QuietCount
  <2>4. Kept'
    BY <1>1, <1>2, <2>1, QuietKept
  <2>5. QED BY <1>1, <1>2, <1>4, <2>3, <2>4, LoopKeeps DEF FieldIInv
<1>5. QED BY <1>3, <1>4 DEF PoolStep

\* Every step keeps the invariant.
LEMMA FieldNext == FieldIInv /\ Structure /\ [Next]_vars => FieldIInv'
<1> SUFFICES ASSUME FieldIInv, Structure, [Next]_vars PROVE FieldIInv'
  OBVIOUS
<1>1. CASE Next
  <2>1. FieldTypeOK'
    BY <1>1, FieldTypeKept DEF FieldIInv
  <2>2. QED BY <1>1, <2>1, ProcessKeeps, FieldKeeps, OnWorkerKeeps, ConsumeKeeps, PoolStepKeeps DEF Next
<1>2. CASE UNCHANGED vars
  <2>1. UNCHANGED <<npc, batch, todo, at, wg, made, got, ch, outcome, call, fate, cancelled>>
    BY <1>2 DEF vars, fieldVars, poolVars
  <2>2. Joins'
    BY <2>1 DEF FieldIInv, Joins, FieldTypeOK, Places, FieldOK, NodeOK, Active, Fresh, CurrentBatch, LaterBatches, InRest
  <2>3. WaitGroupAccounting'
    BY <2>1, QuietCount DEF FieldIInv
  <2>4. Kept'
    BY <2>1 DEF FieldIInv, Kept, Sent
  <2>5. QED BY <2>2, <2>3, <2>4 DEF FieldIInv
<1>3. QED BY <1>1, <1>2

\* At first every request stands before its first batch and no field is touched.
LEMMA FieldInit == Init => FieldIInv
<1> SUFFICES ASSUME Init PROVE FieldIInv
  OBVIOUS
<1>1. FieldTypeOK
  <2>1. Places
    BY FieldAssumption DEF Init, Places
  <2>2. npc \in [Nodes -> NodeStates]
    BY DEF Init, NodeStates
  <2>3. \A r \in Requests : ch[r] = << >> /\ Len(ch[r]) <= BufferSize
    BY FieldAssumption DEF Init
  <2>4. QED BY <2>1, <2>2, <2>3 DEF Init, FieldTypeOK
<1>2. \A j \in Jobs : npc[j] = "idle" /\ call[j] = "idle" /\ fate[j] = "none"
  BY FieldAssumption DEF Init, PoolInit, Nodes
<1>3. \A j \in Jobs : FieldOK(j)
  BY <1>2 DEF FieldOK, Active
<1>4. \A n \in Inner : npc[n] \in {"batch", "idle"}
  BY FieldAssumption DEF Init, Nodes, Inner
<1>5. \A n \in Inner : NodeOK(n)
  BY <1>1, <1>2, <1>4, BatchShape DEF NodeOK, Fresh
<1>6. WaitGroupAccounting
  <2>1. \A n \in Inner : {j \in Jobs : ParentOf[j] = n /\ Outstanding(j)} = {}
    BY <1>2 DEF Outstanding
  <2>2. QED BY <2>1, FS_EmptySet DEF WaitGroupAccounting, Init
<1>7. Kept
  BY DEF Init, Kept
<1>8. QED BY <1>1, <1>3, <1>5, <1>6, <1>7 DEF FieldIInv, Joins

\* The invariant of the pool holds under the field processor too, and with it this one.
LEMMA FieldInvariance == Spec => [](PoolInv /\ FieldIInv)
<1>1. PoolInv => Structure
  <2>1. PoolTypeOK => WeakTypeOK
    BY PoolAssumption DEF PoolTypeOK, WeakTypeOK
  <2>2. QED BY <2>1 DEF PoolInv, Structure
<1>2. PoolSpec => []PoolInv
  BY PoolInvariance
<1>3. QED BY <1>1, <1>2, PoolWithin, FieldInit, FieldNext, PTL DEF Spec

\* A field in progress belongs to the batch its parent waits for.
LEMMA InProgressWaited ==
    ASSUME FieldIInv, NEW j \in Jobs, InProgress(j)
    PROVE  npc[ParentOf[j]] \in {"inline", "submit", "submitting"} /\ j \in CurrentBatch(ParentOf[j])
<1>1. ParentOf[j] \in Inner /\ FieldOK(j)
  BY ParentApart DEF FieldIInv, Joins
<1>2. NodeOK(ParentOf[j])
  BY <1>1 DEF FieldIInv, Joins
<1>3. CASE fate[j] \in {"queued", "popped", "running"}
  BY <1>1, <1>3 DEF FieldOK
<1>4. CASE Active(j) /\ fate[j] \notin {"queued", "popped", "running"}
  BY <1>1, <1>2, <1>4 DEF FieldOK, NodeOK
<1>5. QED BY <1>3, <1>4 DEF InProgress, Active

\* For any schema, any interleaving of goroutines, refusals, cancellations and workers:
\* the WaitGroup of a continuation counts exactly the fields it waits for, so that it
\* never goes negative; when ProcessFields has returned on a node none of its fields is
\* queued or running, so that nobody sends on the closed results channel; and fields of
\* different batches of a ProcessingOrder never run side by side.
THEOREM FieldsJoined == Spec => []FieldInv
<1>1. PoolInv /\ FieldIInv => FieldInv
  <2> SUFFICES ASSUME PoolInv, FieldIInv PROVE FieldInv
    OBVIOUS
  <2>1. FieldTypeOK /\ WaitGroupAccounting /\ PoolTypeOK
    BY DEF FieldIInv, Joins, PoolInv
  <2>2. wg \in [Inner -> Nat]
    <3>1. \A n \in Inner : wg[n] \in Nat
      BY <2>1, WaitedFinite DEF WaitGroupAccounting, Waited
    <3>2. QED BY <2>1, <3>1 DEF FieldTypeOK
  <2>3. TypeOK
    BY <2>1, <2>2 DEF TypeOK, FieldTypeOK, Places
  <2>4. JoinedBeforeReturn
    BY InProgressWaited DEF JoinedBeforeReturn
  <2>5. ASSUME NEW j \in Jobs, NEW k \in Jobs, ParentOf[j] = ParentOf[k], InProgress(j), InProgress(k)
        PROVE  \E B \in BatchSets(ParentOf[j]) : j \in B /\ k \in B
    <3>1. PICK n \in Inner : n = ParentOf[j]
      BY ParentApart
    <3>2. j \in CurrentBatch(n) /\ k \in CurrentBatch(n)
      BY <2>5, <3>1, InProgressWaited
    <3>3. CurrentBatch(n) \in BatchSets(n)
      <4>1. batch[n] \in 1 .. Len(Ordered[n]) + 1 /\ Ordered[n] \in Seq(SUBSET Jobs)
        BY <2>1, FieldAssumption DEF FieldTypeOK, Places
      <4>2. ~InRest(n) => batch[n] \in DOMAIN Ordered[n]
        BY <4>1 DEF InRest
      <4>3. QED BY <4>2 DEF CurrentBatch, BatchSets
    <3>4. QED BY <3>1, <3>2, <3>3
  <2>6. QED BY <2>1, <2>3, <2>4, <2>5 DEF FieldInv, OneBatchAtATime
<1>2. QED BY <1>1, FieldInvariance, PTL

\* While a field is in progress, so is every node above it, up to its request.
LEMMA RequestWaits ==
    ASSUME FieldIInv, NEW j \in Jobs, Active(j)
    PROVE  npc[ReqOf[j]] \in {"inline", "submit", "submitting"}
<1> DEFINE S == {n \in Inner : npc[n] \in {"inline", "submit", "submitting"}}
<1>1. \A k \in Jobs : Active(k) => ParentOf[k] \in S
  BY InProgressWaited, ParentApart DEF InProgress, Active
<1>2. \A k \in S \cap Jobs : ParentOf[k] \in S
  BY <1>1 DEF Active
<1>3. S \in SUBSET Inner /\ ParentOf[j] \in S
  BY <1>1
<1>4. ReqOf[j] \in S
  BY <1>2, <1>3, TreeAssumption
<1>5. QED BY <1>4

\* When Generate returns a result before its deadline, every field of the request is
\* settled and no result that was made, at any depth of the schema, is missing.
THEOREM NothingLost == Spec => NothingLostInTime
<1>1. FieldIInv /\ [Next]_vars =>
        [\A r \in Requests :
           outcome[r] = "running" /\ outcome'[r] = "ok" /\ r \notin cancelled
              => \A j \in Jobs : ReqOf[j] = r =>
                    /\ npc[j] \in {"idle", "end"}
                    /\ j \in made => j \in got[ParentOf[j]]]_vars
  <2> SUFFICES ASSUME FieldIInv, Next, NEW r \in Requests, outcome[r] = "running", outcome'[r] = "ok",
                      r \notin cancelled, NEW j \in Jobs, ReqOf[j] = r
               PROVE  npc[j] \in {"idle", "end"} /\ (j \in made => j \in got[ParentOf[j]])
    OBVIOUS
  <2>1. FieldTypeOK /\ outcome \in [Requests -> {"running", "ok", "error", "timeout"}]
    BY DEF FieldIInv, Joins, FieldTypeOK
  <2>2. Complete(r)
    <3>1. ASSUME NEW q \in Requests, Receive(q)
          PROVE  outcome'[r] # "ok"
      BY <2>1, <3>1 DEF Receive
    <3>2. ASSUME NEW q \in Requests, Complete(q), q # r
          PROVE  outcome'[r] # "ok"
      BY <2>1, <3>2 DEF Complete
    <3>3. CASE outcome' = outcome
      BY <3>3
    <3>4. QED BY <3>1, <3>2, <3>3 DEF Next, Process, OrderedBatch, RestBatch, Sequential, InlineDone, SubmitField,
                 SubmitReturned, WaitForCompletion, Gathered, Field, BeginField, GenerateField, OnWorker, StartField,
                 CollectField, FinishField, Consume, Timeout, PoolStep, fieldVars
  <2>3. npc[r] = "closed" /\ ch[r] = << >>
    BY <2>2 DEF Complete
  <2>4. ~Active(j)
    BY <2>3, RequestWaits
  <2>5. npc[j] # "value" /\ ~Sent(j)
    BY <2>3, <2>4, FieldAssumption DEF Active, Sent
  <2>6. QED BY <2>4, <2>5 DEF FieldIInv, Kept, Active
<1>2. QED BY <1>1, FieldInvariance, PTL DEF Spec, NothingLostInTime
=============================================================================
