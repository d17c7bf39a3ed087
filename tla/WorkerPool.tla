----------------------------- MODULE WorkerPool -----------------------------
(***************************************************************************)
(* The process-wide worker pool and the per-request facade that borrows    *)
(* workers from it (execution/worker_pool.go).                             *)
(*                                                                         *)
(* The pool is split into shards.  A shard is a heap of jobs guarded by a  *)
(* mutex, a condition variable, and a fixed set of persistent workers.     *)
(* Submissions go to the shards round robin.  Every request has a quota    *)
(* semaphore; a job holds one slot of it from before it is handed to the   *)
(* pool until its function has returned.                                   *)
(*                                                                         *)
(* Two sides move independently and each has its own variable: call[j] is  *)
(* where the goroutine that submits j stands inside Submit or              *)
(* SubmitWithContext, fate[j] is what became of j inside the pool.         *)
(***************************************************************************)
EXTENDS Integers, FiniteSets

CONSTANTS
    Requests,     \* requests, each with its own context and quota
    Jobs,         \* functions handed to the pool
    None,         \* no job
    ReqOf,        \* the request a job belongs to
    CtxJobs,      \* jobs submitted with SubmitWithContext; the others use Submit
    Priority,     \* heap key of a job, smaller first (the facade always passes 50)
    Quota,        \* slots of a request's semaphore
    MaxWorkers,   \* configured size of the pool
    ShardTarget,  \* number of shards aimed at (32 in the code)
    Cancellable,  \* requests whose context may end
    MayShutdown   \* whether Shutdown is ever called

ASSUME PoolAssumption ==
    /\ IsFiniteSet(Jobs) /\ None \notin Jobs
    /\ ReqOf \in [Jobs -> Requests]
    /\ CtxJobs \subseteq Jobs
    /\ Priority \in [Jobs -> Int]
    /\ Quota \in Nat \ {0}
    /\ MaxWorkers \in Nat \ {0}
    /\ ShardTarget \in Nat \ {0}
    /\ Cancellable \subseteq Requests
    /\ MayShutdown \in BOOLEAN

\* newGlobalWorkerPool: the division truncates, so the pool may hold fewer
\* workers than MaxWorkers.
NumShards == IF MaxWorkers \div ShardTarget < 1 THEN MaxWorkers ELSE ShardTarget
WorkersPerShard == IF MaxWorkers \div ShardTarget < 1 THEN 1 ELSE MaxWorkers \div ShardTarget
Shards == 0 .. (NumShards - 1)
Workers == Shards \X (1 .. WorkersPerShard)
Shard(w) == w[1]
WorkersOf(s) == {w \in Workers : Shard(w) = s}

VARIABLES
    cancelled,      \* requests whose context has ended
    call,           \* progress of the submitting call
    fate,           \* what became of the job inside the pool
    semaphore,      \* slots taken of each request's quota
    nextShard,      \* round robin counter
    home,           \* the shard a job was pushed to
    heap,           \* jobs queued in each shard
    wpc,            \* where each worker stands in run
    cur,            \* the job a worker has popped
    closed          \* number of shards whose shutdown channel is closed

poolVars == <<cancelled, call, fate, semaphore, nextShard, home, heap, wpc, cur,
              closed>>

PoolInit ==
    /\ cancelled = {}
    /\ call = [j \in Jobs |-> "idle"]
    /\ fate = [j \in Jobs |-> "none"]
    /\ semaphore = [r \in Requests |-> 0]
    /\ nextShard = 0
    /\ home = [j \in Jobs |-> 0]
    /\ heap = [s \in Shards |-> {}]
    /\ wpc = [w \in Workers |-> "top"]
    /\ cur = [w \in Workers |-> None]
    /\ closed = 0

\* The job's context is done; a job submitted without a context never is.
Ended(j) == j \in CtxJobs /\ ReqOf[j] \in cancelled

IsClosed(s) == s < closed

\* The per-shard counters activeWorkers count the workers inside a job's function.
AvailableWorkers ==
    MaxWorkers - Cardinality({w \in Workers : wpc[w] = "run"})

-----------------------------------------------------------------------------
(* The submitting goroutine.  SubmitWithContext looks at the context four   *)
(* times: on entry, while it waits for a slot, in the global                *)
(* SubmitWithContext and again in SubmitWithPriority.  The context may end  *)
(* between any two of them.                                                 *)

\* On entry; Submit has no such test.
Call(j) ==
    /\ call[j] = "idle"
    /\ call' = [call EXCEPT ![j] = IF Ended(j) THEN "refused" ELSE "acquire"]
    /\ UNCHANGED <<cancelled, fate, semaphore, nextShard, home, heap, wpc, cur, closed>>

Acquire(j) ==
    /\ call[j] = "acquire"
    /\ semaphore[ReqOf[j]] < Quota
    /\ semaphore' = [semaphore EXCEPT ![ReqOf[j]] = @ + 1]
    /\ call' = [call EXCEPT ![j] = "offer"]
    /\ UNCHANGED <<cancelled, fate, nextShard, home, heap, wpc, cur, closed>>

\* Mutant of GiveUp: a slot that was never taken is given back.
GiveUpReleasing(j) ==
    /\ call[j] = "acquire" /\ Ended(j)
    /\ call' = [call EXCEPT ![j] = "refused"]
    /\ semaphore' = [semaphore EXCEPT ![ReqOf[j]] = @ - 1]
    /\ UNCHANGED <<cancelled, fate, nextShard, home, heap, wpc, cur, closed>>

\* Mutant of GiveUp: refuses as soon as the quota is used up.
GiveUpWhenFull(j) ==
    /\ call[j] = "acquire" /\ semaphore[ReqOf[j]] = Quota
    /\ call' = [call EXCEPT ![j] = "refused"]
    /\ UNCHANGED <<cancelled, fate, semaphore, nextShard, home, heap, wpc, cur, closed>>

GiveUp(j) ==
    /\ call[j] = "acquire"
    /\ Ended(j)
    /\ call' = [call EXCEPT ![j] = "refused"]
    /\ UNCHANGED <<cancelled, fate, semaphore, nextShard, home, heap, wpc, cur, closed>>

\* Mutant of Offer: the slot is not given back when the pool refuses.
OfferKeepingSlot(j) ==
    /\ call[j] = "offer"
    /\ call' = [call EXCEPT ![j] = IF Ended(j) THEN "refused" ELSE "push"]
    /\ UNCHANGED <<cancelled, fate, semaphore, nextShard, home, heap, wpc, cur, closed>>

\* The global SubmitWithContext; when it refuses, the facade returns the slot.
Offer(j) ==
    /\ call[j] = "offer"
    /\ IF Ended(j)
       THEN /\ call' = [call EXCEPT ![j] = "refused"]
            /\ semaphore' = [semaphore EXCEPT ![ReqOf[j]] = @ - 1]
       ELSE /\ call' = [call EXCEPT ![j] = "push"]
            /\ UNCHANGED semaphore
    /\ UNCHANGED <<cancelled, fate, nextShard, home, heap, wpc, cur, closed>>

\* SubmitWithPriority finds the context done and returns without a result: the
\* caller reports the job as submitted all the same.
Drop(j) ==
    /\ call[j] = "push"
    /\ Ended(j)
    /\ call' = [call EXCEPT ![j] = "accepted"]
    /\ fate' = [fate EXCEPT ![j] = "dropped"]
    /\ UNCHANGED <<cancelled, semaphore, nextShard, home, heap, wpc, cur, closed>>

\* Mutant of Push: nobody is woken.
PushWithoutSignal(j) ==
    LET s == (nextShard + 1) % NumShards
    IN  /\ call[j] = "push" /\ ~Ended(j)
        /\ nextShard' = nextShard + 1
        /\ home' = [home EXCEPT ![j] = s]
        /\ heap' = [heap EXCEPT ![s] = @ \cup {j}]
        /\ fate' = [fate EXCEPT ![j] = "queued"]
        /\ call' = [call EXCEPT ![j] = "accepted"]
        /\ UNCHANGED <<cancelled, semaphore, wpc, cur, closed>>

\* Add(1) on the counter comes first, so the first job goes to shard 1.
Push(j) ==
    LET s == (nextShard + 1) % NumShards
    IN  /\ call[j] = "push"
        /\ ~Ended(j)
        /\ nextShard' = nextShard + 1
        /\ home' = [home EXCEPT ![j] = s]
        /\ heap' = [heap EXCEPT ![s] = @ \cup {j}]
        /\ fate' = [fate EXCEPT ![j] = "queued"]
        /\ call' = [call EXCEPT ![j] = "signal"]
        /\ UNCHANGED <<cancelled, semaphore, wpc, cur, closed>>

Waiting(s) == {w \in WorkersOf(s) : wpc[w] = "wait"}

\* notEmpty.Signal, after the mutex is released: wakes one waiting worker.
Signal(j) ==
    /\ call[j] = "signal"
    /\ call' = [call EXCEPT ![j] = "accepted"]
    /\ \/ /\ Waiting(home[j]) = {}
          /\ UNCHANGED wpc
       \/ \E w \in Waiting(home[j]) : wpc' = [wpc EXCEPT ![w] = "lock"]
    /\ UNCHANGED <<cancelled, fate, semaphore, nextShard, home, heap, cur, closed>>

-----------------------------------------------------------------------------
(* The worker loop. *)

\* The test of the shutdown channel at the head of the loop.
Top(w) ==
    /\ wpc[w] = "top"
    /\ wpc' = [wpc EXCEPT ![w] = IF IsClosed(Shard(w)) THEN "exit" ELSE "lock"]
    /\ UNCHANGED <<cancelled, call, fate, semaphore, nextShard, home, heap, cur, closed>>

\* Under the mutex, with an empty heap.
Park(w) ==
    /\ wpc[w] = "lock"
    /\ heap[Shard(w)] = {}
    /\ wpc' = [wpc EXCEPT ![w] = IF IsClosed(Shard(w)) THEN "exit" ELSE "wait"]
    /\ UNCHANGED <<cancelled, call, fate, semaphore, nextShard, home, heap, cur, closed>>

\* Mutant of Pop: the job is read but stays in the heap.
PopPeeking(w) ==
    /\ wpc[w] = "lock"
    /\ \E j \in heap[Shard(w)] : /\ fate' = [fate EXCEPT ![j] = "popped"]
                                 /\ cur' = [cur EXCEPT ![w] = j]
    /\ wpc' = [wpc EXCEPT ![w] = "check"]
    /\ UNCHANGED <<cancelled, call, semaphore, nextShard, home, heap, closed>>

\* Under the mutex; among jobs of equal priority the heap order is arbitrary.
Pop(w) ==
    /\ wpc[w] = "lock"
    /\ \E j \in heap[Shard(w)] :
         /\ \A k \in heap[Shard(w)] : Priority[j] <= Priority[k]
         /\ heap' = [heap EXCEPT ![Shard(w)] = @ \ {j}]
         /\ fate' = [fate EXCEPT ![j] = "popped"]
         /\ cur' = [cur EXCEPT ![w] = j]
    /\ wpc' = [wpc EXCEPT ![w] = "check"]
    /\ UNCHANGED <<cancelled, call, semaphore, nextShard, home, closed>>

\* A popped job whose context is done is passed over: its function, and with it
\* the deferred release of the quota slot, never runs.
Skip(w) ==
    /\ wpc[w] = "check"
    /\ Ended(cur[w])
    /\ fate' = [fate EXCEPT ![cur[w]] = "skipped"]
    /\ cur' = [cur EXCEPT ![w] = None]
    /\ wpc' = [wpc EXCEPT ![w] = "top"]
    /\ UNCHANGED <<cancelled, call, semaphore, nextShard, home, heap, closed>>

Start(w) ==
    /\ wpc[w] = "check"
    /\ ~Ended(cur[w])
    /\ fate' = [fate EXCEPT ![cur[w]] = "running"]
    /\ wpc' = [wpc EXCEPT ![w] = "run"]
    /\ UNCHANGED <<cancelled, call, semaphore, nextShard, home, heap, cur, closed>>

\* Mutant of Finish: the slot is not given back.
FinishKeepingSlot(w) ==
    /\ wpc[w] = "run"
    /\ fate' = [fate EXCEPT ![cur[w]] = "done"]
    /\ cur' = [cur EXCEPT ![w] = None]
    /\ wpc' = [wpc EXCEPT ![w] = "top"]
    /\ UNCHANGED <<cancelled, call, semaphore, nextShard, home, heap, closed>>

\* The function returns and the deferred code of wrappedFn gives the slot back.
Finish(w) ==
    /\ wpc[w] = "run"
    /\ fate' = [fate EXCEPT ![cur[w]] = "done"]
    /\ semaphore' = [semaphore EXCEPT ![ReqOf[cur[w]]] = @ - 1]
    /\ cur' = [cur EXCEPT ![w] = None]
    /\ wpc' = [wpc EXCEPT ![w] = "top"]
    /\ UNCHANGED <<cancelled, call, nextShard, home, heap, closed>>

-----------------------------------------------------------------------------
(* Contexts end, and the pool may be shut down. *)

Cancel(r) ==
    /\ r \in Cancellable \ cancelled
    /\ cancelled' = cancelled \cup {r}
    /\ UNCHANGED <<call, fate, semaphore, nextShard, home, heap, wpc, cur, closed>>

\* One round of Shutdown: the workers of every shard closed so far have returned
\* (wg.Wait), the next shutdown channel is closed.  Nothing is broadcast.
Shutdown ==
    /\ MayShutdown
    /\ closed < NumShards
    /\ \A w \in Workers : IsClosed(Shard(w)) => wpc[w] = "exit"
    /\ closed' = closed + 1
    /\ UNCHANGED <<cancelled, call, fate, semaphore, nextShard, home, heap, wpc,
                   cur>>

-----------------------------------------------------------------------------
Submitter(j) == Acquire(j) \/ GiveUp(j) \/ Offer(j) \/ Drop(j) \/ Push(j) \/ Signal(j)
Loop(w) == Top(w) \/ Park(w) \/ Pop(w) \/ Skip(w) \/ Start(w)

PoolNext ==
    \/ \E j \in Jobs : Call(j) \/ Submitter(j)
    \/ \E w \in Workers : Loop(w) \/ Finish(w)
    \/ \E r \in Requests : Cancel(r)
    \/ Shutdown

PoolSpec == PoolInit /\ [][PoolNext]_poolVars

\* Fairness: the Go scheduler runs every goroutine that can run, a job's function
\* returns, and a blocked channel send is served in FIFO order (strong fairness).
PoolFairness ==
    /\ \A j \in Jobs : WF_poolVars(Submitter(j)) /\ SF_poolVars(Acquire(j))
    /\ \A w \in Workers : WF_poolVars(Loop(w) \/ Finish(w))

FairPoolSpec == PoolSpec /\ PoolFairness

-----------------------------------------------------------------------------
CallStates == {"idle", "acquire", "offer", "push", "signal", "accepted", "refused"}
Fates == {"none", "queued", "popped", "running", "done", "dropped", "skipped"}
WorkerStates == {"top", "lock", "wait", "check", "run", "exit"}

\* The values the variables of the pool range over.
PoolTypeOK ==
    /\ cancelled \subseteq Requests
    /\ call \in [Jobs -> CallStates]
    /\ fate \in [Jobs -> Fates]
    /\ semaphore \in [Requests -> 0 .. Quota]
    /\ nextShard \in Nat
    /\ home \in [Jobs -> Shards]
    /\ heap \in [Shards -> SUBSET Jobs]
    /\ wpc \in [Workers -> WorkerStates]
    /\ cur \in [Workers -> Jobs \cup {None}]
    /\ closed \in 0 .. NumShards

\* The slot of j is taken: between the send on the semaphore and the deferred
\* receive.  A dropped or skipped job keeps its slot, nobody receives it back.
HoldsSlot(j) ==
    \/ call[j] \in {"offer", "push"}
    \/ call[j] \in {"signal", "accepted"} /\ fate[j] # "done"

Holders(r) == {j \in Jobs : ReqOf[j] = r /\ HoldsSlot(j)}

\* The quota semaphore is neither leaked nor over-released by the submit and run
\* paths: the slots taken are exactly the jobs that were admitted and have not
\* finished (dropped and skipped ones included), whatever the interleaving of
\* refusals, cancellations and completions.
SlotAccounting == \A r \in Requests : semaphore[r] = Cardinality(Holders(r))

\* A job is in one place: queued in the heap of its own shard and nowhere else,
\* or with exactly one worker, or with none.  No job can be run twice.
JobInOnePlace ==
    \A j \in Jobs :
        /\ \A s \in Shards : j \in heap[s] <=> fate[j] = "queued" /\ home[j] = s
        /\ fate[j] \in {"popped", "running"} <=> \E w \in Workers : cur[w] = j
        /\ \A v, w \in Workers : cur[v] = j /\ cur[w] = j => v = w

PendingSignals(s) == {j \in Jobs : call[j] = "signal" /\ home[j] = s}
Awake(s) == {w \in WorkersOf(s) : wpc[w] \in {"top", "lock"}}

\* No lost wakeup: a shard never holds a job while one of its workers sleeps on
\* notEmpty, unless a Signal is still to come or another worker of the shard is
\* on its way to the heap.
NoLostWakeup ==
    \A s \in Shards :
        ~IsClosed(s) /\ heap[s] # {} /\ Waiting(s) # {}
            => PendingSignals(s) # {} \/ Awake(s) # {}

\* A job is thrown away only when the context it was submitted with has ended, and
\* a job whose submission was refused is never run: the caller, told FALSE, counts
\* it as complete itself.
AbandonedOnlyIfEnded ==
    \A j \in Jobs :
        /\ fate[j] \in {"dropped", "skipped"} => Ended(j)
        /\ call[j] = "refused" => Ended(j) /\ fate[j] = "none"

\* Every call of Submit or SubmitWithContext returns, unless the pool is shut down.
SubmitReturns ==
    \A j \in Jobs : call[j] = "acquire" ~> call[j] \in {"accepted", "refused"} \/ closed > 0

\* A job that was submitted is run to completion unless its context ends or the pool is
\* shut down.
JobRunsUnlessEnded ==
    \A j \in Jobs : call[j] = "acquire" ~> fate[j] = "done" \/ Ended(j) \/ closed > 0

-----------------------------------------------------------------------------
(* The inductive invariant: what the invariants above need to know about how *)
(* the submitting side and the pool side of a job, and a worker and the job  *)
(* it has popped, agree.                                                     *)

CallMatchesFate ==
    \A j \in Jobs :
        /\ call[j] \in {"idle", "acquire", "offer", "push", "refused"} <=> fate[j] = "none"
        /\ fate[j] = "dropped" => call[j] = "accepted"

WorkerMatchesJob ==
    \A w \in Workers :
        /\ cur[w] # None <=> wpc[w] \in {"check", "run"}
        /\ wpc[w] = "check" => fate[cur[w]] = "popped"
        /\ wpc[w] = "run" => fate[cur[w]] = "running"

\* While a worker sleeps, the backlog of its shard is covered by the wakeups on
\* the way: signals still to be sent and workers still to reach the heap.
WakeupsCoverBacklog ==
    \A s \in Shards :
        ~IsClosed(s) /\ Waiting(s) # {}
            => Cardinality(heap[s]) <= Cardinality(PendingSignals(s)) + Cardinality(Awake(s))

PoolInv ==
    /\ PoolTypeOK
    /\ CallMatchesFate
    /\ WorkerMatchesJob
    /\ JobInOnePlace
    /\ AbandonedOnlyIfEnded
    /\ SlotAccounting
    /\ WakeupsCoverBacklog

\* The pool serves its callers: every SubmitWithContext returns, and every job whose
\* context has not ended is run.
PoolServes == SubmitReturns /\ JobRunsUnlessEnded
=============================================================================
