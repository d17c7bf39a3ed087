--------------------------- MODULE JobOrchestrator ---------------------------
(***************************************************************************)
(* The queued path of an LLM job (llmManagement/LLM): SubmitJob sends the  *)
(* job on the worker channel and waits for its result; the channel bridge  *)
(* routes it to the batch manager or to the priority queue; the queue      *)
(* manager feeds the workers; a worker calls the provider and answers,     *)
(* puts the job back, or retries it.  Stop shuts the whole down.           *)
(***************************************************************************)
EXTENDS BatchReqManager

CONSTANTS
    Batching,             \* batch processing enabled and the batch manager set
    Priority,             \* Def.Priority of a job, larger first
    BatchPriorityThreshold,
    Concurrency,          \* number of workers and capacity of jobChan
    ChannelSize,          \* capacity of the worker channel (5000 in the code)
    MaxTransientRetries,
    OverBurst,            \* jobs whose Tokens exceed the limiter's burst (the submitters of
                          \* the repository leave Tokens at 0)
    Vectors               \* jobs that ask for an embedding

ASSUME OrchestratorAssumption ==
    /\ Batching \in BOOLEAN
    /\ Priority \in [Jobs -> Int] /\ BatchPriorityThreshold \in Int
    /\ Concurrency \in Nat \ {0} /\ ChannelSize \in Nat \ {0}
    /\ MaxTransientRetries \in Nat
    /\ OverBurst \subseteq Jobs /\ Vectors \subseteq Jobs

Workers == 1 .. Concurrency

VARIABLES
    submit,      \* the goroutine in SubmitJob
    outcome,     \* what it received
    channel,     \* the worker channel
    bridge,      \* the job the channel bridge is routing
    jobQueue,    \* the priority queue
    manager,     \* the queue manager: "loop", or "exit" with jobChan closed
    held,        \* the job it has dequeued and not yet sent
    jobChan,     \* jobs on their way to the workers
    wpc,         \* where a worker stands
    cur,         \* the job it works on
    retries,     \* job.Retries
    stop         \* progress of Stop

orchVars == <<submit, outcome, channel, bridge, jobQueue, manager, held, jobChan, wpc, cur,
              retries, stop>>
vars == <<batchVars, orchVars>>

Init ==
    /\ BatchInit
    /\ submit = [j \in Jobs |-> "idle"]
    /\ outcome = [j \in Jobs |-> "none"]
    /\ channel = <<>>
    /\ bridge = None
    /\ jobQueue = {}
    /\ manager = "loop"
    /\ held = None
    /\ jobChan = <<>>
    /\ wpc = [w \in Workers |-> "idle"]
    /\ cur = [w \in Workers |-> None]
    /\ retries = [j \in Jobs |-> 0]
    /\ stop = "no"

-----------------------------------------------------------------------------
(* The submitter: DefaultJobSubmitter.SubmitJob. *)

Submit(j) ==
    /\ submit[j] = "idle"
    /\ Len(channel) < ChannelSize
    /\ channel' = Append(channel, j)
    /\ submit' = [submit EXCEPT ![j] = "waiting"]
    /\ UNCHANGED <<batchVars, outcome, bridge, jobQueue, manager, held, jobChan, wpc, cur,
                   retries, stop>>

\* What SubmitJob makes of an answer.  The embedding of a nil result, or of the chat
\* response a batch always gives, is a nil dereference.
Verdict(j, v) ==
    CASE j \in Vectors /\ v \in {"nil", "chat"} -> {"panic"}
      [] j \notin Vectors /\ v = "nil" -> {"failed"}
      [] OTHER -> {"returned", "failed"}

\* Mutant of Receive: the channel is left open.
ReceiveWithoutClose(j) ==
    /\ submit[j] = "waiting"
    /\ result[j] \in {"nil", "reply", "chat"}
    /\ outcome' = [outcome EXCEPT ![j] = result[j]]
    /\ result' = [result EXCEPT ![j] = "empty"]
    /\ \E v \in Verdict(j, result[j]) : submit' = [submit EXCEPT ![j] = v]
    /\ UNCHANGED <<pendingJobs, currentMemoryUsed, adding, fpc, snap, monitors, batchStop,
                   routine, dropped>>
    /\ UNCHANGED <<channel, bridge, jobQueue, manager, held, jobChan, wpc, cur, retries, stop>>

\* Receive, close the channel and validate: a reply may still be empty.
Receive(j) ==
    /\ submit[j] = "waiting"
    /\ result[j] \in {"nil", "reply", "chat"}
    /\ outcome' = [outcome EXCEPT ![j] = result[j]]
    /\ result' = [result EXCEPT ![j] = "closed"]
    /\ \E v \in Verdict(j, result[j]) : submit' = [submit EXCEPT ![j] = v]
    /\ UNCHANGED <<pendingJobs, currentMemoryUsed, adding, fpc, snap, monitors, batchStop,
                   routine, dropped>>
    /\ UNCHANGED <<channel, bridge, jobQueue, manager, held, jobChan, wpc, cur, retries, stop>>

-----------------------------------------------------------------------------
(* The channel bridge and SubmitJobWithRouting. *)

BridgeReceive ==
    /\ bridge = None
    /\ channel # <<>>
    /\ bridge' = Head(channel)
    /\ channel' = Tail(channel)
    /\ UNCHANGED <<batchVars, submit, outcome, jobQueue, manager, held, jobChan, wpc, cur,
                   retries, stop>>

ToBatch(j) == Batching /\ Priority[j] < BatchPriorityThreshold

Enqueue(j) == jobQueue' = jobQueue \cup {j}

RouteToQueue ==
    /\ bridge # None /\ ~ToBatch(bridge)
    /\ Enqueue(bridge)
    /\ bridge' = None
    /\ UNCHANGED <<batchVars, submit, outcome, channel, manager, held, jobChan, wpc, cur,
                   retries, stop>>

\* AddJob takes the job at once, or flushes first while the bridge waits.
RouteToBatch ==
    /\ bridge # None /\ ToBatch(bridge)
    /\ AddJob(bridge)
    /\ bridge' = IF Exceeds(bridge) THEN bridge ELSE None
    /\ UNCHANGED <<submit, outcome, channel, jobQueue, manager, held, jobChan, wpc, cur,
                   retries, stop>>

BatchTook ==
    /\ AddAfterFlush
    /\ bridge' = None
    /\ UNCHANGED <<submit, outcome, channel, jobQueue, manager, held, jobChan, wpc, cur,
                   retries, stop>>

\* "falling back to direct enqueue"
BatchRefused ==
    /\ AddFails
    /\ Enqueue(bridge)
    /\ bridge' = None
    /\ UNCHANGED <<submit, outcome, channel, manager, held, jobChan, wpc, cur, retries, stop>>

-----------------------------------------------------------------------------
(* The queue manager. *)

\* The test of stopChan comes before every Dequeue.
Dequeue ==
    /\ manager = "loop" /\ held = None
    /\ stop \notin {"closed", "stopped"}
    /\ \E j \in jobQueue :
         /\ \A k \in jobQueue : Priority[k] <= Priority[j]
         /\ held' = j
         /\ jobQueue' = jobQueue \ {j}
    /\ UNCHANGED <<batchVars, submit, outcome, channel, bridge, manager, jobChan, wpc, cur,
                   retries, stop>>

\* The send blocks while jobChan is full and does not look at stopChan.
Feed ==
    /\ held # None
    /\ Len(jobChan) < Concurrency
    /\ jobChan' = Append(jobChan, held)
    /\ held' = None
    /\ UNCHANGED <<batchVars, submit, outcome, channel, bridge, jobQueue, manager, wpc, cur,
                   retries, stop>>

CloseJobChan ==
    /\ manager = "loop" /\ held = None
    /\ stop = "closed"
    /\ manager' = "exit"
    /\ UNCHANGED <<batchVars, submit, outcome, channel, bridge, jobQueue, held, jobChan, wpc,
                   cur, retries, stop>>

-----------------------------------------------------------------------------
(* The workers: orchestrationJob. *)

Take(w) ==
    /\ wpc[w] = "idle"
    /\ jobChan # <<>>
    /\ cur' = [cur EXCEPT ![w] = Head(jobChan)]
    /\ jobChan' = Tail(jobChan)
    /\ wpc' = [wpc EXCEPT ![w] = "limit"]
    /\ UNCHANGED <<batchVars, submit, outcome, channel, bridge, jobQueue, manager, held,
                   retries, stop>>

WorkerExit(w) ==
    /\ wpc[w] = "idle"
    /\ jobChan = <<>> /\ manager = "exit"
    /\ wpc' = [wpc EXCEPT ![w] = "exit"]
    /\ UNCHANGED <<batchVars, submit, outcome, channel, bridge, jobQueue, manager, held,
                   jobChan, cur, retries, stop>>

WorkerDone(w) ==
    /\ wpc' = [wpc EXCEPT ![w] = "idle"]
    /\ cur' = [cur EXCEPT ![w] = None]

RestOfBatch == <<pendingJobs, currentMemoryUsed, adding, fpc, snap, monitors, batchStop,
                 routine, dropped>>

\* The token limiter refuses a job larger than its burst: nil, unless the channel is full.
OverLimit(w) ==
    /\ wpc[w] = "limit" /\ cur[w] \in OverBurst
    /\ IF HasRoom(cur[w]) THEN Send(cur[w], "nil") ELSE UNCHANGED result
    /\ WorkerDone(w)
    /\ UNCHANGED <<RestOfBatch, submit, outcome, channel, bridge, jobQueue, manager, held,
                   jobChan, retries, stop>>

Limited(w) ==
    /\ wpc[w] = "limit" /\ cur[w] \notin OverBurst
    /\ wpc' = [wpc EXCEPT ![w] = "call"]
    /\ UNCHANGED <<batchVars, submit, outcome, channel, bridge, jobQueue, manager, held,
                   jobChan, cur, retries, stop>>

Success(w) ==
    /\ wpc[w] = "call"
    /\ IF HasRoom(cur[w]) THEN Send(cur[w], "reply") ELSE UNCHANGED result
    /\ WorkerDone(w)
    /\ UNCHANGED <<RestOfBatch, submit, outcome, channel, bridge, jobQueue, manager, held,
                   jobChan, retries, stop>>

\* The backoff is armed and the job goes back to the queue, however often.
RateLimited(w) ==
    /\ wpc[w] = "call"
    /\ Enqueue(cur[w])
    /\ WorkerDone(w)
    /\ UNCHANGED <<batchVars, submit, outcome, channel, bridge, manager, held, jobChan,
                   retries, stop>>

\* A blocking send of nil.
Fail(w) ==
    /\ HasRoom(cur[w]) /\ Send(cur[w], "nil")
    /\ WorkerDone(w)
    /\ UNCHANGED <<RestOfBatch, submit, outcome, channel, bridge, jobQueue, manager, held,
                   jobChan, retries, stop>>

Permanent(w) == wpc[w] = "call" /\ Fail(w)

\* HandleTransientError once the retries are used up.
Exhausted(w) == wpc[w] = "call" /\ retries[cur[w]] >= MaxTransientRetries /\ Fail(w)

\* HandleTransientError: the worker sleeps before it puts the job back.
Transient(w) ==
    /\ wpc[w] = "call"
    /\ retries[cur[w]] < MaxTransientRetries
    /\ retries' = [retries EXCEPT ![cur[w]] = @ + 1]
    /\ wpc' = [wpc EXCEPT ![w] = "backoff"]
    /\ UNCHANGED <<batchVars, submit, outcome, channel, bridge, jobQueue, manager, held,
                   jobChan, cur, stop>>

\* Mutant of Requeue: the worker forgets the job after its pause.
RequeueForgotten(w) ==
    /\ wpc[w] = "backoff"
    /\ WorkerDone(w)
    /\ UNCHANGED <<batchVars, submit, outcome, channel, bridge, jobQueue, manager, held,
                   jobChan, retries, stop>>

Requeue(w) ==
    /\ wpc[w] = "backoff"
    /\ Enqueue(cur[w])
    /\ WorkerDone(w)
    /\ UNCHANGED <<batchVars, submit, outcome, channel, bridge, manager, held, jobChan,
                   retries, stop>>

-----------------------------------------------------------------------------
(* Orchestrator.Stop: the batch manager first, then the queue manager, then *)
(* wait for it and for the workers.                                         *)

StopBatchFirst ==
    /\ Batching
    /\ StopBatch
    /\ stop = "no" /\ stop' = "batch"
    /\ UNCHANGED <<submit, outcome, channel, bridge, jobQueue, manager, held, jobChan, wpc,
                   cur, retries>>

StopManager ==
    /\ MayStop
    /\ IF Batching THEN stop = "batch" /\ batchStop = "stopped" ELSE stop = "no"
    /\ stop' = "closed"
    /\ UNCHANGED <<batchVars, submit, outcome, channel, bridge, jobQueue, manager, held,
                   jobChan, wpc, cur, retries>>

Stopped ==
    /\ stop = "closed"
    /\ manager = "exit" /\ \A w \in Workers : wpc[w] = "exit"
    /\ stop' = "stopped"
    /\ UNCHANGED <<batchVars, submit, outcome, channel, bridge, jobQueue, manager, held,
                   jobChan, wpc, cur, retries>>

-----------------------------------------------------------------------------
Bridge == BridgeReceive \/ RouteToQueue \/ RouteToBatch \/ BatchTook \/ BatchRefused
Manager == Dequeue \/ Feed \/ CloseJobChan
Settle(w) == Success(w) \/ Permanent(w) \/ Exhausted(w)
Worker(w) ==
    \/ Take(w) \/ WorkerExit(w) \/ OverLimit(w) \/ Limited(w)
    \/ Settle(w) \/ RateLimited(w) \/ Transient(w) \/ Requeue(w)
BatchStep == Batching /\ Background /\ UNCHANGED orchVars

\* An unrecovered panic ends the process.
Crashed == \E j \in Jobs : submit[j] = "panic" \/ result[j] = "panic"

Next ==
    /\ ~Crashed
    /\ \/ \E j \in Jobs : Submit(j) \/ Receive(j)
       \/ Bridge \/ Manager
       \/ \E w \in Workers : Worker(w)
       \/ BatchStep
       \/ StopBatchFirst \/ StopManager \/ Stopped

Spec == Init /\ [][Next]_vars

\* Every goroutine that can run does; a provider that is called again and again does not
\* rate-limit for ever (strong fairness of Settle); the flush ticker keeps firing, a batch
\* at the provider ends, and a Stop that was called goes on.  Nobody has to call Stop.
Fairness ==
    /\ \A j \in Jobs : WF_vars(~Crashed /\ Receive(j))
    /\ WF_vars(~Crashed /\ Bridge) /\ WF_vars(~Crashed /\ Manager)
    /\ \A w \in Workers : WF_vars(~Crashed /\ Worker(w)) /\ SF_vars(~Crashed /\ Settle(w))
    /\ \A f \in Flushers : WF_vars(~Crashed /\ BatchStep /\ FlushBatch(f))
    /\ WF_vars(~Crashed /\ BatchStep /\ Monitor)
    /\ WF_vars(~Crashed /\ BatchStep /\ FlushRoutine)
    /\ WF_vars(~Crashed /\ BatchStep /\ (FinalFlush \/ BatchStopped))
    /\ WF_vars(~Crashed /\ stop # "no" /\ (StopManager \/ Stopped))

FairSpec == Spec /\ Fairness

-----------------------------------------------------------------------------
\* The values the variables range over.
TypeOK ==
    /\ BatchTypeOK
    /\ submit \in [Jobs -> {"idle", "waiting", "returned", "failed", "panic"}]
    /\ outcome \in [Jobs -> {"none", "nil", "reply", "chat"}]
    /\ channel \in Seq(Jobs) /\ Len(channel) <= ChannelSize
    /\ bridge \in Jobs \cup {None}
    /\ jobQueue \subseteq Jobs
    /\ manager \in {"loop", "exit"}
    /\ held \in Jobs \cup {None}
    /\ jobChan \in Seq(Jobs) /\ Len(jobChan) <= Concurrency
    /\ wpc \in [Workers -> {"idle", "limit", "call", "backoff", "exit"}]
    /\ cur \in [Workers -> Jobs \cup {None}]
    /\ retries \in [Jobs -> 0 .. MaxTransientRetries]
    /\ stop \in {"no", "batch", "closed", "stopped"}

In(s, j) == {i \in DOMAIN s : s[i] = j}

\* Everywhere a job is, once for every time it is there.
Places(j) ==
    UNION { {"channel"} \X In(channel, j),
            {"bridge"} \X {b \in {bridge} : b = j},
            {"queue"} \X (jobQueue \cap {j}),
            {"manager"} \X {h \in {held} : h = j},
            {"jobChan"} \X In(jobChan, j),
            {"worker"} \X {w \in Workers : cur[w] = j},
            {"pending"} \X In(pendingJobs, j),
            {"flush"} \X UNION {{f} \X In(snap[f], j) : f \in Flushers},
            {"batch"} \X UNION {{b} \X In(b.jobs, j) : b \in monitors} }

\* A job is in exactly one place from its submission until it is answered or given up,
\* and in none after that: no route, retry, fallback or failed flush duplicates a job (it
\* would be answered twice, the second time on a closed channel) and none but a failed
\* batch loses one.
JobInOnePlace ==
    \A j \in Jobs :
        Cardinality(Places(j)) =
            IF submit[j] = "waiting" /\ result[j] = "empty" /\ j \notin dropped THEN 1 ELSE 0

\* When Stop returns nothing is in flight inside the process: no worker holds a job, none
\* is on its way to one, and no flush of the routine or of Stop is under way.
StopLeavesNothingRunning ==
    stop = "stopped" =>
        /\ \A w \in Workers : cur[w] = None
        /\ jobChan = <<>> /\ held = None
        /\ Batching => fpc["routine"] = "idle" /\ fpc["stop"] = "idle"

\* Submitting a job never brings the process down.  The code does not keep it for vector
\* jobs (README, known disagreements).
NoCrash == ~Crashed

\* The pipeline implements the service its callers rely on.
Status(j) ==
    CASE submit[j] = "idle" -> "new"
      [] submit[j] = "waiting" /\ result[j] = "empty" -> "accepted"
      [] submit[j] = "waiting" /\ result[j] \in {"nil", "reply", "chat"} -> "answered"
      [] submit[j] \notin {"idle", "waiting"} /\ result[j] = "closed" -> "returned"
      [] OTHER -> "broken"

Service == INSTANCE JobService WITH
    status <- [j \in Jobs |-> Status(j)],
    answer <- [j \in Jobs |-> IF result[j] \in {"nil", "reply", "chat"} THEN result[j]
                                                                        ELSE outcome[j]]

ImplementsJobService == Service!Spec

\* Every job submitted before Stop comes back to its caller.  The code does not keep it
\* (README, known disagreements).
EveryJobReturns ==
    \A j \in Jobs :
        submit[j] = "waiting" /\ stop = "no" ~> submit[j] \in {"returned", "failed"}

\* A job that waits in the batch manager together with one that cannot be converted: as
\* FlushBatch puts them all back, the next flush fails again.
Blocked(j) ==
    \E jobs \in {pendingJobs} \cup {snap[f] : f \in Flushers} :
        j \in ToSet(jobs) /\ ToSet(jobs) \cap Poison # {}

\* Every submitted job comes back to its caller unless the batch it was put in failed, or it
\* stays for ever in the batch manager with a job that makes every flush fail (README, known
\* disagreements); a job of the priority queue always does.
ReturnsUnlessBatchFails ==
    \A j \in Jobs :
        submit[j] = "waiting"
            ~> submit[j] \in {"returned", "failed"} \/ j \in dropped \/ [](ToBatch(j) /\ Blocked(j))

\* A job is in exactly one place from its submission to its answer, through retries, failed
\* flushes and Stop, and after Stop no worker, flush or queue holds one.
OrchestratorInv ==
    /\ TypeOK
    /\ JobInOnePlace
    /\ StopLeavesNothingRunning
=============================================================================
