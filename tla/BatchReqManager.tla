--------------------------- MODULE BatchReqManager ---------------------------
(***************************************************************************)
(* The batch route of the job pipeline (LLM/batch_req_manager.go): jobs    *)
(* are collected in pendingJobs and sent together to the provider's batch  *)
(* service; a monitor goroutine per batch hands the responses back.        *)
(*                                                                         *)
(* Three goroutines may be inside FlushBatch at once: the one that calls   *)
(* AddJob, the periodic flush routine, and the one that calls Stop.  The   *)
(* lock is held only around the snapshot and around the re-adding, so      *)
(* fpc[f] says where flusher f stands and snap[f] what it has taken.       *)
(***************************************************************************)
EXTENDS Integers, Sequences, FiniteSets, SequencesExt

CONSTANTS
    Jobs,         \* LLM jobs
    None,         \* no job
    Memory,       \* estimateJobMemory of a job
    Poison,       \* jobs whose request cannot be marshalled (a NaN model parameter)
    MaxRequests,  \* maxRequestsPerBatch
    MaxMemory,    \* maxMemoryBytes
    MayStop,      \* whether Stop is ever called
    WebhookEnabled, \* whether LLM_BATCH_WEBHOOK_URL is set
    RetryAttempts,  \* retries of a webhook notification
    WebhookStatuses \* what its endpoint answers; 0 is no answer

ASSUME BatchAssumption ==
    /\ IsFiniteSet(Jobs) /\ None \notin Jobs
    /\ Memory \in [Jobs -> Nat \ {0}]
    /\ Poison \subseteq Jobs
    /\ MaxRequests \in Nat \ {0} /\ MaxMemory \in Nat \ {0}
    /\ MayStop \in BOOLEAN
    /\ WebhookEnabled \in BOOLEAN /\ RetryAttempts \in Nat /\ WebhookStatuses \subseteq Nat

Flushers == {"add", "routine", "stop"}

VARIABLES
    pendingJobs,        \* jobs waiting for the next batch
    currentMemoryUsed,  \* their estimated memory, as the manager counts it
    adding,             \* the job AddJob is working on
    fpc,                \* where a flusher stands in FlushBatch
    snap,               \* jobsToFlush of a flusher
    monitors,           \* batches with a monitor: where it stands, the jobs not yet
                        \* answered, and how often the webhook was called
    batchStop,          \* progress of Stop
    routine,            \* the flush routine: "loop" or "exit"
    result,             \* content of a job's result channel (capacity one)
    dropped             \* history: jobs given up without a message to anyone

batchVars == <<pendingJobs, currentMemoryUsed, adding, fpc, snap, monitors, batchStop,
               routine, result, dropped>>

BatchInit ==
    /\ pendingJobs = <<>>
    /\ currentMemoryUsed = 0
    /\ adding = None
    /\ fpc = [f \in Flushers |-> "idle"]
    /\ snap = [f \in Flushers |-> <<>>]
    /\ monitors = {}
    /\ batchStop = "no"
    /\ routine = "loop"
    /\ result = [j \in Jobs |-> "empty"]
    /\ dropped = {}

\* Send v on the result channel of j; a send on a closed channel is a panic.
Send(j, v) == result' = [result EXCEPT ![j] = IF @ = "closed" THEN "panic" ELSE v]
HasRoom(j) == result[j] \in {"empty", "closed"}

-----------------------------------------------------------------------------
(* AddJob *)

\* Mutant of Exceeds: the limits are compared before the new job is counted.
ExceedsLate(j) == Len(pendingJobs) > MaxRequests \/ currentMemoryUsed > MaxMemory

Exceeds(j) ==
    \/ Len(pendingJobs) + 1 > MaxRequests
    \/ currentMemoryUsed + Memory[j] > MaxMemory

AppendJob(j) ==
    /\ pendingJobs' = Append(pendingJobs, j)
    /\ currentMemoryUsed' = currentMemoryUsed + Memory[j]

\* The limits are tested under the lock; when one would be exceeded the lock is
\* released and a flush comes first.
AddJob(j) ==
    /\ adding = None
    /\ IF Exceeds(j)
       THEN /\ adding' = j
            /\ fpc' = [fpc EXCEPT !["add"] = "snapshot"]
            /\ UNCHANGED <<pendingJobs, currentMemoryUsed>>
       ELSE /\ AppendJob(j)
            /\ UNCHANGED <<adding, fpc>>
    /\ UNCHANGED <<snap, monitors, batchStop, routine, result, dropped>>

\* The flush succeeded: the job is appended, the limits are not tested again.
AddAfterFlush ==
    /\ fpc["add"] = "ok"
    /\ AppendJob(adding)
    /\ adding' = None
    /\ fpc' = [fpc EXCEPT !["add"] = "idle"]
    /\ UNCHANGED <<snap, monitors, batchStop, routine, result, dropped>>

\* The flush failed: the job is not added and AddJob returns the error.
AddFails ==
    /\ fpc["add"] = "failed"
    /\ adding' = None
    /\ fpc' = [fpc EXCEPT !["add"] = "idle"]
    /\ UNCHANGED <<pendingJobs, currentMemoryUsed, snap, monitors, batchStop, routine,
                   result, dropped>>

-----------------------------------------------------------------------------
(* FlushBatch *)

\* Mutant of Snapshot: the pending jobs are copied but not cleared.
SnapshotWithoutClearing(f) ==
    /\ fpc[f] = "snapshot"
    /\ fpc' = [fpc EXCEPT ![f] = IF pendingJobs = <<>> THEN "ok" ELSE "convert"]
    /\ snap' = [snap EXCEPT ![f] = pendingJobs]
    /\ UNCHANGED <<pendingJobs, currentMemoryUsed, adding, monitors, batchStop, routine,
                   result, dropped>>

Snapshot(f) ==
    /\ fpc[f] = "snapshot"
    /\ IF pendingJobs = <<>>
       THEN /\ fpc' = [fpc EXCEPT ![f] = "ok"]
            /\ UNCHANGED <<pendingJobs, currentMemoryUsed, snap>>
       ELSE /\ fpc' = [fpc EXCEPT ![f] = "convert"]
            /\ snap' = [snap EXCEPT ![f] = pendingJobs]
            /\ pendingJobs' = <<>>
            /\ currentMemoryUsed' = 0
    /\ UNCHANGED <<adding, monitors, batchStop, routine, result, dropped>>

\* convertJobsToBatchRequests: one bad job fails them all, and all are put back;
\* their memory is not counted again.
Convert(f) ==
    /\ fpc[f] = "convert"
    /\ IF ToSet(snap[f]) \cap Poison = {}
       THEN /\ fpc' = [fpc EXCEPT ![f] = "send"]
            /\ UNCHANGED <<pendingJobs, snap>>
       ELSE /\ fpc' = [fpc EXCEPT ![f] = "failed"]
            /\ pendingJobs' = pendingJobs \o snap[f]
            /\ snap' = [snap EXCEPT ![f] = <<>>]
    /\ UNCHANGED <<currentMemoryUsed, adding, monitors, batchStop, routine, result, dropped>>

Forget(f) ==
    /\ fpc' = [fpc EXCEPT ![f] = "failed"]
    /\ snap' = [snap EXCEPT ![f] = <<>>]
    /\ dropped' = dropped \cup ToSet(snap[f])

\* The input file is written and uploaded; when that fails the jobs are forgotten.
UploadFile(f) ==
    /\ fpc[f] = "send"
    /\ \/ fpc' = [fpc EXCEPT ![f] = "create"] /\ UNCHANGED <<snap, dropped>>
       \/ Forget(f)
    /\ UNCHANGED <<pendingJobs, currentMemoryUsed, adding, monitors, batchStop, routine, result>>

\* The batch is created and gets its monitor.  When the call fails, or its answer is lost
\* and the provider works on a batch nobody watches, the jobs are forgotten.
CreateBatch(f) ==
    /\ fpc[f] = "create"
    /\ \/ /\ fpc' = [fpc EXCEPT ![f] = "ok"]
          /\ snap' = [snap EXCEPT ![f] = <<>>]
          /\ monitors' = monitors \cup {[at |-> "wait", jobs |-> snap[f], calls |-> 0]}
          /\ UNCHANGED dropped
       \/ Forget(f) /\ UNCHANGED monitors
    /\ UNCHANGED <<pendingJobs, currentMemoryUsed, adding, batchStop, routine, result>>

FlushBatch(f) == Snapshot(f) \/ Convert(f) \/ UploadFile(f) \/ CreateBatch(f)

-----------------------------------------------------------------------------
(* monitorBatchCompletion.  Errors go to the job's Error channel, which no  *)
(* submitter creates: the job is told nothing.                              *)

Advance(b, c) == monitors' = (monitors \ {b}) \cup {c}
GiveUp(b) == monitors' = monitors \ {b} /\ dropped' = dropped \cup ToSet(b.jobs)
RestOfMonitor == <<pendingJobs, currentMemoryUsed, adding, fpc, snap, batchStop, routine>>

BatchStatus ==
    {"validating", "failed", "in_progress", "finalizing", "completed", "expired",
     "cancelling", "cancelled"}

\* A poll of GetBatch finds the batch in a state: in one that is not terminal nothing
\* changes.  Only a completed batch goes on, to the reading of its output.
WaitForBatch(b, status) ==
    /\ b \in monitors /\ b.at = "wait"
    /\ CASE status = "completed" ->
              Advance(b, [b EXCEPT !.at = "read"]) /\ UNCHANGED dropped
         [] status \in {"failed", "expired", "cancelled"} -> GiveUp(b)
         [] OTHER -> UNCHANGED <<monitors, dropped>>
    /\ UNCHANGED <<RestOfMonitor, result>>

\* ReadBatchResponses: every line of the output file can be parsed.
ReadBatchResponses(b) ==
    /\ b \in monitors /\ b.at = "read"
    /\ Advance(b, [b EXCEPT !.at = IF WebhookEnabled THEN "notify" ELSE "answer"])
    /\ UNCHANGED <<RestOfMonitor, result, dropped>>

\* A poll fails (one is enough), or the output is missing or cannot be read.
BatchFails(b) ==
    /\ b \in monitors /\ b.at \in {"wait", "read"}
    /\ GiveUp(b)
    /\ UNCHANGED <<RestOfMonitor, result>>

\* sendWebhook succeeds with a status of the 200s; 0 stands for a call that fails, also
\* when the endpoint took it and only its answer was lost.
sendWebhook(status) == 200 <= status /\ status < 300

\* One turn of the loop: a call that fails is made again, after retryDelay, until
\* retryAttempts retries have failed.  The batch goes on either way.
NotifyBatchComplete(b, status) ==
    LET called == [b EXCEPT !.calls = @ + 1]
    IN  /\ b \in monitors /\ b.at = "notify"
        /\ IF sendWebhook(status) \/ b.calls = RetryAttempts
             THEN Advance(b, [called EXCEPT !.at = "answer"])
             ELSE Advance(b, called)
        /\ UNCHANGED <<RestOfMonitor, result, dropped>>

\* The next job of a completed batch: it has a response, which is sent, or none, an
\* error, or a body that does not convert.
BatchAnswers(b) ==
    LET j == Head(b.jobs)
    IN  /\ b \in monitors /\ b.at = "answer"
        /\ IF Tail(b.jobs) = <<>> THEN monitors' = monitors \ {b}
                                  ELSE Advance(b, [b EXCEPT !.jobs = Tail(@)])
        /\ \/ /\ HasRoom(j) /\ Send(j, "chat")
              /\ UNCHANGED dropped
           \/ /\ dropped' = dropped \cup {j}
              /\ UNCHANGED result
        /\ UNCHANGED RestOfMonitor

-----------------------------------------------------------------------------
(* The flush routine and Stop. *)

\* The ticker fires and there are pending jobs.
Tick ==
    /\ routine = "loop" /\ fpc["routine"] = "idle"
    /\ pendingJobs # <<>>
    /\ fpc' = [fpc EXCEPT !["routine"] = "snapshot"]
    /\ UNCHANGED <<pendingJobs, currentMemoryUsed, adding, snap, monitors, batchStop,
                   routine, result, dropped>>

\* The flush has returned; an error is printed.
TickDone ==
    /\ fpc["routine"] \in {"ok", "failed"}
    /\ fpc' = [fpc EXCEPT !["routine"] = "idle"]
    /\ UNCHANGED <<pendingJobs, currentMemoryUsed, adding, snap, monitors, batchStop,
                   routine, result, dropped>>

RoutineExit ==
    /\ routine = "loop" /\ fpc["routine"] = "idle"
    /\ batchStop # "no"
    /\ routine' = "exit"
    /\ UNCHANGED <<pendingJobs, currentMemoryUsed, adding, fpc, snap, monitors, batchStop,
                   result, dropped>>

StopBatch ==
    /\ MayStop
    /\ batchStop = "no"
    /\ batchStop' = "closed"
    /\ UNCHANGED <<pendingJobs, currentMemoryUsed, adding, fpc, snap, monitors, routine,
                   result, dropped>>

\* The routine has returned: the final flush.
FinalFlush ==
    /\ batchStop = "closed"
    /\ routine = "exit"
    /\ batchStop' = "flushing"
    /\ fpc' = [fpc EXCEPT !["stop"] = "snapshot"]
    /\ UNCHANGED <<pendingJobs, currentMemoryUsed, adding, snap, monitors, routine, result,
                   dropped>>

\* Stop returns the result of the final flush; the orchestrator ignores it.
BatchStopped ==
    /\ batchStop = "flushing"
    /\ fpc["stop"] \in {"ok", "failed"}
    /\ batchStop' = "stopped"
    /\ fpc' = [fpc EXCEPT !["stop"] = "idle"]
    /\ UNCHANGED <<pendingJobs, currentMemoryUsed, adding, snap, monitors, routine, result,
                   dropped>>

-----------------------------------------------------------------------------
Monitor ==
    \E b \in monitors :
        \/ \E status \in BatchStatus : WaitForBatch(b, status)
        \/ ReadBatchResponses(b) \/ BatchFails(b)
        \/ \E status \in WebhookStatuses : NotifyBatchComplete(b, status)
        \/ BatchAnswers(b)
FlushRoutine == Tick \/ TickDone \/ RoutineExit

Background ==
    \/ \E f \in Flushers : FlushBatch(f)
    \/ Monitor \/ FlushRoutine
    \/ FinalFlush \/ BatchStopped

-----------------------------------------------------------------------------
\* The values the variables of the batch manager range over.
BatchTypeOK ==
    /\ pendingJobs \in Seq(Jobs)
    /\ currentMemoryUsed \in Nat
    /\ adding \in Jobs \cup {None}
    /\ fpc \in [Flushers -> {"idle", "snapshot", "convert", "send", "create", "ok", "failed"}]
    /\ snap \in [Flushers -> Seq(Jobs)]
    /\ monitors \subseteq [at : {"wait", "read", "notify", "answer"},
                           jobs : Seq(Jobs) \ {<<>>}, calls : 0..(RetryAttempts + 1)]
    /\ batchStop \in {"no", "closed", "flushing", "stopped"}
    /\ routine \in {"loop", "exit"}
    /\ result \in [Jobs -> {"empty", "nil", "reply", "chat", "closed", "panic"}]
    /\ dropped \subseteq Jobs

\* The estimated memory of a sequence of jobs.
MemoryOf(s) ==
    LET total[i \in 0 .. Len(s)] == IF i = 0 THEN 0 ELSE total[i - 1] + Memory[s[i]]
    IN  total[Len(s)]

\* A batch that goes to the provider respects both limits of the configuration; only a
\* job larger than the memory limit goes alone.  The count is reset while the lock is
\* given up, jobs are put back uncounted and AddJob does not test again after its
\* flush: what saves the limit is that jobs put back contain one that keeps the whole
\* queue from being sent.
BatchWithinLimits ==
    \A f \in Flushers :
        fpc[f] = "send" =>
            /\ Len(snap[f]) <= MaxRequests
            /\ Len(snap[f]) = 1 \/ MemoryOf(snap[f]) <= MaxMemory
=============================================================================
