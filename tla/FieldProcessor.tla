--------------------------- MODULE FieldProcessor ---------------------------
(***************************************************************************)
(* One generation request: DefaultGenerator.Generate, the goroutine of     *)
(* ProcessFieldsStart, and the recursive field processing of               *)
(* execution/generate_object.go, composed with the worker pool it submits  *)
(* fields to.                                                              *)
(*                                                                         *)
(* A schema is a tree.  A node is a request (the root object, processed by *)
(* a goroutine of its own) or a field; the fields are the jobs of the      *)
(* pool.  A node with subfields processes its ordered batches one after    *)
(* the other, then the remaining fields, either in its own goroutine or by *)
(* submitting them to the pool and waiting on a WaitGroup.                 *)
(***************************************************************************)
EXTENDS WorkerPool, Sequences

CONSTANTS
    ParentOf,        \* the node a field is a property of
    Objects,         \* fields of type object
    Structured,      \* objects with StructuredOutput: one native call is tried first
    Ordered,         \* batches analyzeFieldDependencies makes of a node's ProcessingOrder
    Rest,            \* the fields of a node that are not in its ProcessingOrder
    LowWorkerFloor,  \* least value of the low-worker threshold (10 in the code)
    BufferSize       \* capacity of the results channel

Nodes == Requests \cup Jobs
Inner == Requests \cup Objects
BatchSets(n) == {Ordered[n][i] : i \in DOMAIN Ordered[n]} \cup {Rest[n]}

ASSUME FieldAssumption ==
    /\ Requests \cap Jobs = {}
    /\ ParentOf \in [Jobs -> Inner]
    /\ Structured \subseteq Objects /\ Objects \subseteq Jobs
    /\ Ordered \in [Inner -> Seq(SUBSET Jobs)]
    /\ Rest \in [Inner -> SUBSET Jobs]
    /\ \A n \in Inner : \A B \in BatchSets(n) : \A j \in B : ParentOf[j] = n
    /\ \A n \in Inner : \A i, k \in DOMAIN Ordered[n] :
          /\ Ordered[n][i] \cap Rest[n] = {}
          /\ i # k => Ordered[n][i] \cap Ordered[n][k] = {}
    /\ \A j \in Jobs : ParentOf[j] \in Requests => ReqOf[j] = ParentOf[j]
    /\ CtxJobs = Jobs /\ Cancellable = Requests
    /\ LowWorkerFloor \in Nat
    /\ BufferSize \in Nat \ {0}

\* The schema is a tree: from a field, parent by parent, one comes to its request.
ASSUME TreeAssumption ==
    \A j \in Jobs : \A S \in SUBSET Inner :
        ParentOf[j] \in S /\ (\A k \in S \cap Jobs : ParentOf[k] \in S) => ReqOf[j] \in S

VARIABLES
    npc,      \* where the goroutine that runs a node stands
    batch,    \* index of the batch a node is at; one past the last is Rest
    todo,     \* fields of the current batch not yet started
    at,       \* the field a node is submitting, or processing itself
    wg,       \* the WaitGroup of a node's continuation
    made,     \* fields for which processField returned a result
    got,      \* results collected: the nested map of an object, allResults of a request
    ch,       \* results channel of a request
    outcome   \* what Generate returned

fieldVars == <<npc, batch, todo, at, wg, made, got, ch, outcome>>
vars == <<poolVars, fieldVars>>

Init ==
    /\ PoolInit
    /\ npc = [n \in Nodes |-> IF n \in Requests THEN "batch" ELSE "idle"]
    /\ batch = [n \in Inner |-> 1]
    /\ todo = [n \in Inner |-> {}]
    /\ at = [n \in Inner |-> None]
    /\ wg = [n \in Inner |-> 0]
    /\ made = {}
    /\ got = [n \in Inner |-> {}]
    /\ ch = [r \in Requests |-> <<>>]
    /\ outcome = [r \in Requests |-> "running"]

\* The request a node belongs to; all its fields share one context.
Root(n) == IF n \in Requests THEN n ELSE ReqOf[n]
CtxDone(n) == Root(n) \in cancelled

InRest(n) == batch[n] > Len(Ordered[n])

LowWorkerThreshold ==
    IF MaxWorkers \div 10 < LowWorkerFloor THEN LowWorkerFloor ELSE MaxWorkers \div 10

-----------------------------------------------------------------------------
(* ProcessFields on a node: processSequentialFields over the batches, then  *)
(* processConcurrentFieldsAndWait over the rest.                            *)

\* Hand j to this goroutine: processField is called directly.
RunInline(n, j) ==
    /\ at' = [at EXCEPT ![n] = j]
    /\ npc' = [npc EXCEPT ![n] = "inline", ![j] = "start"]

\* A batch of one field is processed by this goroutine, a larger one by the pool.
\* When the context is done the remaining batches are abandoned.
OrderedBatch(n) ==
    /\ npc[n] = "batch"
    /\ ~InRest(n)
    /\ LET B == Ordered[n][batch[n]]
       IN  \/ /\ CtxDone(n)
              /\ batch' = [batch EXCEPT ![n] = Len(Ordered[n]) + 1]
              /\ UNCHANGED <<npc, at, todo>>
           \/ /\ ~CtxDone(n)
              /\ Cardinality(B) = 1
              /\ \E j \in B : RunInline(n, j)
              /\ UNCHANGED <<batch, todo>>
           \/ /\ ~CtxDone(n)
              /\ Cardinality(B) > 1
              /\ todo' = [todo EXCEPT ![n] = B]
              /\ npc' = [npc EXCEPT ![n] = "submit"]
              /\ UNCHANGED <<batch, at>>
    /\ UNCHANGED <<poolVars, wg, made, got, ch, outcome>>

\* The remaining fields: sequentially when few workers are free, else by the pool.
RestBatch(n) ==
    /\ npc[n] = "batch"
    /\ InRest(n)
    /\ npc' = [npc EXCEPT ![n] = CASE Rest[n] = {} -> "gathered"
                                   [] Rest[n] # {} /\ AvailableWorkers < LowWorkerThreshold -> "sequential"
                                   [] OTHER -> "submit"]
    /\ todo' = [todo EXCEPT ![n] = Rest[n]]
    /\ UNCHANGED <<poolVars, batch, at, wg, made, got, ch, outcome>>

Sequential(n) ==
    /\ npc[n] = "sequential"
    /\ \/ /\ todo[n] = {} \/ CtxDone(n)
          /\ npc' = [npc EXCEPT ![n] = "gathered"]
          /\ UNCHANGED <<todo, at>>
       \/ /\ ~CtxDone(n)
          /\ \E j \in todo[n] :
               /\ RunInline(n, j)
               /\ todo' = [todo EXCEPT ![n] = @ \ {j}]
    /\ UNCHANGED <<poolVars, batch, wg, made, got, ch, outcome>>

\* MapCollector: always succeeds.  ChannelCollector: waits for room in the channel.
Collect(j) ==
    LET p == ParentOf[j]
    IN  \/ /\ p \in Requests
           /\ Len(ch[p]) < BufferSize
           /\ ch' = [ch EXCEPT ![p] = Append(@, j)]
           /\ UNCHANGED got
        \/ /\ p \in Objects
           /\ got' = [got EXCEPT ![p] = @ \cup {j}]
           /\ UNCHANGED ch

\* ChannelCollector gives up when the context is done.
CollectFails(j) == ParentOf[j] \in Requests /\ CtxDone(j) /\ UNCHANGED <<ch, got>>

\* The field processed by this goroutine is back; a failed Collect ends the loop.
InlineDone(n) ==
    LET j == at[n]
        ordered == ~InRest(n)
        goOn == /\ npc' = [npc EXCEPT ![j] = "end", ![n] = IF ordered THEN "batch" ELSE "sequential"]
                /\ batch' = [batch EXCEPT ![n] = IF ordered THEN @ + 1 ELSE @]
        quit == /\ npc' = [npc EXCEPT ![j] = "end", ![n] = IF ordered THEN "batch" ELSE "gathered"]
                /\ batch' = [batch EXCEPT ![n] = Len(Ordered[n]) + 1]
    IN  /\ npc[n] = "inline"
        /\ \/ npc[j] = "novalue" /\ goOn /\ UNCHANGED <<ch, got>>
           \/ npc[j] = "value" /\ Collect(j) /\ goOn
           \/ npc[j] = "value" /\ CollectFails(j) /\ quit
        /\ at' = [at EXCEPT ![n] = None]
        /\ UNCHANGED <<poolVars, todo, wg, made, outcome>>

\* wg.Add(1), then SubmitWithContext (its steps are the submitter's of WorkerPool).
SubmitField(n) ==
    /\ npc[n] = "submit"
    /\ \E j \in todo[n] :
         /\ todo' = [todo EXCEPT ![n] = @ \ {j}]
         /\ at' = [at EXCEPT ![n] = j]
         /\ Call(j)
    /\ wg' = [wg EXCEPT ![n] = @ + 1]
    /\ npc' = [npc EXCEPT ![n] = "submitting"]
    /\ UNCHANGED <<batch, made, got, ch, outcome>>

\* Mutant of SubmitReturned: a refused field is not signed off.
SubmitReturnedNoDone(n) ==
    /\ npc[n] = "submitting"
    /\ call[at[n]] \in {"accepted", "refused"}
    /\ at' = [at EXCEPT ![n] = None]
    /\ npc' = [npc EXCEPT ![n] = "submit"]
    /\ UNCHANGED <<poolVars, batch, todo, wg, made, got, ch, outcome>>

SubmitReturned(n) ==
    /\ npc[n] = "submitting"
    /\ call[at[n]] \in {"accepted", "refused"}
    /\ wg' = [wg EXCEPT ![n] = IF call[at[n]] = "refused" THEN @ - 1 ELSE @]
    /\ at' = [at EXCEPT ![n] = None]
    /\ npc' = [npc EXCEPT ![n] = "submit"]
    /\ UNCHANGED <<poolVars, batch, todo, made, got, ch, outcome>>

\* waitForCompletion: wg.Wait does not look at the context.
WaitForCompletion(n) ==
    /\ npc[n] = "submit"
    /\ todo[n] = {}
    /\ wg[n] = 0
    /\ npc' = [npc EXCEPT ![n] = IF InRest(n) THEN "gathered" ELSE "batch"]
    /\ batch' = [batch EXCEPT ![n] = IF InRest(n) THEN @ ELSE @ + 1]
    /\ UNCHANGED <<poolVars, todo, at, wg, made, got, ch, outcome>>

\* ProcessFields has returned: an object always yields a result, the goroutine of
\* a request closes the channel.
Gathered(n) ==
    /\ npc[n] = "gathered"
    /\ npc' = [npc EXCEPT ![n] = IF n \in Requests THEN "closed" ELSE "value"]
    /\ made' = IF n \in Requests THEN made ELSE made \cup {n}
    /\ UNCHANGED <<poolVars, batch, todo, at, wg, got, ch, outcome>>

-----------------------------------------------------------------------------
(* processField, in whatever goroutine. *)

\* The context is tested first; then an object is decomposed, unless a native
\* structured call is asked for, and any other type is generated by the model.
BeginField(j) ==
    /\ npc[j] = "start"
    /\ npc' = [npc EXCEPT ![j] = CASE CtxDone(j) -> "novalue"
                                   [] ~CtxDone(j) /\ j \in Objects \ Structured -> "batch"
                                   [] OTHER -> "llm"]
    /\ UNCHANGED <<poolVars, batch, todo, at, wg, made, got, ch, outcome>>

\* The type processor returns a result or an error; a failed structured call falls
\* back to the decomposition.
GenerateField(j) ==
    /\ npc[j] = "llm"
    /\ \/ /\ npc' = [npc EXCEPT ![j] = "value"]
          /\ made' = made \cup {j}
       \/ /\ npc' = [npc EXCEPT ![j] = IF j \in Structured THEN "batch" ELSE "novalue"]
          /\ UNCHANGED made
    /\ UNCHANGED <<poolVars, batch, todo, at, wg, got, ch, outcome>>

-----------------------------------------------------------------------------
(* A field on a worker: the function given to SubmitWithContext. *)

StartField(w) ==
    /\ Start(w)
    /\ npc' = [npc EXCEPT ![cur[w]] = "start"]
    /\ UNCHANGED <<batch, todo, at, wg, made, got, ch, outcome>>

\* Mutant of CollectField: a result is dropped when the channel has no room.
CollectFieldOrDrop(w) ==
    LET j == cur[w]
    IN  /\ wpc[w] = "run" /\ npc[j] = "value"
        /\ \/ Collect(j)
           \/ ParentOf[j] \in Requests /\ Len(ch[ParentOf[j]]) = BufferSize /\ UNCHANGED <<ch, got>>
        /\ npc' = [npc EXCEPT ![j] = "collected"]
        /\ UNCHANGED <<poolVars, batch, todo, at, wg, made, outcome>>

\* The result is collected; among the remaining fields, not when the context is done.
CollectField(w) ==
    LET j == cur[w]
    IN  /\ wpc[w] = "run"
        /\ npc[j] = "value"
        /\ \/ (InRest(ParentOf[j]) => ~CtxDone(j)) /\ Collect(j)
           \/ CollectFails(j)
           \/ InRest(ParentOf[j]) /\ CtxDone(j) /\ UNCHANGED <<ch, got>>
        /\ npc' = [npc EXCEPT ![j] = "collected"]
        /\ UNCHANGED <<poolVars, batch, todo, at, wg, made, outcome>>

\* Mutant of FinishField: wg.Done is forgotten.
FinishFieldNoDone(w) ==
    LET j == cur[w]
    IN  /\ Finish(w)
        /\ npc[j] \in {"collected", "novalue"}
        /\ npc' = [npc EXCEPT ![j] = "end"]
        /\ UNCHANGED <<batch, todo, at, wg, made, got, ch, outcome>>

\* The deferred wg.Done, then the deferred release of the slot.
FinishField(w) ==
    LET j == cur[w]
    IN  /\ Finish(w)
        /\ npc[j] \in {"collected", "novalue"}
        /\ npc' = [npc EXCEPT ![j] = "end"]
        /\ wg' = [wg EXCEPT ![ParentOf[j]] = @ - 1]
        /\ UNCHANGED <<batch, todo, at, made, got, ch, outcome>>

-----------------------------------------------------------------------------
(* DefaultGenerator.Generate: the loop over the results channel. *)

Receive(r) ==
    /\ outcome[r] = "running"
    /\ ch[r] # <<>>
    /\ ch' = [ch EXCEPT ![r] = Tail(@)]
    /\ IF r \in cancelled
       THEN outcome' = [outcome EXCEPT ![r] = "timeout"] /\ UNCHANGED got
       ELSE got' = [got EXCEPT ![r] = @ \cup {Head(ch[r])}] /\ UNCHANGED outcome
    /\ UNCHANGED <<poolVars, npc, batch, todo, at, wg, made>>

\* The channel is closed and drained: the results are assembled, post-processed and
\* validated, each of which may fail; the deferred cancel ends the context.
Complete(r) ==
    /\ outcome[r] = "running"
    /\ ch[r] = <<>>
    /\ npc[r] = "closed"
    /\ \E v \in {"ok", "error"} : outcome' = [outcome EXCEPT ![r] = v]
    /\ cancelled' = cancelled \cup {r}
    /\ UNCHANGED <<call, fate, semaphore, nextShard, home, heap, wpc, cur, closed>>
    /\ UNCHANGED <<npc, batch, todo, at, wg, made, got, ch>>

-----------------------------------------------------------------------------
Process(n) ==
    \/ OrderedBatch(n) \/ RestBatch(n) \/ Sequential(n) \/ InlineDone(n)
    \/ SubmitField(n) \/ SubmitReturned(n) \/ WaitForCompletion(n) \/ Gathered(n)
Field(j) == BeginField(j) \/ GenerateField(j)
OnWorker(w) == StartField(w) \/ CollectField(w) \/ FinishField(w)
Consume(r) == Receive(r) \/ Complete(r)

\* Steps of the pool that do not concern the fields.
PoolStep ==
    /\ \/ \E j \in Jobs : Submitter(j)
       \/ \E w \in Workers : Top(w) \/ Park(w) \/ Pop(w) \/ Skip(w)
    /\ UNCHANGED fieldVars

\* The deadline of 300 seconds, or the client going away.
Timeout(r) == Cancel(r) /\ UNCHANGED fieldVars

Next ==
    \/ \E n \in Inner : Process(n)
    \/ \E j \in Jobs : Field(j)
    \/ \E w \in Workers : OnWorker(w)
    \/ \E r \in Requests : Consume(r) \/ Timeout(r)
    \/ PoolStep

Spec == Init /\ [][Next]_vars

\* The scheduler runs every goroutine that can run; the model's provider answers
\* every call; a send blocked on a channel is served in FIFO order.
Fairness ==
    /\ \A n \in Inner : WF_vars(Process(n))
    /\ \A j \in Jobs : /\ WF_vars(Field(j))
                       /\ WF_vars(Submitter(j) /\ UNCHANGED fieldVars)
                       /\ SF_vars(Acquire(j) /\ UNCHANGED fieldVars)
    /\ \A w \in Workers : /\ WF_vars(OnWorker(w))
                          /\ WF_vars((Top(w) \/ Park(w) \/ Pop(w) \/ Skip(w)) /\ UNCHANGED fieldVars)
    /\ \A r \in Requests : WF_vars(Consume(r))

FairSpec == Spec /\ Fairness

\* Time passes: a request that may time out and is still running does.
DeadlineSpec == FairSpec /\ \A r \in Requests : WF_vars(Timeout(r))

-----------------------------------------------------------------------------
NodeStates == {"idle", "batch", "submit", "submitting", "sequential", "inline", "gathered",
               "closed", "start", "llm", "value", "novalue", "collected", "end"}

\* The values the variables of the field processor range over.
TypeOK ==
    /\ PoolTypeOK
    /\ npc \in [Nodes -> NodeStates]
    /\ \A n \in Inner : batch[n] \in 1 .. Len(Ordered[n]) + 1
    /\ todo \in [Inner -> SUBSET Jobs]
    /\ at \in [Inner -> Jobs \cup {None}]
    /\ wg \in [Inner -> Nat]
    /\ made \subseteq Jobs
    /\ got \in [Inner -> SUBSET Jobs]
    /\ \A r \in Requests : ch[r] \in Seq(Jobs) /\ Len(ch[r]) <= BufferSize
    /\ outcome \in [Requests -> {"running", "ok", "error", "timeout"}]

\* j is registered with the WaitGroup of its parent and not yet signed off.
Outstanding(j) ==
    LET p == ParentOf[j]
    IN  /\ call[j] # "idle"
        /\ fate[j] # "done"
        /\ call[j] = "refused" => npc[p] = "submitting" /\ at[p] = j

\* The WaitGroup counts exactly the fields it waits for.  Were a refused field also
\* run, or a run field also counted off by the submitter, the counter would go
\* negative and the process would panic.
WaitGroupAccounting ==
    \A n \in Inner : wg[n] = Cardinality({j \in Jobs : ParentOf[j] = n /\ Outstanding(j)})

InProgress(j) == npc[j] \notin {"idle", "end"} \/ fate[j] \in {"queued", "popped", "running"}

\* Structured joins: once ProcessFields has returned on a node none of its fields is
\* queued or being processed.  For a request this means that no field is ever sent
\* on the closed results channel.
JoinedBeforeReturn ==
    \A n \in Inner :
        npc[n] \in {"gathered", "closed", "value", "novalue", "collected", "end"}
            => \A j \in Jobs : ParentOf[j] = n => ~InProgress(j)

\* Fields of one node in progress at the same time belong to one batch: a field
\* never runs beside one that the ProcessingOrder puts before it.
OneBatchAtATime ==
    \A j, k \in Jobs :
        ParentOf[j] = ParentOf[k] /\ InProgress(j) /\ InProgress(k)
            => \E B \in BatchSets(ParentOf[j]) : j \in B /\ k \in B

\* When Generate returns a result and the deadline has not passed, every field was
\* settled and no result that was produced, at any depth, is missing from it.
NothingLostInTime ==
    [][\A r \in Requests :
          outcome[r] = "running" /\ outcome'[r] = "ok" /\ r \notin cancelled
              => \A j \in Jobs : ReqOf[j] = r =>
                    /\ npc[j] \in {"idle", "end"}
                    /\ j \in made => j \in got[ParentOf[j]]]_vars

\* Generate returns, also after its context has ended, unless the pool has given up one of
\* its fields without a word: nothing else makes a join wait for ever.
ReturnsUnlessAbandoned ==
    \A r \in Requests :
        <>(outcome[r] # "running" \/ \E j \in Jobs : ReqOf[j] = r /\ fate[j] \in {"skipped", "dropped"})

\* Generate returns, deadline or not.  The code does not keep it (README, known disagreements).
GenerateReturns == \A r \in Requests : <>(outcome[r] # "running")

\* The joins of the field processor: the WaitGroup counts exactly the fields that are
\* waited for, nothing of a node runs after its join, and batches do not overlap.
FieldInv ==
    /\ TypeOK
    /\ WaitGroupAccounting
    /\ JoinedBeforeReturn
    /\ OneBatchAtATime
=============================================================================
