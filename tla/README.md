# ObjectWeaver: a TLA+ verification project

ObjectWeaver generates a JSON object from a schema: every field of the schema becomes one
or more calls to a language model. The Go code is a concurrent program: fields run on a
shared worker pool, model calls go through semaphores or through a queue with retries, a
batch service and a shutdown, results are joined, judged, assembled, stored and streamed.
This directory holds TLA+ models of that machinery, TLC runs over small instances, and
TLAPS proofs for arbitrary ones.

## 1. The system and its parts

| Part | State | Operations | Talks to | Module |
|---|---|---|---|---|
| Handlers and gRPC service (`service/`, `grpcService/`) | requests under way, `sync.Pool` of generators, Redis entries, polls | `ObjectGenHandler`, `ObjectGenQueded`, `GetObjectQueued`, `GenerateObjectV2` | generator, cache | `Serving` |
| Phases of Generate, plugins (`default_generator.go`, `plugin_registry.go`) | phase of a generation, plugin cache | pre-processors, cache, fields, post-processors, validators | field processor | `Generator` |
| Streaming (`streaming_generator.go`, `streamGenerateObjectV2.go`) | bounded channel, accumulated data | `GenerateStream`, `streamComplete` | field processor, gRPC stream | `Streaming` |
| Conversions (`converison/`) | none | both directions for every part of a Definition | handlers | `Conversion` |
| Field processor (`generate_object.go`) | results channel, a WaitGroup per join, collectors, deadline | `ProcessFields` and the three ways to run fields, `processField` | worker pool, processors | `FieldProcessor` |
| Field scheduler (`analyzeFieldDependencies`) | processed keys, batches | one round of the loop | field processor | `FieldScheduler` |
| Execution context, assembler, path resolver | generated values, assembled object | quoting, `ResolveFieldPath`, `Assemble` | field processor | `Assembly`, `Generation` |
| Worker pool (`worker_pool.go`) | shards with heap, mutex and condition variable; workers; a quota semaphore per request | `SubmitWithContext`, `SubmitWithPriority`, `run`, `Shutdown` | field processor | `WorkerPool` |
| Loop, scores, decisions (`recursive_processor.go`, `decision_processor.go`) | iterations, scores, branches | `Process`, `selectResult`, `ProcessDecisionPoint` | type processors, provider | `FieldPipeline`, `Scoring`, `Conditions` |
| Arrays (`array_processor.go`) | one item semaphore for the process, results channel, prompts | `Process`, `executeLLMRequest`, `extractItemFromList` | provider, nested processors | `ArrayProcessor`, `ArrayListing` |
| Structured output | none | schema of an object, parsing of the answer | provider | `StructuredOutput` |
| Epistemic validation (`epstimic/`) | a worker count shared by all calls, a results channel per call | `EpstimicValidation`, judge, k-mean | provider | `Epistemic`, `Judging` |
| Provider, throughput manager, direct submitter | cooldown per model, a weighted semaphore per shard | `Generate` with retries, `GetModelForRequestWithWait`, `SubmitJob` | adapters | `ModelCalls`, `ThroughputManager`, `DirectSubmitter` |
| Adapters, request building, classifier (`clientManager/`, `requestManagement/`) | none | requests for OpenAI, Gemini and local servers, answers, classes of errors | providers | `ProviderRequest`, `Gateway` |
| Backoff and limiter (`llmManagement/backoff`) | current backoff and its end, window counters | `ApplyBackoff`, `ActivateBackoff`, `ResetBackoff`, `Wait` | orchestrator workers | `Backoff` |
| Job orchestrator (`LLM/`) | worker channel, priority queue, job channel, result channel per job, retry counts | `SubmitJob`, bridge, routing, `StartManager`, `orchestrationJob`, `Stop` | batch manager, adapters | `JobOrchestrator` |
| Batch request manager, batch client, webhook | pending jobs and their memory, batches in flight | `AddJob`, `FlushBatch`, flush routine, monitors, notification, `Stop` | batch service | `BatchReqManager` |

What is hard here: joins that wait for work other parties may throw away; workers that
wait for work which needs a worker; contexts that end between two tests of them; locks
released in the middle of an operation; one field of a shared object read several times;
retries and fallbacks that put a job in a second place; a shutdown in several stages;
counters (WaitGroup, semaphores, retries) that must agree with what is really
outstanding. `PROJECT.json` lists these hazards by source line together with the
properties that would catch them.

## 2. Modules

The arrows of the composition: `FieldProcessor` EXTENDS `WorkerPool`; `Generation` EXTENDS
`FieldScheduler` and `Assembly`; `FieldPipeline` EXTENDS `Scoring` and `Conditions`;
`ArrayProcessor` EXTENDS `ArrayListing`; `Epistemic` EXTENDS `Judging`; `ModelCalls` EXTENDS
`ThroughputManager` and `DirectSubmitter`; `JobOrchestrator` EXTENDS `BatchReqManager` and
instantiates `JobService`; `Serving` EXTENDS `Generator`, and `Server` joins `Serving` and
`Streaming`; `Gateway` EXTENDS `Conversion`, `ProviderRequest` and `StructuredOutput`.

`WorkerPool` — `execution/worker_pool.go`. A job has two sides with a variable each:
`call[j]` is where the submitting goroutine stands (`SubmitWithContext` looks at the
context four times, and each look is a step), `fate[j]` is what became of the job in the
pool. Actions `Call … Signal` are the submitter, `Top, Park, Pop, Skip, Start, Finish` the
loop of `worker.run`, `Cancel` the end of a context, `Shutdown` one round of the loop in
`Shutdown`. `Push` and `Signal` are separate steps, as the mutex is released between them.
The push order of equal priorities is arbitrary (a binary heap is not stable). `active` is
not kept: it changes with the semaphore at every place. A job submitted by `Submit` has no
context (`CtxJobs` are the others). The test mode without a global pool is left out.

`FieldProcessor` — one request, composed with `WorkerPool` (EXTENDS; the fields are the
pool's jobs). A schema is a tree of nodes; `npc[n]` is where the goroutine that runs node
`n` stands. `OrderedBatch`, `RestBatch`, `Sequential`, `InlineDone`, `SubmitField`,
`SubmitReturned`, `WaitForCompletion`, `Gathered` are `ProcessFields` and the three
functions under it; `BeginField` and `GenerateField` are `processField`, with the type
processors, scoring and decision points as one step that yields a value or none;
`StartField`, `CollectField`, `FinishField` are the function given to the pool; `Receive`
and `Complete` are the loop of `DefaultGenerator.Generate` and what follows it. The
deferred `wg.Done` and the deferred release of the slot are one step: nothing another
goroutine does in between depends on their order, except that a join may see the WaitGroup
at zero a moment before the slot is free.

`FieldScheduler`, `Assembly`, `Generation` — `analyzeFieldDependencies`, then the run of its
batches and the assembly of the results. The order, the selections and the kinds of the
fields are chosen by `Init`; a step of the scheduler is one round of the outer loop, which
takes a batch (`Batch`) or forces a key (`ForceKey`). A batch is a set of positions of the
order; the inner scan with its two breaks is the operator `Taken`, which says which of the
ready positions it reaches. `Resolvable`, in the properties, is the least set of keys that
has every key whose dependencies it has: no recursion is needed to say which dependencies can
be met. `Assembly` walks paths and lists with recursive functions over positions. In `Generation` a field asks with a copy of the generated values
(`quoted`), puts its value into the shared ones, and the results are assembled in the order
of their arrival. How a batch is started, joined and cut off is in `FieldProcessor`.

`FieldPipeline`, `Scoring`, `Conditions` — `processField` on one field: the recursive loop,
the scores of every iteration, the selection, a second scoring for the metadata, and the
decision point. Scores are fractions <<numerator, denominator>>; <<0, 0>> is Go's NaN,
which compares with nothing. `compareValues` compares the printed values for equality and
containment, and the order only of Go numbers (the type switch of `toFloat64`). `feedback`
counts the feedback prompts that the loop has put into the prompt context. What a branch can be judged (`Judgements`) depends on
the branch alone, as the values its conditions look at are inputs; the search of
`selectByScore` is a recursive function over the iterations.

`ArrayListing`, `ArrayProcessor` — the answer to the question for a list is a sequence of
lines with a kind and a number; `ExecuteLLMRequest` is the parser with its fallback, `Clamp`
the limit on its size. What the loop over the lines does with its flag `inList` is stated by
position (`InList`: the last marker at or before a line is `LIST:`), so a list is a function
from the positions that were kept to their lines. `ArrayProcessor` is `Process` on a tree of arrays with the semaphore
of the process, its FIFO queue and the hand-over of permits as in `semaphore.Weighted`. What
a request says of the place of its item is what `DefaultPromptBuilder.Build` reads of a
PromptContext: the first prompt (`first`) and `CurrentGen` (`line`). `context` is the
PromptContext that an array works in, which items without a line of their own share;
`question` and `asked` are the requests sent for the lists and for the items. `AddPrompt` is
two steps, the read of the slice and the write of the longer one, as nothing locks it.

`Judging`, `Epistemic` — `EpstimicValidation` with one step for every read of the shared
`workerCount`, for validations with any numbers of judges at the same time, and the choice of the engine over the assessments in the order of their
arrival. Embeddings have one dimension or, when the call failed, none; `Extent` bounds the
coordinate and `Infinite`, Go's `math.MaxFloat64`, is above every distance that
`MaxWorkers` results within that bound can have.

`ThroughputManager`, `DirectSubmitter`, `ModelCalls` — a field's call of a model through
both retry loops: cooldowns age with `Tick`, the semaphore of a shard is a count and a FIFO
queue, `defModel` is the field of the Definition that carries the model from the provider
to the request. Calls may share a Definition (`DefOf`), as the items of an array do;
`overwritten`, a history variable, holds the models that others wrote there since a call did.

`Generator`, `Serving`, `Streaming`, `Server` — the handlers. A generator is named after the
request that made it and `pool` counts how often it is in the `sync.Pool`. Redis survives
`Crash`, the unrecovered panic of a queued goroutine. `Streaming` is the producer, the
channel and `streamComplete`. The two halves share no state, so a behaviour of `Server`
exercises one of them.

`Conversion`, `ProviderRequest`, `StructuredOutput`, `Gateway` — pure operators over
definitions. A definition is a tree given as a function from paths to nodes: a path is the
sequence of parts (properties, items, hash map, logic and then of the branches) that lead from
the root to a definition inside, and a node is a record of everything else. The recursion of
the converters and of `DefinitionToJSONSchema` is the set of paths it reaches (`Reached`,
`SchemaPaths`) together with what is done at one node (`ModelNode`, `ProtoNode`, `ToSchema`).
Optional parts are sequences of at most one element, integers have `IntBits` bits on the wire.
The body of a request and the template arguments go through `structpb` (`ConvertMapToStruct`,
`ConvertStructToMap`): numbers become doubles, a double that is none a text, a nil map an empty
one, and a map with a value that has no protobuf form nothing at all. Of a `ModelConfig`,
`passed` stands for what every adapter but Gemini passes on as it is (penalties, log
probabilities, reasoning effort) and `unread` for what `BuildRequest` does not read.
What Go's types and the protobuf messages say of a definition (`IsModelNode`, `IsProtoNode`,
`IsTree`, and that `then` is a value in Go and so always there) is assumed of the constants
`Definitions` and `Messages`. `Gateway` takes a definition, or a message of a
foreign client, through the conversion, to the request of the adapter that the environment
selects, and an answer back to the caller or to the error classifier.

`Backoff` — the strategies none, global and per worker and the adaptive limiter. Time is the
number of ticks still to go.

`BatchReqManager` — `AddJob`, `FlushBatch`, `flushRoutine`, `monitorBatchCompletion` and
`Stop`. Up to three goroutines are inside `FlushBatch` at once (`fpc`, `snap`). Upload,
creation, polling and reading of a batch are steps that succeed or fail; between reading
and answering comes the webhook with its retries. `dropped` is a history variable: the jobs
the code gives up without telling anyone. `flushChan` is never written to and is left out.

`JobOrchestrator` — EXTENDS `BatchReqManager`: `SubmitJob`, the channel bridge,
`SubmitJobWithRouting`, the priority queue, `StartManager`, the workers with
`orchestrationJob` and the retry handler, and `Stop`. Sleeping (backoff, limiters, the
retry delay) is a step without a duration. The request limiter cannot fail: its burst is at
least one and its context never ends. An unrecovered panic stops every step (`Crashed`).

`JobService` — the abstract specification: a job is accepted, answered at most once, and
its caller gets that answer. `JobOrchestrator` implements it under the mapping `Service`.

`FieldProcessorProofs`, `GenerationProofs`, `ArrayProcessorProofs`, `FieldValueProofs`,
`ModelCallsProofs`, `ProviderProofs`, `JobOrchestratorProofs`, `ServerProofs` — the theorems
(section 6). `FieldProcessorProofs` has those of `WorkerPool` too, `FieldValueProofs` those of
`FieldPipeline` and `Epistemic`, the two ways in which one field comes to its value, and
`ProviderProofs` those of `Backoff` and `Gateway`; each of the others EXTENDS the module it is
named after.

`MC*` — instances for TLC. Operators commented "Mutant of …" are plausible bugs; each
property is violated when the named definition is replaced by its mutant.

## 3. Runs

| Run | Instance | What it shows |
|---|---|---|
| `worker_pool` | two requests (one with a context that may end and two jobs, one with a plain job), one slot each, two workers, Shutdown | slots, one place, wakeups, abandonment; submissions return and jobs run |
| `fields` | root with batches `{a}`, `{b,d}` and a structured object holding `c`; two shards of one worker; a channel of one; deadline | WaitGroup, joins, batches, no value lost in time, `ReturnsUnlessAbandoned` |
| `scheduler` | orders of up to three keys, every choice of objects, up to three selections (of a name outside, too), batches of two | each key once, dependencies first, independence; a request quotes final values of what it can rely on; the object is assembled whole; the generation ends |
| `orchestrator` | three batch jobs (one cannot be converted, one fills the memory limit), one queued job, two workers, Stop | one place, limits, Stop, refinement of `JobService` |
| `orchestrator_live` | two batch jobs (one cannot be converted), one queued job, a webhook with one retry, no Stop | every job returns unless its batch fails or it waits behind the one that cannot be converted |
| `model_calls` | two calls that share a Definition, two models, one permit; one retry of each kind; contexts that end | permits, the model named, cooldowns, charging of 429s, empty answers, every call returns |
| `epistemic` | two validations with two judges each or with one and two, one with three, and one that takes the count it finds, on one orchestrator; both engines | fan-in equals fan-out where nobody changed the count meanwhile, choices are generated values and the best ones, validations end unless the count was raised under them |
| `arrays` | an array of two arrays, two permits, four listings, deadline | permits, places, lines of items, prompts and lines of requests, everything returns |
| `field_pipeline` | fifteen configurations of loop and scores, three branches, deadline | selection, termination, priority of branches, the field returns |
| `server` | pairs of requests over pool, plugin cache and Redis with two polls and restarts; one stream with a channel of two | sharing of generators, own answers, storage until read, streams |
| `gateway` | definitions with every part set or none and boundary numbers, maps with values of each kind; three providers and their environments; replies of each kind | round trips, requests, settings, schemas, error classes, endpoints |
| `backoff` | two workers under each strategy; backoffs of 1, 2 and 4 ticks, RetryAfter 3 | pauses are honoured, grow only when waited for, end; slow start |

A run checks a type invariant together with the other state invariants of its module under
one name, a conjunction of named parts that can be checked one by one: `FieldInv`,
`ScheduleInv`, `OrchestratorInv`, `CallInv`, `ValidationInv`, `ArrayInv`, `PipelineInv`,
`ServingInv`, `StreamInv`, `BackoffInv`; `PoolServes`, `RetriesSound`, `CooldownsSound`,
`EnginesChooseBest`, `ItemsSound`, `ArraysEnd`, `DeadlineSound`, `StreamEnds`, `StorageSound`,
`ConversionsFaithful` and `RequestsFaithful` are grouped in the same way. The parts are
defined before the conjunction, each with what it says of the code.

The bounds are small because the properties relate at most two or three parties: a
submitter, a worker and a context; a parent, a child and a deadline; a flusher, the bridge
and Stop; two validations and one counter; a poll, another poll and a crash. Two jobs
competing for one slot and two workers sleeping on one condition variable are the least
instance in which a slot or a wakeup can be lost; a batch of two and three batch jobs the
least in which a limit can be overrun by a job added between a snapshot and a re-add;
`MaxBatch = 2` with three keys makes the scan stop at a full batch, at an object and at the
end; two permits and two nested arrays the least in which the outer items hold every permit
the inner ones need; a channel of two and four results the least in which a producer blocks
behind a handler that has left. In `scheduler` the orders are distinct only up to a renaming
of keys, as selections and objects range over all keys. `IntBits = 4` puts 7, 8 and -9 on
both sides of the narrowing. Deadlock is not checked: a system with nothing left to do
stops, and where it stops with work left a liveness property says so.

## 4. Known disagreements

Each ends in a counterexample that a change to the configuration of a run shows, or leaving
out the exception that a property makes for it.

- `MCFieldProcessor.cfg`, `PROPERTY GenerateReturns` under `DeadlineSpec`, with `Jobs = {a, b}`,
  no objects, `ParentOf <- FlatParent`, `Rest <- FlatRest`, `Ordered <- NoOrder`, `Quota = 2`,
  `MaxWorkers = 2`, `ShardTarget = 2`, `LowWorkerFloor = 1`. A field whose context ends in the
  pool is skipped (`worker_pool.go:180`), or dropped after it was reported as submitted
  (`:208`); nobody calls `wg.Done`, so the join and `Generate` wait for ever, although the
  deadline exists "to prevent indefinite hangs" (`default_generator.go:56`).
- `MCFieldProcessor.cfg`, `PROPERTY ReturnsUnlessAbandoned`, with `Jobs = {a, b, o}`, `Objects = {o}`,
  `Structured = {}`, `ParentOf <- NestedParent`, `Rest <- NestedRest`, `Ordered <- NoOrder`,
  `Quota = 3`, `MaxWorkers = 2`, `ShardTarget = 2`, `LowWorkerFloor = 1`. Round-robin sharding puts a child on the
  shard whose only worker is its waiting parent; the test "to avoid deadlock"
  (`generate_object.go:291`) does not see it. With the code's 32 shards it takes a shard all of
  whose workers wait.
- `MCJobOrchestratorLive.cfg`, `PROPERTY EveryJobReturns`, with `Jobs = {q1, q2}`,
  `Batching = FALSE`, `MayStop = TRUE`, `Poison = {}`, `Concurrency = 1`, `ChannelSize = 1`. Stop,
  which "gracefully shuts down" (`orchestrator.go:172`), abandons queued jobs.
- `ValidationReturns` without its exception `Starved`, in the run `epistemic`. A field with two
  judges raises the count (`epstimic/orchestrator.go:44`) while a field with one collects; that
  field waits for a second result for ever, as every validation of the process shares the count.
- `MCFieldScheduler.cfg` with `INVARIANT OrderGuaranteed`. Keys without a selection between
  them run in one concurrent batch; `skills/objectweaver/recipes/context-control.md:9` says
  "Use `processingOrder` to guarantee producer fields run first."
- `MCFieldScheduler.cfg` with `Orders <- RepeatingOrders`, `GenerationEnds`. A
  `processingOrder` that names a key twice keeps the loop at `generate_object.go:457` running
  for ever.
- `ReturnsUnlessBatchFails` without its exception `Blocked`, in the run `orchestrator_live`. A job
  that cannot be converted is put back with the whole batch (`batch_req_manager.go:219`), so that
  every later flush fails as well: it and the jobs behind it are never sent and never answered.
- `MCJobOrchestratorLive.cfg` with `PROPERTY EveryJobReturns`. "Send error to all jobs"
  (`batch_req_manager.go:401`) sends to `Job.Error`, which no submitter creates.
- `MCJobOrchestrator.cfg` with `Vectors = {q1}` and `INVARIANT NoCrash`. A nil or chat result
  for a vector job is dereferenced (`submitJob.go:40`).
- `SendsChosenModel` without its exception for calls in `overwritten`, in the run `model_calls`.
  Items of an array share a Definition (`jobEntryPoint.go:37`); an item that waits for a permit
  sends the model another item chose.

Seen while modelling, without a configuration: the feedback of a loop, which "guides
improvement between iterations" (`jsonSchema/model.go:362`), and the list of an array are put
behind the first prompt of a PromptContext (`recursive_processor.go:323`), and
`DefaultPromptBuilder.Build` reads only the first (`prompt_builder.go:32`), so neither reaches
a request; the body of a request and template arguments with one value that has no protobuf
form are dropped whole and the error is ignored (`requestFormat.go:33`,
`grpcConverison.go:557`); Stop, N, LogitBias, User, Store, Metadata and Stream of a
`ModelConfig` are carried by the conversions but read by no request
(`createOpenAiReq.go:82`), and of the other settings Gemini gets only the temperature and
TopP, each when it is positive (`gemini.go:269`), which leaves out a temperature of 0 that was
asked for; a client that leaves makes `stream.Send` fail, and the producer of its stream stays
blocked on the channel (`streamGenerateObjectV2.go:105`); `ApplyValidation` returns a nil error for a
result the validators reject (`plugin_registry.go:71`); the cache key is the prompt and the
root instruction only, and a part cut off by the deadline is cached as well; a queued
generation that fails stores nothing, so its id answers 204 for ever (`objectGenQueue.go:52`);
a pre-processor error closes a stream without a final chunk and the client is still sent
"Completed"; `StructuredOutput` is carried in neither direction by the gRPC conversion
(`grpcConverison.go:18`); a branch without `then` panics there (`:249`); all levels of an
object share one map of generated values, so equal keys overwrite each other; a missing
first embedding makes k-mean index out of range, and later ones count as zeros
(`k_mean.go:174`); a first iteration whose scores are no numbers has the average NaN and is kept
whatever follows (`recursive_processor.go:294`); the limiter reopens at 30 %, not at the 10 % it logs
(`adpative-rate-limiter.go:83`); `getIntFromEnvWithDefault` returns the number of items
scanned (`batch_webhook_notifier.go:262`); the embedding URL of a local server shorter than
`/chat/completions` panics (`local.go:138`); with `LLM_API_URL` and no `LLM_PROVIDER` calls are
local but batches go to OpenAI (`initialise_batch.go:149`).

## 5. Fairness

Weak fairness of every goroutine that can run: the Go scheduler is preemptive, mutexes are
starvation-free. Strong fairness of a blocked channel send (`Acquire` of the pool): waiting
senders are served in FIFO order; the weighted semaphores of `DirectSubmitter` and
`ArrayProcessor` have their FIFO queue as state and need none. Model calls and jobs'
functions return: the HTTP clients have time-outs. Time passes (`Tick`). In
`JobOrchestrator` a worker that keeps calling the provider is not rate-limited for ever
(`SF` of `Settle`): the code has no bound on rate-limit retries, so liveness needs this
assumption about the provider. The flush ticker keeps firing and a batch ends, with whatever
outcome. A panic under way ends the process (`Crash` in `Serving`). The deadline of a request
comes in `ArrayProcessor` (`End`), where nested arrays depend on it, and in `DeadlineSpec` of
`FieldProcessor`. A stream has no deadline: its producer runs under a background context, so
`StreamEnds` rests on the return of every model call. Elsewhere nobody is obliged to cancel, call Stop or Shutdown, or go away.

## 6. Proofs

Every theorem holds for all values of the constants that satisfy the named assumptions of the
modules: any number of requests, workers, jobs, fields, calls, streams, any limits and any
answers. Finite sets are assumed only where something is counted. TLC evaluates the
assumptions on the instances of the runs, and has checked each inductive invariant on the
instance of its run before it was proved.

| Module | Theorem | States |
|---|---|---|
| `FieldProcessorProofs` | `PoolInvariance` and the five parts of it | `PoolTypeOK`, `SlotAccounting`, `JobInOnePlace`, `AbandonedOnlyIfEnded`, `NoLostWakeup` |
| `FieldProcessorProofs` | `FieldsJoined`, `NothingLost` | `FieldInv`, `NothingLostInTime` |
| `GenerationProofs` | `SchedulesSound`, `QuotesSound`, `AssemblySound` | `ScheduleInv`, `QuotesFinalValues`, `AssembledWhole` |
| `ArrayProcessorProofs` | `ItemPermitsKept`, `ItemsKept` | `ArrayInv`, `ItemsSound` |
| `FieldValueProofs` | `ValidationSound`, `EnginesSound` | `ValidationInv`, `EnginesChooseBest` |
| `FieldValueProofs` | `PipelineSound`, `BestIterationKept`, `FinishedIterationsKept` | `PipelineInv`, `KeepsBest`, `DeadlineKeepsIterations` |
| `ModelCallsProofs` | `PermitsKept`, `LoopsBounded`, `CooldownsKept`, `RetriesKept`, `CooldownsCharged` | `CallInv`, `RetriesSound`, `CooldownsSound` and their parts |
| `ProviderProofs` | `BackoffHonoured` | `BackoffInv` |
| `ProviderProofs` | `ConversionsKept`, `RequestsKept`, `RateLimitsRecognised` | `ConversionsFaithful`, `RequestsFaithful`, `RateLimitSeen` |
| `JobOrchestratorProofs` | `PipelineKept`, `AnsweredOnce`, `LimitsKeptByBatches` | `OrchestratorInv`, `ImplementsJobService`, `BatchWithinLimits` |
| `ServerProofs` | `StreamsComplete`, `StreamsGrow`, `ServedCorrectly`, `StoredResultsStay` | `StreamInv`, `ShownGrows`, `ServingInv`, `StoredUntilRead` |

**The pool.** `SlotAccounting` needs to know that the side of the caller and the side of the
pool agree (`CallMatchesFate`) and that a worker's program counter agrees with the job it
holds (`WorkerMatchesJob`). `NoLostWakeup` says that *some* wakeup is on its way, which one
step can consume; the inductive form `WakeupsCoverBacklog` counts: while a worker of a shard
sleeps, the shard holds at most as many jobs as there are signals still to be sent plus
workers awake. A push adds one to both sides; a signal turns a pending signal into an awake
worker, or finds nobody asleep; a worker parks only when the heap is empty; a pop takes one
from both sides.

**The fields.** The field processor is written with the actions of the pool, so `PoolInv` holds
here too (`PoolWithin`). On top of it `FieldIInv` relates a node's
place in its batches to the states of its children (`Joins`), counts the WaitGroup, and says
where a value that was made is (`Kept`): with its field, on the channel, collected, or the
context has ended. That no value is lost at any depth then follows along the tree:
`TreeAssumption` says that the parents of a field lead to its request.

**Schedule, quotes, assembly.** A batch has only keys whose dependencies are processed. When a
round finds none, the processed keys are closed under the dependencies, hence contain every
resolvable key, so the key that is forced is not resolvable: this is where `Resolvable` as a
least set pays. `GenerationIInv` adds that batches run in turn, that what was quoted of a
settled field is what it has, and that the results have one entry for each value. The
theorems assume `NoRepeats`: with a key named twice the loop does not end (section 4).

**Arrays.** `LoopIInv` ties the items of an array to the index of the loop that starts them,
an array that is an item to the state of that item (idle until it starts), and the sleepers of
the semaphore to the arrays that wait in Acquire, each in the queue once or granted. With it
every step moves a permit between the free ones, a running item and a sleeper. `ItemsIInv`
follows an item from its line to its place: what was taken is at its index, so that as many
taken items as the size means all of them. Of the prompts it says that the PromptContext of an
item is in use only once the item runs, so that the copy made for it overwrites nobody's
(`ContextsKept`); that every context in use, and every slice read by an `AddPrompt` that has not
written yet, has the prompt of the user in front, so that an append that is lost, or loses
another, changes nothing that is read; and that the line of a context in use does not change
(`RequestsKept`). `TreeAssumption` says that arrays form a tree. `ItemsKept` assumes
`AnswersDiffer`, that no two numbers of an answer have the same text: two items may of course be
given equal texts when the model lists one twice.

**Epistemic validation.** `EpistemicIInv` counts, for every validation that nobody has
`disturbed`, that is under whose fan-out or fan-in the shared count has not changed: the count
is the number it asked for (`OwnCount`), it starts its workers in order up to the count
(`StartedInOrder`), and the turns of its collecting loop are as many as the workers whose
result was taken off the channel (`HeardCounted`). There is no assumption on the numbers of
judges. Of a disturbed validation it says only that its workers are started in order and that
each is heard at most once, which is enough for `ChosenWasGenerated`; that it may wait for ever
is a known disagreement (section 4).
What an engine chooses depends only on the assessments that
came in (`EngineIInv`). That the chosen value is the best one rests on the existence of the
least of finitely many measures; that the value closest to the average also has the least sum of
squared distances to the others, on the identity between the two sums, by induction on the length
of the list; that a value with an embedding is preferred, on a bound of the distances.

**One field.** `PipelineIInv` ties the counters of the loop to the iterations (`LoopCounters`),
says that nothing is selected before the loop is over and that no iteration beats what is kept
(`Selection`), and that branches are judged by falling priority until one matches (`JudgedInOrder`). The rest is
about data: weighted sums are whole numbers, by induction on the number of dimensions;
the order of scores as fractions is transitive in the form the search needs, a NaN neither
below nor above anything; and after each turn the search of `selectByScore` holds an iteration
that none so far beats, by the least turn at which it would not.

**Model calls.** Three layers: `LoopInv` bounds the requests by a budget of attempts and
retries; `PermitInv` counts permits and holders and keeps the queue in step with the callers
asleep; `Names` follows the chosen model through the Definition to the request and back to the
cooldown. Calls may share Definitions in any way: from the write of its model until its request
is built, a Definition holds the model of the call or, when others have written it meanwhile,
one that such a call wrote (`MayName`).

**Backoff.** `BackoffIInv` says that what a worker still sleeps covers what is left of the
pause it knows of, unless a longer one overtook it, and that the window in which a pause of
the limiter began is over when the pause is.

**Conversions and requests.** `GatewayInv` says that everything is known from where a behaviour
started: the first definition the server receives is the normal form of the one that was built,
or the message of a client converted (`First`); every later one is the same; what is on the wire
is that one converted; and the request and the error are what `Process` and the classifier make
of it. It is inductive because the conversions of one node come to a normal form after one
trip, for each part of a node (`NodeSent`, `NodeReceived`; `MapFacts` for the maps that go
through `structpb`), and because the recursion reaches every
node of a tree and leaves the paths alone, so that a tree is converted node by node (`TreeSent`,
`TreeReceived`). The parts of `RequestsFaithful` are then facts about operators: what the messages
of `BuildRequest` say, in order, and that the Gemini form, which leaves messages without parts
out, says the same (`FlattenSeq` of a list of lists, by the least position at which it could
differ); that of the settings each form says what it has a place for (`BuiltFacts`); that the paths of a schema are those of the definition, closed under its properties; and
where URLs lead. `PanicAssumption` says that an index out of range is not a URL.

**The job pipeline.** `PipelineIInv` counts the occurrences of a job in every sequence and
variable that can hold one: the sum is one while the job is live and zero otherwise
(`Counted`). Each action moves one occurrence or removes it together with the answer.
`AnsweredOnce` is the refinement of `JobService`: every step changes the status and the answer
of one job at most, and as the abstract specification allows. `LimitsIInv` explains why
uncounted re-adds do not break the limits: jobs are put back only from a batch with a job that
cannot be converted (`Poisoned`), and such a queue is never sent.

**Streams and handlers.** `StreamIInv`: what was put on the channel is accumulated or still
queued, and nothing follows the final chunk. `ServingIInv`: only a request that works has a
generator, and one that nobody has made yet is neither pooled nor used (`Lending`), a result
carries the cache key of the request it is kept for (`KeysAgree`), and a poll that has read a
result finds that one or none when it deletes (`StoredOnce`).

Facts about data need induction, which is done by least elements: a set of natural numbers
that is not empty has a least one (from the well-foundedness of `<`), so the least position at
which a recursive function could differ leads to a contradiction. Recursive functions and
`CHOOSE` of a least or last position replace recursive operators in the modules above.

Only model-checked: liveness under fairness and everything with ENABLED, which are outside the
prover's reach (`ReturnsUnlessAbandoned`, `PausesEnd`, `ReturnsUnlessBatchFails`, `ArraysEnd` and the like,
with the liveness conjuncts of `PoolServes`, `DeadlineSound`, `StreamEnds`, `StorageSound`). Every
safety invariant that a run checks is stated by a theorem.

## 7. What is not modelled

Transport (gzip, HTTP time-outs), generated gRPC code, CORS, logging, text-to-weaver and
scripts: stateless or pure I/O. Of the prompts only which parts of a context `Build` reads is modelled
(`ArrayProcessor`), not their wording, nor the extractors. The map and byte processors
make one call after another without state of their own; the progressive streaming mode is
refused by the factory. The circular definition check walks a decoded tree, which has no
cycles. Durations are kept only where a property depends on them (`Backoff`, cooldowns and
waits of `ModelCalls`). Numeric scores and embeddings keep their order and their ties, not
their floating-point rounding.

## 8. Order of the work, and what is left

The parts were taken in the order of what they can lose: first the pool and the field processor
above it, then the job pipeline with its batches and the refinement of `JobService`, then the
calls of models, the handlers and the streams, then scheduling, arrays, validation, the loop of a
field, and last the two conversions at the ends. Each was modelled, checked and then proved about.

Left to do, should the code change or the tools improve:

1. The disagreements of section 4 are kept as exceptions that a property names, or as changes to
   a configuration. Once one is repaired in the code its exception can go, or the assumption
   `NoRepeats` of the theorems on schedules.
2. Liveness, for all values of the constants, with a prover for ENABLED and fairness.
3. The map and byte processors and the progressive streaming mode, if they come to share state.
