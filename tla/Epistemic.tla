----------------------------- MODULE Epistemic -----------------------------
(***************************************************************************)
(* epstimic/orchestrator.go: a field is generated by several workers and   *)
(* an engine picks the best of their results.  One Orchestrator serves     *)
(* every field of every request of a generator; its workerCount is read    *)
(* when the channel is made, on every turn of the loop that starts the     *)
(* workers and on every turn of the loop that collects, and is written in  *)
(* between, without a lock.                                                *)
(***************************************************************************)
EXTENDS Judging

CONSTANTS
    Fields,              \* concurrent validations
    Judges,              \* Epistemic.Judges of a field's definition, 0 when it is not set
    DefaultWorkerCount,  \* EPSTIMIC_WORKER_COUNT, 3 by default
    Together,            \* sets of fields that are validated at the same time
    Marks,               \* pairs of marks a judge may give
    Embeddings,          \* embeddings a result may have
    MaxWorkers,          \* the most workers of a validation
    Extent               \* bound of the coordinate of an embedding

ASSUME EpistemicAssumption ==
    /\ MaxWorkers \in Nat /\ Judges \in [Fields -> 0 .. MaxWorkers]
    /\ DefaultWorkerCount \in 1 .. MaxWorkers
    /\ \A m \in Marks : m[1] \in Nat /\ m[2] \in Nat
    /\ Extent \in Nat /\ Embeddings \subseteq {<<>>} \cup {<<x>> : x \in -Extent .. Extent}
    /\ Infinite \in Nat /\ 2 * MaxWorkers * Extent < Infinite

VARIABLES
    workerCount,   \* Orchestrator.workerCount
    vpc,           \* where a validation stands
    capacity,      \* capacity of its results channel
    spawned,       \* workers it has started
    state,         \* state[f][w]: a worker of a validation
    collected,     \* turns of the collecting loop
    results,       \* workers whose result was collected without an error
    verdict,       \* the worker whose result was chosen, or what went wrong
    engine,        \* "judge" or "kmean"
    panel,         \* assessments in the order in which they came in
    choices,       \* the choices in the metadata of the result
    disturbed      \* history: validations whose count another one changed under way

judgingVars == <<verdict, panel, choices>>
epistemicVars ==
    <<workerCount, engine, judgingVars, vpc, capacity, spawned, state, collected, results, disturbed>>

Workers == 0 .. MaxWorkers - 1
Undecided == -1

\* GetEpstimicOrchestrator.
Init ==
    /\ workerCount = DefaultWorkerCount
    /\ engine \in {"judge", "kmean"}
    /\ \E together \in Together : vpc = [f \in Fields |-> IF f \in together THEN "start" ELSE "absent"]
    /\ capacity = [f \in Fields |-> 0]
    /\ spawned = [f \in Fields |-> 0]
    /\ state = [f \in Fields |-> [w \in Workers |-> "none"]]
    /\ collected = [f \in Fields |-> 0]
    /\ results = [f \in Fields |-> {}]
    /\ verdict = [f \in Fields |-> Undecided]
    /\ panel = [f \in Fields |-> <<>>]
    /\ choices = [f \in Fields |-> <<>>]
    /\ disturbed = {}

\* The results channel is made for the worker count found.
MakeChannel(f) ==
    /\ vpc[f] = "start"
    /\ capacity' = [capacity EXCEPT ![f] = workerCount]
    /\ vpc' = [vpc EXCEPT ![f] = "judges"]
    /\ UNCHANGED <<workerCount, spawned, state, collected, results, engine, judgingVars, disturbed>>

\* The validations between their fan-out and the end of their fan-in, when the count changes.
Disturbing == IF workerCount' = workerCount THEN {} ELSE {g \in Fields : vpc[g] \in {"spawn", "collect"}}

\* Mutant of SetWorkerCount: the field's own count is ignored by the loop that starts.
SetWorkerCountLate(f) ==
    /\ vpc[f] = "judges"
    /\ vpc' = [vpc EXCEPT ![f] = "spawn"]
    /\ workerCount' = IF Judges[f] > 0 /\ workerCount > Judges[f] THEN workerCount - 1 ELSE workerCount
    /\ disturbed' = disturbed \cup Disturbing
    /\ UNCHANGED <<capacity, spawned, state, collected, results, engine, judgingVars>>

\* The number of judges of this field becomes the count of everybody.
SetWorkerCount(f) ==
    /\ vpc[f] = "judges"
    /\ workerCount' = IF Judges[f] > 0 THEN Judges[f] ELSE workerCount
    /\ disturbed' = disturbed \cup Disturbing
    /\ vpc' = [vpc EXCEPT ![f] = "spawn"]
    /\ UNCHANGED <<capacity, spawned, state, collected, results, engine, judgingVars>>

\* One turn of the fan-out loop.
Spawn(f) ==
    /\ vpc[f] = "spawn"
    /\ IF spawned[f] < workerCount
       THEN /\ state' = [state EXCEPT ![f][spawned[f]] = "generating"]
            /\ spawned' = [spawned EXCEPT ![f] = @ + 1]
            /\ UNCHANGED vpc
       ELSE /\ vpc' = [vpc EXCEPT ![f] = "collect"]
            /\ UNCHANGED <<state, spawned>>
    /\ UNCHANGED <<workerCount, capacity, collected, results, engine, judgingVars, disturbed>>

\* generate returns a value or an error.
Generate(f, w) ==
    /\ state[f][w] = "generating"
    /\ \E r \in {"value", "error"} : state' = [state EXCEPT ![f][w] = r]
    /\ UNCHANGED <<workerCount, vpc, capacity, spawned, collected, results, engine, judgingVars, disturbed>>

InChannel(f) == {w \in Workers : state[f][w] \in {"sentValue", "sentError"}}

\* Mutant of SendResult: a failed worker ends without a message.
SendOnlyValue(f, w) ==
    /\ Cardinality(InChannel(f)) < capacity[f]
    /\ state[f][w] \in {"value", "error"}
    /\ state' = [state EXCEPT ![f][w] = IF @ = "value" THEN "sentValue" ELSE "gone"]
    /\ UNCHANGED <<workerCount, vpc, capacity, spawned, collected, results, engine, judgingVars, disturbed>>

\* The worker sends its result, error or not, when the channel has room.
SendResult(f, w) ==
    /\ Cardinality(InChannel(f)) < capacity[f]
    /\ \/ state[f][w] = "value" /\ state' = [state EXCEPT ![f][w] = "sentValue"]
       \/ state[f][w] = "error" /\ state' = [state EXCEPT ![f][w] = "sentError"]
    /\ UNCHANGED <<workerCount, vpc, capacity, spawned, collected, results, engine, judgingVars, disturbed>>

\* One turn of the fan-in loop: errors are skipped.
Collect(f) ==
    /\ vpc[f] = "collect"
    /\ IF collected[f] < workerCount
       THEN \E w \in InChannel(f) :
              /\ results' = [results EXCEPT ![f] = IF state[f][w] = "sentValue" THEN @ \cup {w} ELSE @]
              /\ state' = [state EXCEPT ![f][w] = IF @ = "sentValue" THEN "used" ELSE "gone"]
              /\ collected' = [collected EXCEPT ![f] = @ + 1]
              /\ UNCHANGED vpc
       ELSE /\ vpc' = [vpc EXCEPT ![f] = "validate"]
            /\ UNCHANGED <<results, state, collected>>
    /\ UNCHANGED <<workerCount, capacity, spawned, engine, judgingVars, disturbed>>

\* What an assessment of a result can be.
Assessments(by, w) ==
    IF by = "judge"
      THEN {[of |-> w, completeness |-> m[1], correctness |-> m[2]] : m \in Marks}
      ELSE {[of |-> w, embedding |-> e] : e \in Embeddings}

\* Lists of assessments of some of the results: an assessment that fails is left out
\* and the others come in in any order.
Panels(by, ws) ==
    UNION {{l \in [1 .. Cardinality(a) -> UNION {Assessments(by, w) : w \in a}] :
               {l[i].of : i \in DOMAIN l} = a} : a \in SUBSET ws}

\* The engine assesses the results on goroutines and picks one.
Validate(f) ==
    /\ vpc[f] = "validate"
    /\ \E list \in Panels(engine, results[f]) :
         /\ panel' = [panel EXCEPT ![f] = list]
         /\ verdict' = [verdict EXCEPT ![f] = Chosen(engine, list)]
         /\ choices' = [choices EXCEPT ![f] =
                          IF Chosen(engine, list) = Panic THEN <<>> ELSE convertToChoices(engine, list)]
    /\ vpc' = [vpc EXCEPT ![f] = "done"]
    /\ UNCHANGED <<workerCount, engine, capacity, spawned, state, collected, results, disturbed>>

Validation(f) == MakeChannel(f) \/ SetWorkerCount(f) \/ Spawn(f) \/ Collect(f) \/ Validate(f)
Worker(f, w) == Generate(f, w) \/ SendResult(f, w)

Next == \E f \in Fields : Validation(f) \/ \E w \in Workers : Worker(f, w)

Spec == Init /\ [][Next]_epistemicVars

\* Goroutines run, and generate returns (ModelCalls!CallReturns).
FairSpec ==
    /\ Spec
    /\ \A f \in Fields : /\ WF_epistemicVars(Validation(f))
                         /\ \A w \in Workers : WF_epistemicVars(Worker(f, w))

-----------------------------------------------------------------------------
\* The values the variables range over.
TypeOK ==
    /\ workerCount \in 1 .. MaxWorkers
    /\ vpc \in [Fields -> {"absent", "start", "judges", "spawn", "collect", "validate", "done"}]
    /\ capacity \in [Fields -> 0 .. MaxWorkers]
    /\ spawned \in [Fields -> 0 .. MaxWorkers]
    /\ state \in [Fields -> [Workers -> {"none", "generating", "value", "error", "sentValue",
                                         "sentError", "used", "gone"}]]
    /\ collected \in [Fields -> 0 .. MaxWorkers]
    /\ results \in [Fields -> SUBSET Workers]
    /\ verdict \in [Fields -> Workers \cup {Undecided, Nobody, Panic}]
    /\ disturbed \subseteq Fields
    /\ \A f \in Fields : {panel[f][i].of : i \in DOMAIN panel[f]} \subseteq Workers
    /\ \A f \in Fields : \A i \in DOMAIN choices[f] :
         choices[f][i].score \in Nat /\ (engine = "kmean" => choices[f][i].score <= 100)

\* Fan-in matches fan-out: unless another validation changed the count meanwhile, as many
\* workers were started as the field asks for when the engine is asked, every one of them
\* has been heard, and none is left behind.  The capacity of the channel does not matter.
FanInMatchesFanOut ==
    \A f \in Fields \ disturbed :
        vpc[f] \in {"validate", "done"} =>
            /\ collected[f] = spawned[f]
            /\ Judges[f] > 0 => spawned[f] = Judges[f]
            /\ \A w \in Workers : state[f][w] \in {"none", "used", "gone"}

\* A value is chosen only among those that the field's own workers generated and that were
\* heard, whatever others did to the count.
ChosenWasGenerated ==
    \A f \in Fields : verdict[f] \in Workers => state[f][verdict[f]] = "used"

\* The judge's choice: nobody has a higher score than the chosen one, and every choice
\* reported with the result agrees with what the judge said of it.
JudgeChoosesBest ==
    \A f \in Fields : engine = "judge" /\ verdict[f] \in Workers =>
        LET a == CHOOSE x \in Range(panel[f]) : x.of = verdict[f]
        IN  \A b \in Range(panel[f]) :
               b.completeness + b.correctness <= a.completeness + a.correctness + 1

Squares(a, list) ==
    LET sum[n \in 0 .. Len(list)] ==
          IF n = 0 THEN 0
          ELSE sum[n - 1] + (a.embedding[1] - list[n].embedding[1]) * (a.embedding[1] - list[n].embedding[1])
    IN  sum[Len(list)]

\* K-mean's choice: when every embedding is there, the one closest to their average is
\* the one with the least sum of squared distances to all the others, and none of the
\* choices reported has a higher score than it.
KMeanChoosesMedoid ==
    \A f \in Fields :
        /\ engine = "kmean" /\ verdict[f] \in Workers
        /\ \A a \in Range(panel[f]) : a.embedding # <<>>
        => LET i == CHOOSE k \in DOMAIN panel[f] : panel[f][k].of = verdict[f]
           IN  \A j \in DOMAIN panel[f] :
                  /\ Squares(panel[f][i], panel[f]) <= Squares(panel[f][j], panel[f])
                  /\ choices[f][j].score <= choices[f][i].score

\* A result whose embedding failed is not chosen over one that has an embedding.
EmbeddedPreferred ==
    \A f \in Fields : engine = "kmean" /\ verdict[f] \in Workers =>
        \A a, b \in Range(panel[f]) :
            a.of = verdict[f] /\ b.embedding # <<>> => a.embedding # <<>>

\* f waits for more workers than it started, as the count was raised after its fan-out.
Starved(f) == f \in disturbed /\ vpc[f] = "collect" /\ spawned[f] < workerCount

\* Every validation ends, unless another one with more judges raised the shared count while
\* it collected: nothing else makes it wait for ever.
ValidationReturns == \A f \in Fields : <>(vpc[f] \in {"done", "absent"}) \/ <>[]Starved(f)

\* A validation that nobody disturbs hears every worker it started and starts as many as its
\* field asks for; the verdict of any is a value that one of its workers generated.
ValidationInv ==
    /\ TypeOK
    /\ FanInMatchesFanOut
    /\ ChosenWasGenerated

\* Each engine chooses what it promises to: the highest mark, or the value closest to the
\* average of the embeddings and never one without an embedding instead.
EnginesChooseBest == JudgeChoosesBest /\ KMeanChoosesMedoid /\ EmbeddedPreferred
=============================================================================
