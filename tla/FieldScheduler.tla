--------------------------- MODULE FieldScheduler ---------------------------
(***************************************************************************)
(* analyzeFieldDependencies (execution/generate_object.go): how the fields *)
(* named in a schema's ProcessingOrder are grouped into batches.  Batches  *)
(* run one after the other; the fields of one batch run concurrently.      *)
(*                                                                         *)
(* The input (the order, the dependencies and the object fields) is chosen *)
(* by Init and never changes; a step is one round of the outer loop.       *)
(***************************************************************************)
EXTENDS Integers, Sequences, FiniteSets, SequencesExt

CONSTANTS
    Keys,       \* keys a ProcessingOrder may name
    Outside,    \* names a SelectFields path may start with that are no such key
    Orders,     \* the ProcessingOrders a schema may have
    MaxSelects, \* bound on the number of dependencies of all keys together
    MaxBatch    \* most fields in a batch (5 in the code)

ASSUME SchedulerAssumption ==
    /\ IsFiniteSet(Keys) /\ Keys \cap Outside = {}
    /\ Orders \subseteq Seq(Keys)
    /\ MaxSelects \in Nat /\ MaxBatch \in Nat \ {0}

VARIABLES
    orderedKeys,   \* the schema's ProcessingOrder
    dependencies,  \* root names of each key's SelectFields, itself left out
    objects,       \* keys whose definition is an object
    processed,     \* keys already put in a batch
    batches        \* the batches so far, each the positions of its keys in the order

vars == <<orderedKeys, dependencies, objects, processed, batches>>

Init ==
    /\ orderedKeys \in Orders
    /\ dependencies \in [Keys -> SUBSET (Keys \cup Outside)]
    /\ \A k \in Keys : k \notin dependencies[k]
    /\ Cardinality({e \in Keys \X (Keys \cup Outside) : e[2] \in dependencies[e[1]]}) <= MaxSelects
    /\ objects \in SUBSET Keys
    /\ processed = {}
    /\ batches = <<>>

Finished == Cardinality(processed) >= Len(orderedKeys)

\* Positions of the order whose key is not processed yet.
Unprocessed == {i \in DOMAIN orderedKeys : orderedKeys[i] \notin processed}
CanProcess(k) == dependencies[k] \subseteq processed

\* The unprocessed positions whose dependencies are met.
Ready == {i \in Unprocessed : CanProcess(orderedKeys[i])}

First(S) == CHOOSE i \in S : \A j \in S : i <= j

\* What the scan of the ready positions takes before it breaks: it stops at an object
\* (taking it only when it comes first) and at a full batch.
Taken ==
    IF orderedKeys[First(Ready)] \in objects THEN {First(Ready)}
    ELSE {i \in Ready :
            LET before == {j \in Ready : j < i}
            IN  /\ Cardinality(before) < MaxBatch
                /\ \A j \in before \cup {i} : orderedKeys[j] \notin objects}

KeysAt(S) == {orderedKeys[i] : i \in S}

\* A round that ends with these positions in a batch.
Schedule(S) ==
    /\ batches' = Append(batches, S)
    /\ processed' = processed \cup KeysAt(S)
    /\ UNCHANGED <<orderedKeys, dependencies, objects>>

\* A round that finds a batch.
Batch == ~Finished /\ Ready # {} /\ Schedule(Taken)

\* Mutants of ForceKey: the first key is forced even though another one is ready; nothing
\* is forced.
ForceHead ==
    /\ ~Finished /\ Unprocessed # {} /\ ~CanProcess(orderedKeys[First(Unprocessed)])
    /\ Schedule({First(Unprocessed)})

ForceNever == FALSE /\ UNCHANGED vars

\* A round that finds none takes the first unprocessed key regardless ("circular or
\* unresolvable dependency, processing anyway"), if there is one.
ForceKey ==
    /\ ~Finished
    /\ Ready = {} /\ Unprocessed # {}
    /\ Schedule({First(Unprocessed)})

Next == Batch \/ ForceKey

Spec == Init /\ [][Next]_vars

-----------------------------------------------------------------------------
\* The values the variables range over.
TypeOK ==
    /\ orderedKeys \in Seq(Keys)
    /\ dependencies \in [Keys -> SUBSET (Keys \cup Outside)]
    /\ objects \subseteq Keys
    /\ processed \subseteq Keys
    /\ batches \in Seq(SUBSET DOMAIN orderedKeys)

\* The keys of the first n batches.
Scheduled(n) == UNION {KeysAt(batches[i]) : i \in 1 .. n}

\* Every key of the order is scheduled exactly once: no batch names a key twice or repeats
\* one of an earlier batch, processed is what has been scheduled, and at the end nothing of
\* the order is left out.
ScheduledOnce ==
    /\ processed = Scheduled(Len(batches))
    /\ \A i \in DOMAIN batches :
         /\ batches[i] # {}
         /\ \A m, n \in batches[i] : orderedKeys[m] = orderedKeys[n] => m = n
         /\ KeysAt(batches[i]) \cap Scheduled(i - 1) = {}
    /\ Finished => processed = ToSet(orderedKeys)

\* The keys whose dependencies can be met, following them never leaves the order and never
\* runs into a cycle: the least set that has every key of the order whose dependencies it has.
Resolvable ==
    {k \in Keys :
        \A S \in SUBSET Keys :
            (\A l \in ToSet(orderedKeys) : dependencies[l] \subseteq S => l \in S) => k \in S}

\* A field with resolvable dependencies runs in a later batch than every field it
\* selects from, so it sees their generated values.
DependenciesFirst ==
    \A i \in DOMAIN batches :
        \A k \in KeysAt(batches[i]) \cap Resolvable :
            dependencies[k] \subseteq Scheduled(i - 1)

\* Fields that run concurrently do not select from one another, resolvable or not, and
\* an object, which itself waits for pool workers, never shares a batch.
BatchIndependent ==
    \A i \in DOMAIN batches :
        \A k, l \in KeysAt(batches[i]) :
            /\ l \notin dependencies[k]
            /\ k \in objects => l = k

\* What the documentation says of processingOrder: a field listed before another one
\* runs first.  The code does not keep it (README, known disagreements).
OrderGuaranteed ==
    \A i \in DOMAIN batches :
        \A m, n \in DOMAIN orderedKeys :
            m < n /\ orderedKeys[n] \in KeysAt(batches[i])
                => orderedKeys[m] \in Scheduled(i - 1)

\* The schedule: every key once, after what it selects from where that is possible, and
\* a batch holds no two keys that depend on each other and no object beside another key.
ScheduleInv ==
    /\ TypeOK
    /\ ScheduledOnce
    /\ DependenciesFirst
    /\ BatchIndependent
=============================================================================
