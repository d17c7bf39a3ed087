----------------------------- MODULE Generation -----------------------------
(***************************************************************************)
(* An object from its schedule to its assembly.  The batches of the        *)
(* FieldScheduler run one after the other, then the fields outside the     *)
(* ProcessingOrder; the fields of a batch run concurrently, quote what     *)
(* they select from the execution context they share (domain/              *)
(* task_executor.go), and put their values into it.  The results are       *)
(* assembled in the order of their arrival.                                *)
(*                                                                         *)
(* A field selects the values of its dependencies: the part of an object   *)
(* or of the items of a list, the whole of anything else.  How a batch is  *)
(* started, joined and cut off by a deadline is in FieldProcessor.         *)
(***************************************************************************)
EXTENDS FieldScheduler, Assembly

CONSTANTS
    Lists,   \* keys whose definition is an array, unless it is an object
    Part     \* the key of the one field inside an object or an item

ASSUME GenerationAssumption == Lists \subseteq Keys /\ Part \notin Keys

VARIABLES
    turn,       \* index of the batch that runs; one past the last are the other fields
    field,      \* where a field stands: "idle", "asked", "made" or "none"
    quoted,     \* what the request of a field quoted
    generated,  \* generatedValues of the execution context
    results,    \* results collected
    object      \* the assembled object

generationVars == <<turn, field, quoted, generated, results, object>>

GenerationInit ==
    /\ Init
    /\ turn = 1
    /\ field = [k \in Keys |-> "idle"]
    /\ quoted = [k \in Keys |-> EmptyMap]
    /\ generated = EmptyMap
    /\ results = {}
    /\ object = <<>>

Analyse == Next /\ UNCHANGED generationVars

Remaining == Keys \ ToSet(orderedKeys)
Running ==
    CASE ~Finished \/ turn > Len(batches) + 1 -> {}
      [] Finished /\ turn = Len(batches) + 1 -> Remaining
      [] OTHER -> KeysAt(batches[turn])
Settled(k) == field[k] \in {"made", "none"}

Shape(k) == CASE k \in objects -> "map" [] k \in Lists \ objects -> "list" [] OTHER -> "leaf"
SelectFields(k) ==
    {IF d \in Keys /\ Shape(d) # "leaf" THEN <<d, Part>> ELSE <<d>> : d \in dependencies[k]}

\* The request of a field is built from a copy of the generated values.
Ask(k) ==
    /\ k \in Running /\ field[k] = "idle"
    /\ field' = [field EXCEPT ![k] = "asked"]
    /\ quoted' = [quoted EXCEPT ![k] = Quoted(SelectFields(k), generated)]
    /\ UNCHANGED <<vars, turn, generated, results, object>>

Whole(k) == [p \in {Part} |-> Leaf(k)]
Values(k) ==
    CASE Shape(k) = "map" -> {MapOf(EmptyMap), MapOf(Whole(k))}
      [] Shape(k) = "list" -> {ListOf(<<MapOf(Whole(k)), MapOf(EmptyMap)>>)}
      [] OTHER -> {Leaf(k)}

\* SetGeneratedValue, also for the field inside an object when the object was made field by
\* field: every level shares one context.
SetGenerated(k, v, byField) ==
    LET inside == IF byField THEN Put(generated, Part, v.of[Part]) ELSE generated
    IN  Put(inside, k, v)

\* The field is done: without a value (an object made field by field always has one), or
\* with a value, which is set in the context and collected.
Made(k) ==
    /\ field[k] = "asked"
    /\ \/ /\ k \notin objects
          /\ field' = [field EXCEPT ![k] = "none"]
          /\ UNCHANGED <<generated, results>>
       \/ \E v \in Values(k), byField \in BOOLEAN :
            /\ byField => IsMap(v) /\ Part \in DOMAIN v.of
            /\ field' = [field EXCEPT ![k] = "made"]
            /\ generated' = SetGenerated(k, v, byField)
            /\ results' = results \cup {[path |-> <<k>>, value |-> v]}
    /\ UNCHANGED <<vars, turn, quoted, object>>

\* Mutant of NextBatch: a batch does not wait for the one before it.
NextBatchAtOnce ==
    /\ Finished /\ turn <= Len(batches)
    /\ \A k \in Running : field[k] # "idle"
    /\ turn' = turn + 1
    /\ UNCHANGED <<vars, field, quoted, generated, results, object>>

NextBatch ==
    /\ Finished /\ turn <= Len(batches)
    /\ \A k \in Running : Settled(k)
    /\ turn' = turn + 1
    /\ UNCHANGED <<vars, field, quoted, generated, results, object>>

\* The results may arrive in any order their batches allow.
Finish ==
    /\ Finished /\ turn = Len(batches) + 1
    /\ \A k \in Running : Settled(k)
    /\ turn' = turn + 1
    /\ \E order \in SetToSeqs(results) : object' = Assemble(order)
    /\ UNCHANGED <<vars, field, quoted, generated, results>>

GenerationNext ==
    \/ Analyse
    \/ \E k \in Keys : Ask(k) \/ Made(k)
    \/ NextBatch \/ Finish

allVars == <<vars, generationVars>>
GenerationSpec == GenerationInit /\ [][GenerationNext]_allVars

\* Sequential code, or goroutines that can run, and a model that answers.
FairGenerationSpec == GenerationSpec /\ WF_allVars(GenerationNext)

-----------------------------------------------------------------------------
\* What a field may rely on: with resolvable dependencies, all it selects; outside the
\* order, what it selects from the order.
ReliesOn(k) ==
    CASE k \in Resolvable -> dependencies[k]
      [] k \in Remaining -> dependencies[k] \cap ToSet(orderedKeys)
      [] OTHER -> {}

\* What there is to quote of a field in the end: the leaf it made, itself, inside an object
\* that has one, or of every item of a list that has one.
Quotable(k) == field[k] = "made" /\ (k \in objects => generated[k] = MapOf(Whole(k)))
Quote(k) == IF Shape(k) = "list" THEN ListOf(<<Leaf(k)>>) ELSE Leaf(k)

\* No field works from a stale or missing value: what its request quoted of the fields it may
\* rely on is what these fields have in the object in the end, and nothing of it was left out.
QuotesFinalValues ==
    \A k \in Keys : field[k] # "idle" =>
        LET relied == ReliesOn(k)
        IN  \A p \in SelectFields(k) :
              p[1] \in relied =>
                  /\ Settled(p[1])
                  /\ Quotable(p[1]) <=> p \in DOMAIN quoted[k]
                  /\ Quotable(p[1]) => quoted[k][p] = Quote(p[1])

\* The object holds exactly the values that were made, under their keys, whatever the order
\* of the results, and every field was asked for.
AssembledWhole ==
    turn = Len(batches) + 2 =>
        /\ \A k \in Keys : Settled(k)
        /\ object # <<>>
        /\ DOMAIN object[1] = {k \in Keys : field[k] = "made"}
        /\ \A k \in DOMAIN object[1] : object[1][k] = generated[k]

\* The analysis and the generation come to an end.
GenerationEnds == <>(Finished /\ turn = Len(batches) + 2)
=============================================================================
