-------------------------- MODULE FieldValueProofs --------------------------
(***************************************************************************)
(* Proofs about how the value of a field is chosen: Epistemic, for any     *)
(* fields, any numbers of workers, marks and embeddings, and               *)
(* FieldPipeline, for any definition, branches and answers of the model.   *)
(* For each, an inductive invariant, and on the way lemmas on the choices  *)
(* themselves: least of finitely many measures, sums, fractions, the       *)
(* search of selectByScore.  Induction over data is by a least counter-    *)
(* example (SmallestOf).                                                   *)
(***************************************************************************)
EXTENDS FieldPipeline, Epistemic, FiniteSetTheorems, FunctionTheorems, WellFoundedInduction, TLAPS

-----------------------------------------------------------------------------
(* Fan-out and fan-in. *)

WorkerStates == {"none", "generating", "value", "error", "sentValue", "sentError", "used", "gone"}
Counting(f) == vpc[f] \in {"spawn", "collect"}
Counted(f) == vpc[f] \in {"spawn", "collect", "validate", "done"}
Heard(f) == {w \in Workers : state[f][w] \in {"used", "gone"}}

FlowTypeOK ==
    /\ workerCount \in 1 .. MaxWorkers
    /\ vpc \in [Fields -> {"absent", "start", "judges", "spawn", "collect", "validate", "done"}]
    /\ capacity \in [Fields -> 0 .. MaxWorkers]
    /\ spawned \in [Fields -> 0 .. MaxWorkers]
    /\ state \in [Fields -> [Workers -> WorkerStates]]
    /\ collected \in [Fields -> 0 .. MaxWorkers]
    /\ results \in [Fields -> SUBSET Workers]
    /\ engine \in {"judge", "kmean"}
    /\ disturbed \subseteq Fields
    /\ verdict = [f \in Fields |-> verdict[f]]
    /\ panel = [f \in Fields |-> panel[f]]
    /\ choices = [f \in Fields |-> choices[f]]

\* Whoever has set the count, and is not disturbed, reads the number of its own judges.
OwnCount == \A f \in Fields \ disturbed : Counting(f) /\ Judges[f] > 0 => workerCount = Judges[f]

\* The workers are started in order, and those of a validation that is not disturbed are as
\* many as the count says.
StartedInOrder ==
    \A f \in Fields :
        /\ \A w \in Workers : state[f][w] # "none" <=> w < spawned[f]
        /\ ~Counted(f) => spawned[f] = 0
        /\ f \notin disturbed =>
              /\ vpc[f] = "spawn" => spawned[f] <= workerCount
              /\ vpc[f] = "collect" => spawned[f] = workerCount
              /\ vpc[f] \in {"validate", "done"} /\ Judges[f] > 0 => spawned[f] = Judges[f]

\* Every turn of the collecting loop hears one worker more.
HeardCounted ==
    \A f \in Fields :
        /\ collected[f] = Cardinality(Heard(f))
        /\ results[f] = {w \in Workers : state[f][w] = "used"}
        /\ vpc[f] \notin {"collect", "validate", "done"} => collected[f] = 0
        /\ f \notin disturbed =>
              /\ vpc[f] = "collect" => collected[f] <= workerCount
              /\ vpc[f] \in {"validate", "done"} => collected[f] = spawned[f]

\* What the engine said was said of a list of assessments of the results.
Decided ==
    \A f \in Fields :
        IF vpc[f] = "done"
          THEN /\ panel[f] \in Panels(engine, results[f])
               /\ verdict[f] = Chosen(engine, panel[f])
               /\ choices[f] = IF verdict[f] = Panic THEN <<>> ELSE convertToChoices(engine, panel[f])
          ELSE verdict[f] = Undecided /\ panel[f] = <<>> /\ choices[f] = <<>>

\* The part that does not depend on the counting, and the whole.
EngineIInv == FlowTypeOK /\ Decided
EpistemicIInv == EngineIInv /\ OwnCount /\ StartedInOrder /\ HeardCounted

\* The count is a number of workers.
LEMMA CountType ==
    ASSUME EpistemicIInv
    PROVE  workerCount \in 1 .. MaxWorkers /\ MaxWorkers \in Nat
BY EpistemicAssumption DEF EpistemicIInv, EngineIInv, FlowTypeOK

\* The workers are finitely many.
LEMMA WorkersFinite == IsFiniteSet(Workers) /\ Workers \subseteq Nat /\ MaxWorkers \in Nat
<1>1. MaxWorkers \in Nat
  BY EpistemicAssumption
<1>2. IsFiniteSet(0 .. MaxWorkers - 1)
  BY <1>1, FS_Interval
<1>3. QED BY <1>1, <1>2 DEF Workers

\* Nobody has been started or heard at first.
LEMMA EpistemicStarts ==
    ASSUME Init
    PROVE  EpistemicIInv
<1> USE EpistemicAssumption
<1>1. PICK together \in Together : vpc = [f \in Fields |-> IF f \in together THEN "start" ELSE "absent"]
  BY DEF Init
<1>2. \A f \in Fields : vpc[f] = IF f \in together THEN "start" ELSE "absent"
  BY <1>1
<1>3. FlowTypeOK
  BY <1>1 DEF Init, FlowTypeOK, WorkerStates
<1>4. OwnCount
  <2>1. \A f \in Fields : ~Counting(f)
    BY <1>2 DEF Counting
  <2>2. QED BY <2>1 DEF OwnCount
<1>5. StartedInOrder
  <2>1. \A f \in Fields : spawned[f] = 0 /\ vpc[f] \in {"start", "absent"}
    BY <1>2 DEF Init
  <2>2. \A f \in Fields, w \in Workers : state[f][w] = "none" /\ ~(w < 0)
    BY WorkersFinite DEF Init
  <2>3. QED BY <2>1, <2>2 DEF StartedInOrder
<1>6. HeardCounted
  <2>1. \A f \in Fields : collected[f] = 0 /\ results[f] = {} /\ vpc[f] \in {"start", "absent"}
    BY <1>2 DEF Init
  <2>2. \A f \in Fields, w \in Workers : state[f][w] = "none"
    BY DEF Init
  <2>3. \A f \in Fields : Heard(f) = {}
    BY <2>2 DEF Heard
  <2>4. Cardinality({}) = 0
    BY FS_EmptySet
  <2>5. QED BY <2>1, <2>2, <2>3, <2>4 DEF HeardCounted
<1>7. Decided
  <2>1. \A f \in Fields : vpc[f] # "done" /\ verdict[f] = Undecided /\ panel[f] = <<>> /\ choices[f] = <<>>
    BY <1>2 DEF Init
  <2>2. QED BY <2>1 DEF Decided
<1>8. QED BY <1>3, <1>4, <1>5, <1>6, <1>7 DEF EpistemicIInv, EngineIInv

\* The parts of the invariant that only a change of what they are about can break.
LEMMA DecidedKept ==
    ASSUME EngineIInv, UNCHANGED <<engine, judgingVars>>,
           \A f \in Fields : /\ vpc'[f] = "done" <=> vpc[f] = "done"
                             /\ vpc[f] = "done" => results'[f] = results[f]
    PROVE  Decided'
BY DEF EngineIInv, Decided, judgingVars

\* A step that leaves the count alone keeps OwnCount.
LEMMA OwnCountKept ==
    ASSUME EpistemicIInv, UNCHANGED <<workerCount, disturbed>>,
           \A f \in Fields : Counting(f)' => Counting(f)
    PROVE  OwnCount'
BY DEF EpistemicIInv, OwnCount

\* Nor does it change which workers were started.
LEMMA StartedKept ==
    ASSUME EpistemicIInv, UNCHANGED <<workerCount, disturbed, spawned, state>>,
           \A f \in Fields : vpc'[f] # vpc[f] =>
              \/ vpc[f] = "start" /\ vpc'[f] = "judges"
              \/ vpc[f] = "spawn" /\ vpc'[f] = "collect" /\ (f \notin disturbed => spawned[f] = workerCount)
              \/ vpc[f] = "collect" /\ vpc'[f] = "validate"
              \/ vpc[f] = "validate" /\ vpc'[f] = "done"
    PROVE  StartedInOrder'
<1> SUFFICES ASSUME NEW f \in Fields
             PROVE  /\ \A w \in Workers : state[f][w] # "none" <=> w < spawned[f]
                    /\ ~Counted(f)' => spawned[f] = 0
                    /\ f \notin disturbed =>
                          /\ vpc'[f] = "spawn" => spawned[f] <= workerCount
                          /\ vpc'[f] = "collect" => spawned[f] = workerCount
                          /\ vpc'[f] \in {"validate", "done"} /\ Judges[f] > 0 => spawned[f] = Judges[f]
  BY DEF StartedInOrder, Counted
<1>1. f \notin disturbed /\ vpc[f] = "collect" /\ Judges[f] > 0 => workerCount = Judges[f]
  BY DEF EpistemicIInv, OwnCount, Counting
<1>2. QED BY <1>1 DEF EpistemicIInv, StartedInOrder, Counted

\* Nor whose results were heard.
LEMMA HeardKept ==
    ASSUME EpistemicIInv, UNCHANGED <<workerCount, disturbed, spawned, collected, state, results>>,
           \A f \in Fields : vpc'[f] # vpc[f] =>
              \/ vpc[f] = "start" /\ vpc'[f] = "judges"
              \/ vpc[f] = "spawn" /\ vpc'[f] = "collect"
              \/ vpc[f] = "collect" /\ vpc'[f] = "validate" /\ (f \notin disturbed => collected[f] = workerCount)
              \/ vpc[f] = "validate" /\ vpc'[f] = "done"
    PROVE  HeardCounted'
<1> SUFFICES ASSUME NEW f \in Fields
             PROVE  /\ collected[f] = Cardinality(Heard(f))
                    /\ results[f] = {w \in Workers : state[f][w] = "used"}
                    /\ vpc'[f] \notin {"collect", "validate", "done"} => collected[f] = 0
                    /\ f \notin disturbed =>
                          /\ vpc'[f] = "collect" => collected[f] <= workerCount
                          /\ vpc'[f] \in {"validate", "done"} => collected[f] = spawned[f]
  BY DEF HeardCounted, Heard
<1>1. f \notin disturbed /\ vpc[f] = "collect" => spawned[f] = workerCount
  BY DEF EpistemicIInv, StartedInOrder
<1>2. workerCount \in 1 .. MaxWorkers /\ MaxWorkers \in Nat
  BY CountType
<1>3. QED BY <1>1, <1>2 DEF EpistemicIInv, HeardCounted

\* A verdict is given once, on a list of assessments of the results, and the numbers of
\* workers stay within the bound.
LEMMA EngineStep == EngineIInv /\ [Next]_epistemicVars => EngineIInv'
<1> SUFFICES ASSUME EngineIInv, [Next]_epistemicVars PROVE EngineIInv'
  OBVIOUS
<1> USE DEF EngineIInv
<1>0. MaxWorkers \in Nat /\ workerCount \in 1 .. MaxWorkers
  BY WorkersFinite DEF FlowTypeOK
<1>1. ASSUME NEW f \in Fields, MakeChannel(f) PROVE EngineIInv'
  <2>1. FlowTypeOK'
    BY <1>0, <1>1 DEF MakeChannel, judgingVars, FlowTypeOK
  <2>2. \A g \in Fields : vpc'[g] = IF g = f THEN "judges" ELSE vpc[g]
    BY <1>1 DEF MakeChannel, FlowTypeOK
  <2>3. Decided'
    BY <1>1, <2>2, DecidedKept DEF MakeChannel
  <2>4. QED BY <2>1, <2>3
<1>2. ASSUME NEW f \in Fields, SetWorkerCount(f) PROVE EngineIInv'
  <2>1. Judges[f] \in 0 .. MaxWorkers
    BY EpistemicAssumption
  <2>2. workerCount' \in 1 .. MaxWorkers
    BY <1>0, <1>2, <2>1 DEF SetWorkerCount
  <2>3. FlowTypeOK'
    BY <1>2, <2>2 DEF SetWorkerCount, Disturbing, judgingVars, FlowTypeOK
  <2>4. \A g \in Fields : vpc'[g] = IF g = f THEN "spawn" ELSE vpc[g]
    BY <1>2 DEF SetWorkerCount, FlowTypeOK
  <2>5. Decided'
    BY <1>2, <2>4, DecidedKept DEF SetWorkerCount
  <2>6. QED BY <2>3, <2>5
<1>3. ASSUME NEW f \in Fields, Spawn(f) PROVE EngineIInv'
  <2>1. vpc[f] = "spawn" /\ UNCHANGED <<workerCount, capacity, collected, results, engine, judgingVars, disturbed>>
    BY <1>3 DEF Spawn
  <2>2. CASE spawned[f] < workerCount
    <3> DEFINE n == spawned[f]
    <3>1. /\ state' = [state EXCEPT ![f][n] = "generating"]
          /\ spawned' = [spawned EXCEPT ![f] = n + 1]
          /\ vpc' = vpc
      BY <1>3, <2>2 DEF Spawn
    <3>2. n \in 0 .. MaxWorkers
      BY DEF FlowTypeOK
    <3>3. n \in Workers /\ n + 1 \in 0 .. MaxWorkers
      BY <1>0, <2>2, <3>2 DEF Workers
    <3>4. state' \in [Fields -> [Workers -> WorkerStates]]
      BY <3>1, <3>3 DEF FlowTypeOK, WorkerStates
    <3>5. spawned' \in [Fields -> 0 .. MaxWorkers]
      BY <3>1, <3>3 DEF FlowTypeOK
    <3>6. FlowTypeOK'
      BY <2>1, <3>1, <3>4, <3>5 DEF FlowTypeOK, judgingVars
    <3>7. QED BY <2>1, <3>1, <3>6, DecidedKept
  <2>3. CASE ~(spawned[f] < workerCount)
    <3>1. vpc' = [vpc EXCEPT ![f] = "collect"] /\ UNCHANGED <<state, spawned>>
      BY <1>3, <2>3 DEF Spawn
    <3>2. FlowTypeOK'
      BY <2>1, <3>1 DEF FlowTypeOK, judgingVars
    <3>3. \A g \in Fields : vpc'[g] = IF g = f THEN "collect" ELSE vpc[g]
      BY <3>1 DEF FlowTypeOK
    <3>4. QED BY <2>1, <3>2, <3>3, DecidedKept
  <2>4. QED BY <2>2, <2>3
<1>4. ASSUME NEW f \in Fields, NEW w \in Workers, Worker(f, w) PROVE EngineIInv'
  <2>1. UNCHANGED <<workerCount, vpc, capacity, spawned, collected, results, engine, judgingVars, disturbed>>
    BY <1>4 DEF Worker, Generate, SendResult
  <2>2. PICK s \in {"value", "error", "sentValue", "sentError"} : state' = [state EXCEPT ![f][w] = s]
    BY <1>4 DEF Worker, Generate, SendResult
  <2>3. state' \in [Fields -> [Workers -> WorkerStates]]
    BY <2>2 DEF FlowTypeOK, WorkerStates
  <2>4. FlowTypeOK'
    BY <2>1, <2>3 DEF FlowTypeOK, judgingVars
  <2>5. QED BY <2>1, <2>4, DecidedKept
<1>5. ASSUME NEW f \in Fields, Collect(f) PROVE EngineIInv'
  <2>1. vpc[f] = "collect" /\ UNCHANGED <<workerCount, capacity, spawned, engine, judgingVars, disturbed>>
    BY <1>5 DEF Collect
  <2>2. CASE collected[f] < workerCount
    <3>1. PICK w \in InChannel(f) :
             /\ results' = [results EXCEPT ![f] = IF state[f][w] = "sentValue" THEN results[f] \cup {w} ELSE results[f]]
             /\ state' = [state EXCEPT ![f][w] = IF state[f][w] = "sentValue" THEN "used" ELSE "gone"]
             /\ collected' = [collected EXCEPT ![f] = collected[f] + 1]
             /\ vpc' = vpc
      BY <1>5, <2>2 DEF Collect
    <3>2. w \in Workers
      BY <3>1 DEF InChannel
    <3>3. state' \in [Fields -> [Workers -> WorkerStates]]
      BY <3>1, <3>2 DEF FlowTypeOK, WorkerStates
    <3>4. collected[f] \in 0 .. MaxWorkers
      BY DEF FlowTypeOK
    <3>5. collected[f] + 1 \in 0 .. MaxWorkers
      BY <1>0, <2>2, <3>4
    <3>6. collected' \in [Fields -> 0 .. MaxWorkers]
      BY <3>1, <3>5 DEF FlowTypeOK
    <3>7. results' \in [Fields -> SUBSET Workers]
      BY <3>1, <3>2 DEF FlowTypeOK
    <3>8. FlowTypeOK'
      BY <2>1, <3>1, <3>3, <3>6, <3>7 DEF FlowTypeOK, judgingVars
    <3>9. \A g \in Fields : vpc[g] = "done" => results'[g] = results[g]
      BY <2>1, <3>1 DEF FlowTypeOK
    <3>10. QED BY <2>1, <3>1, <3>8, <3>9, DecidedKept
  <2>3. CASE ~(collected[f] < workerCount)
    <3>1. vpc' = [vpc EXCEPT ![f] = "validate"] /\ UNCHANGED <<state, collected, results>>
      BY <1>5, <2>3 DEF Collect
    <3>2. FlowTypeOK'
      BY <2>1, <3>1 DEF FlowTypeOK, judgingVars
    <3>3. \A g \in Fields : vpc'[g] = IF g = f THEN "validate" ELSE vpc[g]
      BY <3>1 DEF FlowTypeOK
    <3>4. QED BY <2>1, <3>1, <3>2, <3>3, DecidedKept
  <2>4. QED BY <2>2, <2>3
<1>6. ASSUME NEW f \in Fields, Validate(f) PROVE EngineIInv'
  <2>1. /\ vpc[f] = "validate" /\ vpc' = [vpc EXCEPT ![f] = "done"]
        /\ UNCHANGED <<workerCount, engine, capacity, spawned, state, collected, results, disturbed>>
    BY <1>6 DEF Validate
  <2>2. PICK list \in Panels(engine, results[f]) :
           /\ panel' = [panel EXCEPT ![f] = list]
           /\ verdict' = [verdict EXCEPT ![f] = Chosen(engine, list)]
           /\ choices' = [choices EXCEPT ![f] =
                            IF Chosen(engine, list) = Panic THEN <<>> ELSE convertToChoices(engine, list)]
    BY <1>6 DEF Validate
  <2>3. \A g \in Fields : vpc'[g] = IF g = f THEN "done" ELSE vpc[g]
    BY <2>1 DEF FlowTypeOK
  <2>4. FlowTypeOK'
    <3>1. vpc' \in [Fields -> {"absent", "start", "judges", "spawn", "collect", "validate", "done"}]
      BY <2>1 DEF FlowTypeOK
    <3>2. /\ panel' = [g \in Fields |-> panel'[g]]
          /\ verdict' = [g \in Fields |-> verdict'[g]]
          /\ choices' = [g \in Fields |-> choices'[g]]
      BY <2>2 DEF FlowTypeOK
    <3>3. QED BY <2>1, <3>1, <3>2 DEF FlowTypeOK
  <2>5. ASSUME NEW g \in Fields
        PROVE  IF vpc'[g] = "done"
                 THEN /\ panel'[g] \in Panels(engine, results[g])
                      /\ verdict'[g] = Chosen(engine, panel'[g])
                      /\ choices'[g] = IF verdict'[g] = Panic THEN <<>> ELSE convertToChoices(engine, panel'[g])
                 ELSE verdict'[g] = Undecided /\ panel'[g] = <<>> /\ choices'[g] = <<>>
    <3>1. CASE g = f
      <4>1. /\ panel'[f] = list /\ verdict'[f] = Chosen(engine, list)
            /\ choices'[f] = IF Chosen(engine, list) = Panic THEN <<>> ELSE convertToChoices(engine, list)
        BY <2>2 DEF FlowTypeOK
      <4>2. QED BY <2>2, <2>3, <3>1, <4>1
    <3>2. CASE g # f
      <4>1. panel'[g] = panel[g] /\ verdict'[g] = verdict[g] /\ choices'[g] = choices[g] /\ vpc'[g] = vpc[g]
        BY <2>2, <2>3, <3>2 DEF FlowTypeOK
      <4>2. QED BY <4>1 DEF Decided
    <3>3. QED BY <3>1, <3>2
  <2>6. Decided'
    BY <2>1, <2>5 DEF Decided
  <2>7. QED BY <2>4, <2>6
<1>7. CASE UNCHANGED epistemicVars
  <2>1. FlowTypeOK'
    BY <1>7 DEF epistemicVars, judgingVars, FlowTypeOK
  <2>2. Decided'
    BY <1>7, DecidedKept DEF epistemicVars
  <2>3. QED BY <2>1, <2>2
<1>8. QED BY <1>1, <1>2, <1>3, <1>4, <1>5, <1>6, <1>7 DEF Next, Validation

\* What is left of the invariant once EngineStep has spoken.
CountsIInv == OwnCount /\ StartedInOrder /\ HeardCounted

\* make(chan, workerCount): nothing is started yet.
LEMMA MakeChannelKeeps ==
    ASSUME EpistemicIInv, NEW f \in Fields, MakeChannel(f)
    PROVE  CountsIInv'
<1>2. \A g \in Fields : vpc'[g] = IF g = f THEN "judges" ELSE vpc[g]
  BY DEF MakeChannel, EpistemicIInv, EngineIInv, FlowTypeOK
<1>3. vpc[f] = "start"
  BY DEF MakeChannel
<1>4. OwnCount'
  BY <1>2, <1>3, OwnCountKept DEF MakeChannel, Counting
<1>5. StartedInOrder'
  BY <1>2, <1>3, StartedKept DEF MakeChannel
<1>6. HeardCounted'
  BY <1>2, <1>3, HeardKept DEF MakeChannel
<1>8. QED BY <1>4, <1>5, <1>6 DEF CountsIInv

\* SetWorkerCount: if the count changes, whoever reads it already is disturbed.
LEMMA SetWorkerCountKeeps ==
    ASSUME EpistemicIInv, NEW f \in Fields, SetWorkerCount(f)
    PROVE  CountsIInv'
<1>1. /\ vpc[f] = "judges" /\ UNCHANGED <<spawned, state, collected, results>>
      /\ workerCount' = IF Judges[f] > 0 THEN Judges[f] ELSE workerCount
  BY DEF SetWorkerCount
<1>2. \A g \in Fields : vpc'[g] = IF g = f THEN "spawn" ELSE vpc[g]
  BY DEF SetWorkerCount, EpistemicIInv, EngineIInv, FlowTypeOK
<1>3. \A g \in Fields \ disturbed' : g \notin disturbed /\ (Counting(g) => workerCount' = workerCount)
  BY DEF SetWorkerCount, Disturbing, Counting
<1>4. OwnCount'
  <2>1. \A g \in Fields : Counting(g)' <=> g = f \/ Counting(g)
    BY <1>2 DEF Counting
  <2>2. QED BY <1>1, <1>3, <2>1 DEF EpistemicIInv, OwnCount
<1>5. spawned[f] = 0 /\ collected[f] = 0
  BY <1>1 DEF EpistemicIInv, StartedInOrder, HeardCounted, Counted
<1>6. workerCount' \in Nat
  BY <1>1, CountType, EpistemicAssumption
<1>7. StartedInOrder'
  <2> SUFFICES ASSUME NEW g \in Fields
               PROVE  /\ \A w \in Workers : state[g][w] # "none" <=> w < spawned[g]
                      /\ ~Counted(g)' => spawned[g] = 0
                      /\ g \notin disturbed' =>
                            /\ vpc'[g] = "spawn" => spawned[g] <= workerCount'
                            /\ vpc'[g] = "collect" => spawned[g] = workerCount'
                            /\ vpc'[g] \in {"validate", "done"} /\ Judges[g] > 0 => spawned[g] = Judges[g]
    BY <1>1 DEF StartedInOrder, Counted
  <2>1. CASE g = f
    BY <1>1, <1>2, <1>5, <1>6, <2>1 DEF EpistemicIInv, StartedInOrder, Counted
  <2>2. CASE g # f
    BY <1>2, <1>3, <2>2 DEF EpistemicIInv, StartedInOrder, Counted, Counting
  <2>3. QED BY <2>1, <2>2
<1>8. HeardCounted'
  <2> SUFFICES ASSUME NEW g \in Fields
               PROVE  /\ collected[g] = Cardinality(Heard(g))
                      /\ results[g] = {w \in Workers : state[g][w] = "used"}
                      /\ vpc'[g] \notin {"collect", "validate", "done"} => collected[g] = 0
                      /\ g \notin disturbed' =>
                            /\ vpc'[g] = "collect" => collected[g] <= workerCount'
                            /\ vpc'[g] \in {"validate", "done"} => collected[g] = spawned[g]
    BY <1>1 DEF HeardCounted, Heard
  <2>1. CASE g = f
    BY <1>1, <1>2, <1>5, <2>1 DEF EpistemicIInv, HeardCounted
  <2>2. CASE g # f
    BY <1>2, <1>3, <2>2 DEF EpistemicIInv, HeardCounted, Counting
  <2>3. QED BY <2>1, <2>2
<1>9. QED BY <1>4, <1>7, <1>8 DEF CountsIInv

\* Starting a worker: the next one in order.
LEMMA SpawnKeeps ==
    ASSUME EpistemicIInv, NEW f \in Fields, Spawn(f)
    PROVE  CountsIInv'
<1>1. vpc[f] = "spawn" /\ UNCHANGED <<workerCount, capacity, collected, results, engine, judgingVars, disturbed>>
  BY DEF Spawn
<1>2. workerCount \in 1 .. MaxWorkers /\ MaxWorkers \in Nat
  BY CountType
<1>3. spawned[f] \in 0 .. MaxWorkers /\ (f \notin disturbed => spawned[f] <= workerCount)
  BY <1>1 DEF EpistemicIInv, EngineIInv, FlowTypeOK, StartedInOrder
<1>4. CASE spawned[f] < workerCount
  <2> DEFINE n == spawned[f]
  <2>1. /\ state' = [state EXCEPT ![f][n] = "generating"]
        /\ spawned' = [spawned EXCEPT ![f] = n + 1]
        /\ vpc' = vpc
    BY <1>4 DEF Spawn
  <2>2. n \in Workers /\ n + 1 \in 0 .. MaxWorkers /\ n + 1 <= workerCount
    BY <1>2, <1>3, <1>4 DEF Workers
  <2>3. \A g \in Fields, w \in Workers :
           state'[g][w] = IF g = f /\ w = n THEN "generating" ELSE state[g][w]
    BY <2>1, <2>2 DEF EpistemicIInv, EngineIInv, FlowTypeOK
  <2>4. \A g \in Fields : spawned'[g] = IF g = f THEN n + 1 ELSE spawned[g]
    BY <2>1 DEF EpistemicIInv, EngineIInv, FlowTypeOK
  <2>6. OwnCount'
    BY <1>1, <2>1, OwnCountKept DEF Counting
  <2>7. state[f][n] = "none"
    BY <1>3, <2>2 DEF EpistemicIInv, StartedInOrder
  <2>8. StartedInOrder'
    <3> SUFFICES ASSUME NEW g \in Fields
                 PROVE  /\ \A w \in Workers : state'[g][w] # "none" <=> w < spawned'[g]
                        /\ ~Counted(g) => spawned'[g] = 0
                        /\ g \notin disturbed =>
                              /\ vpc[g] = "spawn" => spawned'[g] <= workerCount
                              /\ vpc[g] = "collect" => spawned'[g] = workerCount
                              /\ vpc[g] \in {"validate", "done"} /\ Judges[g] > 0 => spawned'[g] = Judges[g]
      BY <1>1, <2>1 DEF StartedInOrder, Counted
    <3>1. CASE g # f
      BY <2>3, <2>4, <3>1 DEF EpistemicIInv, StartedInOrder
    <3>2. CASE g = f
      <4>1. \A w \in Workers : w \in Nat
        BY WorkersFinite
      <4>2. \A w \in Workers : state'[f][w] # "none" <=> w < n + 1
        BY <1>3, <2>3, <4>1 DEF EpistemicIInv, StartedInOrder
      <4>3. QED BY <1>1, <2>2, <2>4, <3>2, <4>2 DEF Counted
    <3>3. QED BY <3>1, <3>2
  <2>9. HeardCounted'
    <3>1. \A g \in Fields : Heard(g)' = Heard(g)
      BY <2>3, <2>7 DEF Heard
    <3>2. \A g \in Fields : {w \in Workers : state'[g][w] = "used"} = {w \in Workers : state[g][w] = "used"}
      BY <2>3, <2>7
    <3>3. QED BY <1>1, <2>1, <3>1, <3>2 DEF EpistemicIInv, HeardCounted
  <2>11. QED BY <2>6, <2>8, <2>9 DEF CountsIInv
<1>5. CASE ~(spawned[f] < workerCount)
  <2>1. vpc' = [vpc EXCEPT ![f] = "collect"] /\ UNCHANGED <<state, spawned>>
    BY <1>5 DEF Spawn
  <2>2. f \notin disturbed => spawned[f] = workerCount
    BY <1>2, <1>3, <1>5
  <2>3. \A g \in Fields : vpc'[g] = IF g = f THEN "collect" ELSE vpc[g]
    BY <2>1 DEF EpistemicIInv, EngineIInv, FlowTypeOK
  <2>5. OwnCount'
    BY <1>1, <2>3, OwnCountKept DEF Counting
  <2>6. StartedInOrder'
    BY <1>1, <2>1, <2>2, <2>3, StartedKept
  <2>7. HeardCounted'
    BY <1>1, <2>1, <2>3, HeardKept
  <2>9. QED BY <2>5, <2>6, <2>7 DEF CountsIInv
<1>6. QED BY <1>4, <1>5

\* A worker of a validation goes from one state to another that is neither none nor heard.
LEMMA WorkerKeeps ==
    ASSUME EpistemicIInv, NEW f \in Fields, NEW w \in Workers, Worker(f, w)
    PROVE  CountsIInv'
<1>1. UNCHANGED <<workerCount, vpc, capacity, spawned, collected, results, engine, judgingVars, disturbed>>
  BY DEF Worker, Generate, SendResult
<1>2. PICK s \in {"value", "error", "sentValue", "sentError"} : state' = [state EXCEPT ![f][w] = s]
  BY DEF Worker, Generate, SendResult
<1>3. state[f][w] \in {"generating", "value", "error"}
  BY DEF Worker, Generate, SendResult
<1>4. \A g \in Fields, v \in Workers : state'[g][v] = IF g = f /\ v = w THEN s ELSE state[g][v]
  BY <1>2 DEF EpistemicIInv, EngineIInv, FlowTypeOK
<1>6. OwnCount'
  BY <1>1, OwnCountKept DEF Counting
<1>7. StartedInOrder'
  <2>1. \A g \in Fields, v \in Workers : state'[g][v] # "none" <=> state[g][v] # "none"
    BY <1>3, <1>4
  <2>2. QED BY <1>1, <2>1 DEF EpistemicIInv, StartedInOrder, Counted
<1>8. HeardCounted'
  <2>1. \A g \in Fields : Heard(g)' = Heard(g)
    BY <1>3, <1>4 DEF Heard
  <2>2. \A g \in Fields : {v \in Workers : state'[g][v] = "used"} = {v \in Workers : state[g][v] = "used"}
    BY <1>3, <1>4
  <2>3. QED BY <1>1, <2>1, <2>2 DEF EpistemicIInv, HeardCounted
<1>10. QED BY <1>6, <1>7, <1>8 DEF CountsIInv

\* Collecting one result: the collector has heard one worker more.
LEMMA CollectKeeps ==
    ASSUME EpistemicIInv, NEW f \in Fields, Collect(f)
    PROVE  CountsIInv'
<1>1. vpc[f] = "collect" /\ UNCHANGED <<workerCount, capacity, spawned, engine, judgingVars, disturbed>>
  BY DEF Collect
<1>2. workerCount \in 1 .. MaxWorkers /\ MaxWorkers \in Nat
  BY CountType
<1>3. collected[f] \in 0 .. MaxWorkers /\ (f \notin disturbed => collected[f] <= workerCount)
  BY <1>1 DEF EpistemicIInv, EngineIInv, FlowTypeOK, HeardCounted
<1>4. CASE collected[f] < workerCount
  <2>1. PICK w \in InChannel(f) :
           /\ results' = [results EXCEPT ![f] = IF state[f][w] = "sentValue" THEN results[f] \cup {w} ELSE results[f]]
           /\ state' = [state EXCEPT ![f][w] = IF state[f][w] = "sentValue" THEN "used" ELSE "gone"]
           /\ collected' = [collected EXCEPT ![f] = collected[f] + 1]
           /\ vpc' = vpc
    BY <1>4 DEF Collect
  <2>2. w \in Workers /\ state[f][w] \in {"sentValue", "sentError"}
    BY <2>1 DEF InChannel
  <2>3. PICK s : s = IF state[f][w] = "sentValue" THEN "used" ELSE "gone"
    OBVIOUS
  <2>4. \A g \in Fields, v \in Workers : state'[g][v] = IF g = f /\ v = w THEN s ELSE state[g][v]
    BY <2>1, <2>2, <2>3 DEF EpistemicIInv, EngineIInv, FlowTypeOK
  <2>5. \A g \in Fields : collected'[g] = IF g = f THEN collected[f] + 1 ELSE collected[g]
    BY <2>1 DEF EpistemicIInv, EngineIInv, FlowTypeOK
  <2>7. OwnCount'
    BY <1>1, <2>1, OwnCountKept DEF Counting
  <2>8. StartedInOrder'
    <3>1. \A g \in Fields, v \in Workers : state'[g][v] # "none" <=> state[g][v] # "none"
      BY <2>2, <2>3, <2>4
    <3>2. QED BY <1>1, <2>1, <3>1 DEF EpistemicIInv, StartedInOrder, Counted
  <2>9. HeardCounted'
    <3> SUFFICES ASSUME NEW g \in Fields
                 PROVE  /\ collected'[g] = Cardinality(Heard(g)')
                        /\ results'[g] = {v \in Workers : state'[g][v] = "used"}
                        /\ vpc[g] \notin {"collect", "validate", "done"} => collected'[g] = 0
                        /\ g \notin disturbed =>
                              /\ vpc[g] = "collect" => collected'[g] <= workerCount
                              /\ vpc[g] \in {"validate", "done"} => collected'[g] = spawned[g]
      BY <1>1, <2>1 DEF HeardCounted
    <3>1. CASE g # f
      <4>1. Heard(g)' = Heard(g) /\ {v \in Workers : state'[g][v] = "used"} = {v \in Workers : state[g][v] = "used"}
        BY <2>4, <3>1 DEF Heard
      <4>2. results'[g] = results[g] /\ collected'[g] = collected[g]
        BY <2>1, <2>5, <3>1 DEF EpistemicIInv, EngineIInv, FlowTypeOK
      <4>3. QED BY <4>1, <4>2 DEF EpistemicIInv, HeardCounted
    <3>2. CASE g = f
      <4>1. Heard(f)' = Heard(f) \cup {w} /\ w \notin Heard(f)
        BY <2>2, <2>3, <2>4 DEF Heard
      <4>2. IsFiniteSet(Heard(f))
        BY WorkersFinite, FS_Subset DEF Heard
      <4>3. Cardinality(Heard(f) \cup {w}) = Cardinality(Heard(f)) + 1
        BY <4>1, <4>2, FS_AddElement
      <4>4. collected'[f] = Cardinality(Heard(f)')
        BY <2>5, <4>1, <4>3 DEF EpistemicIInv, HeardCounted
      <4>5. results'[f] = {v \in Workers : state'[f][v] = "used"}
        <5>1. results[f] = {v \in Workers : state[f][v] = "used"}
          BY DEF EpistemicIInv, HeardCounted
        <5>2. results'[f] = IF state[f][w] = "sentValue" THEN results[f] \cup {w} ELSE results[f]
          BY <2>1 DEF EpistemicIInv, EngineIInv, FlowTypeOK
        <5>3. QED BY <2>2, <2>3, <2>4, <5>1, <5>2
      <4>6. collected'[f] <= workerCount
        BY <1>2, <1>3, <1>4, <2>5
      <4>7. QED BY <1>1, <3>2, <4>4, <4>5, <4>6
    <3>3. QED BY <3>1, <3>2
  <2>11. QED BY <2>7, <2>8, <2>9 DEF CountsIInv
<1>5. CASE ~(collected[f] < workerCount)
  <2>1. vpc' = [vpc EXCEPT ![f] = "validate"] /\ UNCHANGED <<state, collected, results>>
    BY <1>5 DEF Collect
  <2>2. f \notin disturbed => collected[f] = workerCount
    BY <1>2, <1>3, <1>5
  <2>3. \A g \in Fields : vpc'[g] = IF g = f THEN "validate" ELSE vpc[g]
    BY <2>1 DEF EpistemicIInv, EngineIInv, FlowTypeOK
  <2>5. OwnCount'
    BY <1>1, <2>3, OwnCountKept DEF Counting
  <2>6. StartedInOrder'
    BY <1>1, <2>1, <2>3, StartedKept
  <2>7. HeardCounted'
    BY <1>1, <2>1, <2>2, <2>3, HeardKept
  <2>9. QED BY <2>5, <2>6, <2>7 DEF CountsIInv
<1>6. QED BY <1>4, <1>5

\* Validate decides and leaves the workers alone.
LEMMA ValidateKeeps ==
    ASSUME EpistemicIInv, NEW f \in Fields, Validate(f)
    PROVE  CountsIInv'
<1>1. /\ vpc[f] = "validate" /\ vpc' = [vpc EXCEPT ![f] = "done"]
      /\ UNCHANGED <<workerCount, spawned, state, collected, results, disturbed>>
  BY DEF Validate
<1>2. \A g \in Fields : vpc'[g] = IF g = f THEN "done" ELSE vpc[g]
  BY <1>1 DEF EpistemicIInv, EngineIInv, FlowTypeOK
<1>3. OwnCount'
  BY <1>1, <1>2, OwnCountKept DEF Counting
<1>4. StartedInOrder'
  BY <1>1, <1>2, StartedKept
<1>5. HeardCounted'
  BY <1>1, <1>2, HeardKept
<1>6. QED BY <1>3, <1>4, <1>5 DEF CountsIInv

\* Every step of a validation or of a worker keeps the invariant.
LEMMA EpistemicStep == EpistemicIInv /\ [Next]_epistemicVars => EpistemicIInv'
<1> SUFFICES ASSUME EpistemicIInv, [Next]_epistemicVars PROVE EpistemicIInv'
  OBVIOUS
<1>1. ASSUME NEW f \in Fields, Validation(f) PROVE CountsIInv'
  BY <1>1, MakeChannelKeeps, SetWorkerCountKeeps, SpawnKeeps, CollectKeeps, ValidateKeeps DEF Validation
<1>2. ASSUME NEW f \in Fields, NEW w \in Workers, Worker(f, w) PROVE CountsIInv'
  BY <1>2, WorkerKeeps
<1>3. ASSUME UNCHANGED epistemicVars PROVE CountsIInv'
  <2>1. OwnCount'
    BY <1>3, OwnCountKept DEF epistemicVars, Counting
  <2>2. StartedInOrder'
    BY <1>3, StartedKept DEF epistemicVars
  <2>3. HeardCounted'
    BY <1>3, HeardKept DEF epistemicVars
  <2>4. QED BY <2>1, <2>2, <2>3 DEF CountsIInv
<1>4. CountsIInv'
  BY <1>1, <1>2, <1>3 DEF Next
<1>5. EngineIInv'
  BY EngineStep DEF EpistemicIInv
<1>6. QED BY <1>4, <1>5 DEF EpistemicIInv, CountsIInv

-----------------------------------------------------------------------------
(* The lists the engines choose from. *)

\* A set of natural numbers that is not empty has a least element.
LEMMA SmallestOf ==
    ASSUME NEW T \in SUBSET Nat, T # {}
    PROVE  \E m \in T : \A k \in T : m <= k
<1>1. PICK R : R = OpToRel(<, Nat)
  BY Zenon
<1>2. IsWellFoundedOn(R, Nat)
  BY <1>1, NatLessThanWellFounded, Zenon
<1>3. R = {p \in Nat \X Nat : p[1] < p[2]}
  BY <1>1, Zenon DEF OpToRel
<1>4. PICK m \in T : \A k \in T : <<k, m>> \notin R
  BY <1>2, WFMin
<1>5. \A k \in T : ~(k < m)
  BY <1>3, <1>4
<1>6. QED BY <1>5

\* One of finitely many measures is the least.
LEMMA LeastMeasure ==
    ASSUME NEW n \in Nat, n # 0, NEW m, \A i \in 1 .. n : m[i] \in Int
    PROVE  \E i \in 1 .. n : \A j \in 1 .. n : m[i] <= m[j]
<1> DEFINE Has(k) == \E i \in 1 .. k : \A j \in 1 .. k : m[i] <= m[j]
           Bad == {k \in 1 .. n : ~Has(k)}
<1>1. SUFFICES ASSUME Bad # {} PROVE FALSE
  BY n \in 1 .. n
<1>2. PICK k \in Bad : \A l \in Bad : k <= l
  BY <1>1, SmallestOf, Bad \in SUBSET Nat
<1>3. k \in 1 .. n /\ ~Has(k)
  BY <1>2
<1>4. k # 1
  <2>1. SUFFICES ASSUME k = 1 PROVE FALSE
    OBVIOUS
  <2>2. m[1] \in Int /\ 1 .. k = {1}
    BY <1>3, <2>1
  <2>3. m[1] <= m[1]
    BY <2>2
  <2>4. Has(k)
    BY <2>2, <2>3
  <2>5. QED BY <1>3, <2>4
<1>5. k - 1 \in 1 .. n
  BY <1>3, <1>4
<1>6. Has(k - 1)
  <2>1. k - 1 \notin Bad
    <3> HIDE DEF Bad
    <3>1. ~(k <= k - 1)
      BY <1>3
    <3>2. QED BY <1>2, <3>1
  <2> HIDE DEF Has
  <2>2. QED BY <1>5, <2>1
<1>7. PICK i \in 1 .. (k - 1) : \A j \in 1 .. (k - 1) : m[i] <= m[j]
  BY <1>6
<1>8. PICK b : b = IF m[k] < m[i] THEN k ELSE i
  OBVIOUS
<1>9. \A j \in 1 .. k : j \in 1 .. (k - 1) \/ j = k
  BY <1>3
<1>10. i \in 1 .. n /\ i \in 1 .. k /\ k \in 1 .. k /\ m[i] \in Int /\ m[k] \in Int
  BY <1>3, <1>7
<1>11. \A j \in 1 .. k : m[j] \in Int
  BY <1>3
<1>12. \A j \in 1 .. k : m[b] <= m[j]
  BY <1>7, <1>8, <1>9, <1>10, <1>11
<1>13. Has(k)
  BY <1>8, <1>10, <1>12
<1>14. QED BY <1>3, <1>13

\* FirstLeast finds a position of the least measure.
LEMMA FirstLeastIsLeast ==
    ASSUME NEW n \in Nat, n # 0, NEW m, DOMAIN m = 1 .. n, \A i \in 1 .. n : m[i] \in Int
    PROVE  FirstLeast(m) \in 1 .. n /\ \A j \in 1 .. n : m[FirstLeast(m)] <= m[j]
<1> DEFINE S == {i \in 1 .. n : \A j \in 1 .. n : m[i] <= m[j]}
<1>1. S # {}
  BY LeastMeasure
<1>2. S \in SUBSET Nat
  OBVIOUS
<1>3. \E x \in S : \A y \in S : x <= y
  BY <1>1, <1>2, SmallestOf
<1>4. FirstLeast(m) = CHOOSE x \in S : \A y \in S : x <= y
  BY DEF FirstLeast, Min
<1>5. FirstLeast(m) \in S
  BY <1>3, <1>4
<1>6. QED BY <1>5

\* What the list of an engine looks like.
IsPanel(by, ws, list, n) ==
    /\ n \in Nat /\ n <= MaxWorkers
    /\ list = [i \in 1 .. n |-> list[i]]
    /\ \A i \in 1 .. n : list[i].of \in ws /\ list[i] \in Assessments(by, list[i].of)
    /\ \A i, j \in 1 .. n : list[i].of = list[j].of => i = j

\* A panel lists some of the workers, each once, with an assessment of its own.
LEMMA PanelShape ==
    ASSUME NEW by \in {"judge", "kmean"}, NEW ws \in SUBSET Workers, NEW list \in Panels(by, ws)
    PROVE  \E n : IsPanel(by, ws, list, n)
<1>1. PICK a \in SUBSET ws : /\ list \in [1 .. Cardinality(a) -> UNION {Assessments(by, w) : w \in a}]
                             /\ {list[i].of : i \in DOMAIN list} = a
  BY DEF Panels
<1>2. PICK n : n = Cardinality(a)
  OBVIOUS
<1>3. IsFiniteSet(a) /\ n \in Nat /\ n <= MaxWorkers
  <2>1. Cardinality(Workers) = MaxWorkers
    <3>1. MaxWorkers \in Nat
      BY EpistemicAssumption
    <3>2. Cardinality(0 .. MaxWorkers - 1) = IF 0 > MaxWorkers - 1 THEN 0 ELSE MaxWorkers - 1 - 0 + 1
      BY <3>1, FS_Interval
    <3>3. QED BY <3>1, <3>2 DEF Workers
  <2>2. IsFiniteSet(a) /\ Cardinality(a) <= Cardinality(Workers)
    BY WorkersFinite, FS_Subset
  <2>3. QED BY <1>2, <2>1, <2>2, FS_CardinalityType
<1>4. DOMAIN list = 1 .. n /\ list = [i \in 1 .. n |-> list[i]]
  BY <1>1, <1>2
<1>5. \A i \in 1 .. n : list[i].of \in a /\ list[i] \in Assessments(by, list[i].of)
  <2> SUFFICES ASSUME NEW i \in 1 .. n PROVE list[i].of \in a /\ list[i] \in Assessments(by, list[i].of)
    OBVIOUS
  <2>1. PICK w \in a : list[i] \in Assessments(by, w)
    BY <1>1, <1>2
  <2>2. list[i].of = w
    BY <2>1 DEF Assessments
  <2>3. QED BY <2>1, <2>2
<1>6. \A i, j \in 1 .. n : list[i].of = list[j].of => i = j
  <2> DEFINE who == [i \in 1 .. n |-> list[i].of]
  <2>1. who \in [1 .. n -> a]
    BY <1>5
  <2>2. \A w \in a : \E i \in 1 .. n : who[i] = w
    BY <1>1, <1>4
  <2>3. who \in Surjection(1 .. n, a)
    BY <2>1, <2>2 DEF Surjection
  <2>4. IsFiniteSet(1 .. n) /\ Cardinality(1 .. n) = n
    BY <1>3, FS_Interval
  <2>5. who \in Injection(1 .. n, a)
    BY <1>2, <2>3, <2>4, FS_Surjection
  <2>6. \A i, j \in 1 .. n : who[i] = who[j] => i = j
    BY <2>5 DEF Injection, IsInjective
  <2>7. QED BY <2>6
<1>7. QED BY <1>3, <1>4, <1>5, <1>6 DEF IsPanel

\* The length of a panel is the number of its assessments.
LEMMA PanelLength ==
    ASSUME NEW by, NEW ws, NEW list, NEW n, IsPanel(by, ws, list, n)
    PROVE  /\ n \in Nat /\ Len(list) = n /\ DOMAIN list = 1 .. n
           /\ list = <<>> <=> n = 0
           /\ Range(list) = {list[i] : i \in 1 .. n}
<1>1. n \in Nat /\ list = [i \in 1 .. n |-> list[i]]
  BY DEF IsPanel
<1>2. PICK S : S = {list[i] : i \in 1 .. n}
  OBVIOUS
<1>3. list \in [1 .. n -> S] /\ DOMAIN list = 1 .. n
  BY <1>1, <1>2
<1>4. list \in Seq(S)
  BY <1>1, <1>3
<1>5. Len(list) = n
  BY <1>1, <1>3, <1>4
<1>6. list = <<>> <=> n = 0
  BY <1>3, <1>4, <1>5
<1>7. QED BY <1>1, <1>2, <1>3, <1>5, <1>6 DEF Range

-----------------------------------------------------------------------------
(* LLM as judge. *)

\* The score of an assessment is half the sum of its marks, rounded down.
LEMMA JudgeMarks ==
    ASSUME NEW ws, NEW list, NEW n, IsPanel("judge", ws, list, n), NEW i \in 1 .. n
    PROVE  /\ list[i].completeness \in Nat /\ list[i].correctness \in Nat
           /\ Score(list[i]) \in Nat
           /\ 2 * Score(list[i]) <= list[i].completeness + list[i].correctness
           /\ list[i].completeness + list[i].correctness <= 2 * Score(list[i]) + 1
<1>1. list[i] \in {[of |-> list[i].of, completeness |-> m[1], correctness |-> m[2]] : m \in Marks}
  BY DEF IsPanel, Assessments
<1>2. PICK m \in Marks : list[i] = [of |-> list[i].of, completeness |-> m[1], correctness |-> m[2]]
  BY <1>1
<1>3. list[i].completeness = m[1] /\ list[i].correctness = m[2]
  BY <1>2
<1>4. m[1] \in Nat /\ m[2] \in Nat
  BY EpistemicAssumption
<1>5. PICK c, d : c = list[i].completeness /\ d = list[i].correctness
  OBVIOUS
<1>6. c \in Nat /\ d \in Nat
  BY <1>3, <1>4, <1>5
<1>7. Score(list[i]) = (c + d) \div 2
  BY <1>5 DEF Score
<1>8. (c + d) \div 2 \in Nat /\ 2 * ((c + d) \div 2) <= c + d /\ c + d <= 2 * ((c + d) \div 2) + 1
  BY <1>6
<1>9. QED BY <1>5, <1>6, <1>7, <1>8

\* Best: one of those assessed, with the highest score, if any.
LEMMA BestScoredIsBest ==
    ASSUME NEW ws, NEW list, NEW n, IsPanel("judge", ws, list, n)
    PROVE  \/ BestScored(list) = Nobody
           \/ \E i \in 1 .. n : /\ BestScored(list) = list[i].of
                                /\ \A j \in 1 .. n : Score(list[j]) <= Score(list[i])
<1>1. CASE n = 0
  BY <1>1, PanelLength DEF BestScored
<1>2. CASE n # 0
  <2>1. PICK m : m = [i \in DOMAIN list |-> -Score(list[i])]
    OBVIOUS
  <2>2. n \in Nat /\ DOMAIN list = 1 .. n /\ list # <<>>
    BY <1>2, PanelLength
  <2>3. \A i \in 1 .. n : Score(list[i]) \in Nat
    BY JudgeMarks
  <2>4. DOMAIN m = 1 .. n /\ \A i \in 1 .. n : m[i] = -Score(list[i]) /\ m[i] \in Int
    BY <2>1, <2>2, <2>3
  <2>5. PICK i : i = FirstLeast(m)
    OBVIOUS
  <2>6. i \in 1 .. n /\ \A j \in 1 .. n : m[i] <= m[j]
    BY <1>2, <2>2, <2>4, <2>5, FirstLeastIsLeast
  <2>7. BestScored(list) = list[i].of
    BY <2>1, <2>2, <2>5 DEF BestScored
  <2>8. \A j \in 1 .. n : Score(list[j]) <= Score(list[i])
    BY <2>3, <2>4, <2>6
  <2>9. QED BY <2>6, <2>7, <2>8
<1>3. QED BY <1>1, <1>2

-----------------------------------------------------------------------------
(* Sums over a list. *)

Sums(c, u, n) == u = [k \in 0 .. n |-> IF k = 0 THEN 0 ELSE u[k - 1] + c[k]]

\* Sums of integers are integers, by induction on the position.
LEMMA SumsInt ==
    ASSUME NEW n \in Nat, NEW c, \A i \in 1 .. n : c[i] \in Int, NEW u, Sums(c, u, n)
    PROVE  /\ \A k \in 0 .. n : u[k] \in Int
           /\ u[0] = 0
           /\ \A k \in 1 .. n : k - 1 \in 0 .. n /\ u[k] = u[k - 1] + c[k]
<1>1. u[0] = 0
  BY DEF Sums
<1>2. \A k \in 1 .. n : k - 1 \in 0 .. n /\ u[k] = u[k - 1] + c[k]
  BY DEF Sums
<1> DEFINE Bad == {k \in 0 .. n : u[k] \notin Int}
<1>3. CASE Bad # {}
  <2>1. PICK k \in Bad : \A l \in Bad : k <= l
    BY <1>3, SmallestOf, Bad \in SUBSET Nat
  <2>2. k \in 0 .. n /\ u[k] \notin Int
    BY <2>1
  <2>3. k \in 1 .. n
    BY <1>1, <2>2
  <2>4. k - 1 \in 0 .. n /\ ~(k <= k - 1)
    BY <2>3
  <2>5. u[k - 1] \in Int
    BY <2>1, <2>4
  <2>6. u[k] = u[k - 1] + c[k] /\ c[k] \in Int
    BY <1>2, <2>3
  <2>7. QED BY <2>2, <2>5, <2>6
<1>4. CASE Bad = {}
  BY <1>1, <1>2, <1>4
<1>5. QED BY <1>3, <1>4

\* There are such sums, by induction on the length.
LEMMA SumsExist ==
    ASSUME NEW n \in Nat, NEW c, \A i \in 1 .. n : c[i] \in Int
    PROVE  \E u : Sums(c, u, n)
<1> DEFINE Has(k) == \E u : Sums(c, u, k)
           Bad == {k \in 0 .. n : ~Has(k)}
<1>1. SUFFICES ASSUME Bad # {} PROVE FALSE
  BY n \in 0 .. n
<1>2. PICK k \in Bad : \A l \in Bad : k <= l
  BY <1>1, SmallestOf, Bad \in SUBSET Nat
<1>3. k \in 0 .. n /\ ~Has(k)
  BY <1>2
<1>4. k # 0
  <2>1. SUFFICES ASSUME k = 0 PROVE FALSE
    OBVIOUS
  <2>2. Sums(c, [i \in 0 .. 0 |-> 0], 0)
    BY DEF Sums
  <2>3. QED BY <1>3, <2>1, <2>2
<1>5. PICK l : l = k - 1
  OBVIOUS
<1>6. l \in 0 .. n /\ ~(k <= l) /\ k = l + 1 /\ k \in 1 .. n
  BY <1>3, <1>4, <1>5
<1>7. Has(l)
  <2>1. l \notin Bad
    <3> HIDE DEF Bad
    <3>1. QED BY <1>2, <1>6
  <2> HIDE DEF Has
  <2>2. QED BY <1>6, <2>1
<1>8. PICK u : Sums(c, u, l)
  BY <1>7
<1>9. PICK t : t = [i \in 0 .. k |-> IF i = k THEN u[l] + c[k] ELSE u[i]]
  OBVIOUS
<1>10. \A i \in 0 .. k : t[i] = IF i = 0 THEN 0 ELSE t[i - 1] + c[i]
  <2> SUFFICES ASSUME NEW i \in 0 .. k PROVE t[i] = IF i = 0 THEN 0 ELSE t[i - 1] + c[i]
    OBVIOUS
  <2>1. CASE i = k
    <3>1. i # 0 /\ i - 1 = l /\ l \in 0 .. k /\ l # k
      BY <1>6, <2>1
    <3>2. t[l] = u[l] /\ t[k] = u[l] + c[k]
      BY <1>6, <1>9, <3>1
    <3>3. QED BY <2>1, <3>1, <3>2
  <2>2. CASE i # k
    <3>1. i \in 0 .. l
      BY <1>6, <2>2
    <3>2. u[i] = IF i = 0 THEN 0 ELSE u[i - 1] + c[i]
      BY <1>8, <3>1 DEF Sums
    <3>3. i # 0 => i - 1 \in 0 .. k /\ i - 1 # k
      BY <1>6, <2>2, <3>1
    <3>4. t[i] = u[i] /\ (i # 0 => t[i - 1] = u[i - 1])
      BY <1>9, <2>2, <3>3
    <3>5. QED BY <3>2, <3>4
  <2>3. QED BY <2>1, <2>2
<1>11. Sums(c, t, k)
  <2>1. DOMAIN t = 0 .. k /\ t = [i \in 0 .. k |-> t[i]]
    BY <1>9
  <2>2. QED BY <1>10, <2>1 DEF Sums
<1>12. QED BY <1>3, <1>11

\* Sums of numbers within a bound grow no faster than the bound.
LEMMA SumsBound ==
    ASSUME NEW n \in Nat, NEW e \in Nat, NEW c, \A i \in 1 .. n : c[i] \in -e .. e, NEW u, Sums(c, u, n)
    PROVE  u[n] \in Int /\ -(n * e) <= u[n] /\ u[n] <= n * e
<1>1. \A i \in 1 .. n : c[i] \in Int
  OBVIOUS
<1>2. /\ \A k \in 0 .. n : u[k] \in Int
      /\ u[0] = 0
      /\ \A k \in 1 .. n : k - 1 \in 0 .. n /\ u[k] = u[k - 1] + c[k]
  BY <1>1, SumsInt
<1> DEFINE Good(k) == -(k * e) <= u[k] /\ u[k] <= k * e
           Bad == {k \in 0 .. n : ~Good(k)}
<1>3. SUFFICES ASSUME Bad # {} PROVE FALSE
  BY <1>2, n \in 0 .. n
<1>4. PICK k \in Bad : \A l \in Bad : k <= l
  BY <1>3, SmallestOf, Bad \in SUBSET Nat
<1>5. k \in 0 .. n /\ ~Good(k)
  BY <1>4
<1>6. k # 0
  <2>1. SUFFICES ASSUME k = 0 PROVE FALSE
    OBVIOUS
  <2>2. 0 * e = 0
    OBVIOUS
  <2>3. QED BY <1>2, <1>5, <2>1, <2>2
<1>7. PICK l : l = k - 1
  OBVIOUS
<1>8. l \in 0 .. n /\ ~(k <= l) /\ k = l + 1 /\ k \in 1 .. n
  BY <1>5, <1>6, <1>7
<1>9. Good(l)
  <2>1. l \notin Bad
    <3> HIDE DEF Bad
    <3>1. QED BY <1>4, <1>8
  <2> HIDE DEF Good
  <2>2. QED BY <1>8, <2>1
<1>10. u[k] = u[l] + c[k] /\ u[l] \in Int /\ c[k] \in -e .. e /\ u[k] \in Int
  BY <1>2, <1>7, <1>8
<1>11. k * e = l * e + e /\ l * e \in Nat
  BY <1>8
<1>12. Good(k)
  BY <1>9, <1>10, <1>11
<1>13. QED BY <1>5, <1>12

-----------------------------------------------------------------------------
(* K-mean. *)

\* An embedding has one coordinate within the bound, or is missing.
LEMMA EmbeddingShape ==
    ASSUME NEW ws, NEW list, NEW n, IsPanel("kmean", ws, list, n), NEW i \in 1 .. n
    PROVE  /\ \/ list[i].embedding = <<>> /\ Len(list[i].embedding) = 0
              \/ list[i].embedding # <<>> /\ Len(list[i].embedding) = 1
           /\ Coordinate(list[i]) \in -Extent .. Extent
           /\ list[i].embedding # <<>> => Coordinate(list[i]) = list[i].embedding[1]
<1>1. list[i] \in {[of |-> list[i].of, embedding |-> e] : e \in Embeddings}
  BY DEF IsPanel, Assessments
<1>2. PICK e \in Embeddings : list[i] = [of |-> list[i].of, embedding |-> e]
  BY <1>1
<1>3. list[i].embedding = e
  BY <1>2
<1>4. Extent \in Nat /\ (e = <<>> \/ \E x \in -Extent .. Extent : e = <<x>>)
  BY EpistemicAssumption
<1>5. CASE e = <<>>
  BY <1>3, <1>4, <1>5 DEF Coordinate
<1>6. ASSUME NEW x \in -Extent .. Extent, e = <<x>>
      PROVE  /\ list[i].embedding # <<>> /\ Len(list[i].embedding) = 1
             /\ Coordinate(list[i]) = x /\ list[i].embedding[1] = x
  <2>1. e # <<>> /\ Len(e) = 1 /\ e[1] = x
    BY <1>6
  <2>2. QED BY <1>3, <2>1 DEF Coordinate
<1>7. QED BY <1>4, <1>5, <1>6

\* EmbeddingSum is the sum of the coordinates.
LEMMA EmbeddingSumIs ==
    ASSUME NEW ws, NEW list, NEW n, IsPanel("kmean", ws, list, n)
    PROVE  \E u : Sums([i \in 1 .. n |-> Coordinate(list[i])], u, n) /\ EmbeddingSum(list) = u[n]
<1> DEFINE c == [i \in 1 .. n |-> Coordinate(list[i])]
           Def(u) == u = [k \in 0 .. Len(list) |-> IF k = 0 THEN 0 ELSE u[k - 1] + Coordinate(list[k])]
<1>1. n \in Nat /\ Len(list) = n
  BY PanelLength
<1>2. \A i \in 1 .. n : c[i] \in Int
  <2>1. \A i \in 1 .. n : Coordinate(list[i]) \in -Extent .. Extent
    BY EmbeddingShape
  <2>2. QED BY <2>1
<1>3. PICK t : Sums(c, t, n)
  <2> HIDE DEF c
  <2>1. QED BY <1>1, <1>2, SumsExist
<1>4. \A u : Sums(c, u, n) <=> Def(u)
  <2> SUFFICES ASSUME NEW u PROVE Sums(c, u, n) <=> Def(u)
    OBVIOUS
  <2>1. \A k \in 0 .. n : k # 0 => c[k] = Coordinate(list[k])
    BY <1>1
  <2>2. [k \in 0 .. n |-> IF k = 0 THEN 0 ELSE u[k - 1] + c[k]]
          = [k \in 0 .. n |-> IF k = 0 THEN 0 ELSE u[k - 1] + Coordinate(list[k])]
    BY <2>1
  <2>3. QED BY <1>1, <2>2 DEF Sums
<1>5. PICK v : v = CHOOSE u : Def(u)
  OBVIOUS
<1>6. Def(v)
  BY <1>3, <1>4, <1>5
<1>7. EmbeddingSum(list) = v[Len(list)]
  BY <1>5 DEF EmbeddingSum
<1>8. QED BY <1>1, <1>4, <1>6, <1>7

\* A distance is a number; between embeddings of one length it is below infinity.
LEMMA DistanceType ==
    ASSUME NEW ws, NEW list, NEW n, IsPanel("kmean", ws, list, n), NEW i \in 1 .. n
    PROVE  /\ EmbeddingSum(list) \in Int
           /\ Distance(list[i], list) \in Nat
           /\ Len(list[i].embedding) # Len(list[1].embedding) => Distance(list[i], list) = Infinite
           /\ Len(list[i].embedding) = Len(list[1].embedding) => Distance(list[i], list) < Infinite
           /\ Len(list[i].embedding) = Len(list[1].embedding) /\ list[i].embedding # <<>> =>
                 LET d == n * Coordinate(list[i]) - EmbeddingSum(list)
                 IN  Distance(list[i], list) = IF d < 0 THEN -d ELSE d
<1>1. n \in Nat /\ Len(list) = n /\ n <= MaxWorkers /\ n >= 1
  BY PanelLength DEF IsPanel
<1>2. MaxWorkers \in Nat /\ Extent \in Nat /\ Infinite \in Nat /\ 2 * MaxWorkers * Extent < Infinite
  BY EpistemicAssumption
<1>3. PICK x : x = Coordinate(list[i])
  OBVIOUS
<1>4. x \in -Extent .. Extent
  BY <1>3, EmbeddingShape
<1>5. PICK u : Sums([k \in 1 .. n |-> Coordinate(list[k])], u, n) /\ EmbeddingSum(list) = u[n]
  BY EmbeddingSumIs
<1>6. PICK s : s = EmbeddingSum(list)
  OBVIOUS
<1>7. s \in Int /\ -(n * Extent) <= s /\ s <= n * Extent
  <2>1. PICK c : c = [k \in 1 .. n |-> Coordinate(list[k])]
    OBVIOUS
  <2>2. \A k \in 1 .. n : c[k] \in -Extent .. Extent
    BY <2>1, EmbeddingShape
  <2>3. QED BY <1>1, <1>2, <1>5, <1>6, <2>1, <2>2, SumsBound
<1>8. PICK d : d = n * x - s
  OBVIOUS
<1>9. -(n * Extent) <= n * x /\ n * x <= n * Extent /\ n * x \in Int
  BY <1>1, <1>2, <1>4
<1>10. n * Extent <= MaxWorkers * Extent
  BY <1>1, <1>2
<1>11. d \in Int /\ d < Infinite /\ -d < Infinite
  BY <1>1, <1>2, <1>7, <1>8, <1>9, <1>10
<1>12. CASE Len(list[i].embedding) # Len(list[1].embedding)
  BY <1>2, <1>6, <1>7, <1>12 DEF Distance
<1>13. CASE Len(list[i].embedding) = Len(list[1].embedding)
  <2>1. CASE list[i].embedding = <<>>
    <3>1. Distance(list[i], list) = 0
      BY <1>13, <2>1 DEF Distance
    <3>2. 0 < Infinite
      <4>1. 0 <= n * Extent
        BY <1>1, <1>2
      <4>2. QED BY <1>2, <1>10, <4>1
    <3>3. QED BY <1>6, <1>7, <1>13, <2>1, <3>1, <3>2
  <2>2. CASE list[i].embedding # <<>>
    <3>1. list[i].embedding[1] = x
      BY <1>3, <2>2, EmbeddingShape
    <3>2. Distance(list[i], list) = IF d < 0 THEN -d ELSE d
      BY <1>1, <1>6, <1>8, <1>13, <2>2, <3>1 DEF Distance
    <3>3. QED BY <1>3, <1>6, <1>7, <1>8, <1>11, <1>13, <3>2
  <2>3. QED BY <2>1, <2>2
<1>14. QED BY <1>12, <1>13

\* calculateKMean: one of those assessed, at the least distance, unless it has nothing to
\* choose from or panics.
LEMMA KMeanIsClosest ==
    ASSUME NEW ws, NEW list, NEW n, IsPanel("kmean", ws, list, n)
    PROVE  \/ calculateKMean(list) \in {Nobody, Panic}
           \/ /\ ~AveragePanics(list)
              /\ \E i \in 1 .. n :
                    /\ calculateKMean(list) = list[i].of
                    /\ \A j \in 1 .. n : Distance(list[i], list) <= Distance(list[j], list)
<1>1. CASE n = 0 \/ AveragePanics(list)
  BY <1>1, PanelLength DEF calculateKMean
<1>2. CASE n # 0 /\ ~AveragePanics(list)
  <2>1. PICK m : m = [i \in DOMAIN list |-> Distance(list[i], list)]
    OBVIOUS
  <2>2. n \in Nat /\ DOMAIN list = 1 .. n /\ list # <<>>
    BY <1>2, PanelLength
  <2>3. \A i \in 1 .. n : Distance(list[i], list) \in Nat
    BY DistanceType
  <2>4. DOMAIN m = 1 .. n /\ \A i \in 1 .. n : m[i] = Distance(list[i], list) /\ m[i] \in Int
    BY <2>1, <2>2, <2>3
  <2>5. PICK i : i = FirstLeast(m)
    OBVIOUS
  <2>6. i \in 1 .. n /\ \A j \in 1 .. n : m[i] <= m[j]
    BY <1>2, <2>2, <2>4, <2>5, FirstLeastIsLeast
  <2>7. calculateKMean(list) = list[i].of
    BY <1>2, <2>1, <2>2, <2>5 DEF calculateKMean
  <2>8. \A j \in 1 .. n : Distance(list[i], list) <= Distance(list[j], list)
    BY <2>4, <2>6
  <2>9. QED BY <1>2, <2>6, <2>7, <2>8
<1>3. QED BY <1>1, <1>2

\* Division by a positive number is monotonic.
LEMMA DivMonotonic ==
    ASSUME NEW a \in Nat, NEW b \in Nat, NEW c \in Nat, c # 0, a <= b
    PROVE  a \div c \in Nat /\ b \div c \in Nat /\ a \div c <= b \div c
<1>1. PICK p, q : p = a \div c /\ q = b \div c
  OBVIOUS
<1>2. p \in Int /\ c * p <= a /\ a < c * p + c
  BY <1>1
<1>3. q \in Int /\ c * q <= b /\ b < c * q + c
  BY <1>1
<1>4. c * p < c * (q + 1)
  BY <1>2, <1>3
<1>5. p < q + 1
  BY <1>2, <1>3, <1>4
<1>6. 0 < c * (p + 1)
  BY <1>2
<1>7. 0 < p + 1
  BY <1>2, <1>6
<1>8. QED BY <1>1, <1>2, <1>3, <1>5, <1>7

\* The scores of the choices go from 100 down to 0 as the distance grows.
LEMMA ChoiceScores ==
    ASSUME NEW ws, NEW list, NEW n, IsPanel("kmean", ws, list, n)
    PROVE  /\ \A i \in 1 .. n : ChoiceScore(list[i], list) \in 0 .. 100
           /\ \A i, j \in 1 .. n : Distance(list[i], list) <= Distance(list[j], list) =>
                 ChoiceScore(list[j], list) <= ChoiceScore(list[i], list)
<1>1. CASE n = 0
  BY <1>1
<1>2. CASE n # 0
  <2> DEFINE far == Max({Distance(b, list) : b \in Range(list)})
  <2>1. n \in Nat /\ Range(list) = {list[i] : i \in 1 .. n}
    BY PanelLength
  <2>2. \A i \in 1 .. n : Distance(list[i], list) \in Nat
    BY DistanceType
  <2>3. PICK m : m = [i \in 1 .. n |-> -Distance(list[i], list)]
    OBVIOUS
  <2>4. \A i \in 1 .. n : m[i] = -Distance(list[i], list) /\ m[i] \in Int
    BY <2>2, <2>3
  <2>5. PICK i \in 1 .. n : \A j \in 1 .. n : m[i] <= m[j]
    BY <1>2, <2>1, <2>4, LeastMeasure
  <2>6. \A j \in 1 .. n : Distance(list[j], list) <= Distance(list[i], list)
    BY <2>2, <2>4, <2>5
  <2>7. PICK D : D = {Distance(b, list) : b \in Range(list)}
    OBVIOUS
  <2>8. D = {Distance(list[j], list) : j \in 1 .. n}
    BY <2>1, <2>7
  <2>9. \E x \in D : \A y \in D : x >= y
    BY <2>2, <2>6, <2>8
  <2>10. far \in D /\ \A y \in D : far >= y
    BY <2>7, <2>9 DEF Max
  <2> HIDE DEF far
  <2>11. far \in Nat /\ \A j \in 1 .. n : Distance(list[j], list) <= far
    BY <2>2, <2>8, <2>10
  <2>12. \A j \in 1 .. n : ChoiceScore(list[j], list) =
            IF far = 0 THEN 100
            ELSE IF far = Infinite THEN (IF Distance(list[j], list) = Infinite THEN 0 ELSE 100)
            ELSE (100 * (far - Distance(list[j], list))) \div far
    BY DEF ChoiceScore, far
  <2>13. CASE far = 0
    BY <2>12, <2>13
  <2>14. CASE far # 0 /\ far = Infinite
    BY <2>2, <2>11, <2>12, <2>14
  <2>15. CASE far # 0 /\ far # Infinite
    <3>1. \A j \in 1 .. n : ChoiceScore(list[j], list) = (100 * (far - Distance(list[j], list))) \div far
      BY <2>12, <2>15
    <3>2. ASSUME NEW j \in 1 .. n PROVE ChoiceScore(list[j], list) \in 0 .. 100
      <4>1. PICK a : a = 100 * (far - Distance(list[j], list))
        OBVIOUS
      <4>2. a \in Nat /\ a <= 100 * far
        BY <2>2, <2>11, <4>1
      <4>3. PICK b : b = 100 * far
        OBVIOUS
      <4>4. b \in Nat /\ b \div far = 100
        BY <2>11, <2>15, <4>3
      <4>5. a \div far \in Nat /\ a \div far <= b \div far
        BY <2>11, <2>15, <4>2, <4>3, <4>4, DivMonotonic
      <4>6. QED BY <3>1, <4>1, <4>4, <4>5
    <3>3. ASSUME NEW j \in 1 .. n, NEW k \in 1 .. n, Distance(list[j], list) <= Distance(list[k], list)
          PROVE  ChoiceScore(list[k], list) <= ChoiceScore(list[j], list)
      <4>1. PICK a, b : a = 100 * (far - Distance(list[k], list)) /\ b = 100 * (far - Distance(list[j], list))
        OBVIOUS
      <4>2. a \in Nat /\ b \in Nat /\ a <= b
        BY <2>2, <2>11, <3>3, <4>1
      <4>3. a \div far <= b \div far
        BY <2>11, <2>15, <4>2, DivMonotonic
      <4>4. QED BY <3>1, <4>1, <4>3
    <3>4. QED BY <3>2, <3>3
  <2>16. QED BY <2>13, <2>14, <2>15
<1>3. QED BY <1>1, <1>2

\* With every embedding there, the sum of the squared distances from one of them to all is
\* n times its square, less twice it times their sum, plus the sum of their squares.
LEMMA SquaresExpand ==
    ASSUME NEW ws, NEW list, NEW n, IsPanel("kmean", ws, list, n), NEW i \in 1 .. n,
           \A k \in 1 .. n : list[k].embedding # <<>>,
           NEW q, Sums([k \in 1 .. n |-> Coordinate(list[k]) * Coordinate(list[k])], q, n)
    PROVE  LET x == Coordinate(list[i])
           IN  Squares(list[i], list) = n * (x * x) - 2 * (x * EmbeddingSum(list)) + q[n]
<1>1. n \in Nat /\ Len(list) = n
  BY PanelLength
<1>2. PICK c : c = [k \in 1 .. n |-> Coordinate(list[k])]
  OBVIOUS
<1>3. \A k \in 1 .. n : c[k] = Coordinate(list[k]) /\ c[k] = list[k].embedding[1] /\ c[k] \in Int
  BY <1>2, EmbeddingShape
<1>4. PICK x : x = c[i]
  OBVIOUS
<1>5. x \in Int /\ x = Coordinate(list[i]) /\ x = list[i].embedding[1]
  BY <1>3, <1>4
<1>6. PICK s : Sums(c, s, n) /\ EmbeddingSum(list) = s[n]
  BY <1>2, EmbeddingSumIs
<1>7. PICK c2 : c2 = [k \in 1 .. n |-> c[k] * c[k]]
  OBVIOUS
<1>8. c2 = [k \in 1 .. n |-> Coordinate(list[k]) * Coordinate(list[k])]
  BY <1>3, <1>7
<1>9. \A k \in 1 .. n : c2[k] = c[k] * c[k] /\ c2[k] \in Int
  BY <1>3, <1>7
<1>10. Sums(c2, q, n)
  BY <1>8
<1>11. PICK c3 : c3 = [k \in 1 .. n |-> (x - c[k]) * (x - c[k])]
  OBVIOUS
<1>12. \A k \in 1 .. n : c3[k] = (x - c[k]) * (x - c[k]) /\ c3[k] \in Int
  <2> SUFFICES ASSUME NEW k \in 1 .. n PROVE c3[k] = (x - c[k]) * (x - c[k]) /\ c3[k] \in Int
    OBVIOUS
  <2>1. PICK z : z = x - c[k]
    OBVIOUS
  <2>2. z \in Int /\ z * z \in Int
    BY <1>3, <1>5, <2>1
  <2>3. c3[k] = z * z
    BY <1>11, <2>1
  <2>4. QED BY <2>1, <2>2, <2>3
<1> DEFINE a == list[i]
           Def(u) == u = [k \in 0 .. Len(list) |->
              IF k = 0 THEN 0
              ELSE u[k - 1] + (a.embedding[1] - list[k].embedding[1]) * (a.embedding[1] - list[k].embedding[1])]
<1>13. \A u : Sums(c3, u, n) <=> Def(u)
  <2> SUFFICES ASSUME NEW u PROVE Sums(c3, u, n) <=> Def(u)
    OBVIOUS
  <2>1. \A k \in 0 .. n : k # 0 =>
           c3[k] = (a.embedding[1] - list[k].embedding[1]) * (a.embedding[1] - list[k].embedding[1])
    BY <1>1, <1>3, <1>5, <1>12
  <2>2. [k \in 0 .. n |-> IF k = 0 THEN 0 ELSE u[k - 1] + c3[k]]
          = [k \in 0 .. n |-> IF k = 0 THEN 0 ELSE u[k - 1]
               + (a.embedding[1] - list[k].embedding[1]) * (a.embedding[1] - list[k].embedding[1])]
    BY <2>1
  <2>3. QED BY <1>1, <2>2 DEF Sums
<1>14. PICK v : v = CHOOSE u : Def(u)
  OBVIOUS
<1>15. Def(v)
  <2>1. \E u : Sums(c3, u, n)
    BY <1>1, <1>12, SumsExist
  <2>2. QED BY <1>13, <1>14, <2>1
<1>16. Squares(a, list) = v[Len(list)]
  BY <1>14 DEF Squares
<1>17. Sums(c3, v, n)
  BY <1>13, <1>15
<1>18. /\ \A k \in 0 .. n : v[k] \in Int
       /\ v[0] = 0
       /\ \A k \in 1 .. n : k - 1 \in 0 .. n /\ v[k] = v[k - 1] + c3[k]
  BY <1>1, <1>12, <1>17, SumsInt
<1>19. /\ \A k \in 0 .. n : q[k] \in Int
       /\ q[0] = 0
       /\ \A k \in 1 .. n : k - 1 \in 0 .. n /\ q[k] = q[k - 1] + c2[k]
  BY <1>1, <1>9, <1>10, SumsInt
<1>20. /\ \A k \in 0 .. n : s[k] \in Int
       /\ s[0] = 0
       /\ \A k \in 1 .. n : k - 1 \in 0 .. n /\ s[k] = s[k - 1] + c[k]
  <2>1. \A k \in 1 .. n : c[k] \in Int
    BY <1>3
  <2>2. Sums(c, s, n)
    BY <1>6
  <2>3. QED BY <1>1, <2>1, <2>2, SumsInt
<1> DEFINE Good(k) == v[k] = k * (x * x) - 2 * (x * s[k]) + q[k]
           Bad == {k \in 0 .. n : ~Good(k)}
<1>21. Bad = {}
  <2>1. SUFFICES ASSUME Bad # {} PROVE FALSE
    OBVIOUS
  <2>2. PICK k \in Bad : \A l \in Bad : k <= l
    BY <2>1, SmallestOf, Bad \in SUBSET Nat
  <2>3. k \in 0 .. n /\ ~Good(k)
    BY <2>2
  <2>4. Good(0)
    <3>1. 0 * (x * x) = 0 /\ x * 0 = 0
      BY <1>5
    <3>2. QED BY <1>18, <1>19, <1>20, <3>1
  <2>5. PICK l : l = k - 1
    OBVIOUS
  <2>6. l \in 0 .. n /\ ~(k <= l) /\ k = l + 1 /\ k \in 1 .. n
    <3>1. k # 0
      BY <2>3, <2>4
    <3>2. QED BY <1>1, <2>3, <2>5, <3>1
  <2>7. Good(l)
    <3>1. l \notin Bad
      <4> HIDE DEF Bad
      <4>1. QED BY <2>2, <2>6
    <3> HIDE DEF Good
    <3>2. QED BY <2>6, <3>1
  <2>8. PICK y : y = c[k]
    OBVIOUS
  <2>9. y \in Int /\ c2[k] = y * y /\ c3[k] = (x - y) * (x - y)
    BY <1>3, <1>9, <1>12, <2>6, <2>8
  <2>10. PICK V, S, Q : V = v[l] /\ S = s[l] /\ Q = q[l]
    OBVIOUS
  <2>11. V \in Int /\ S \in Int /\ Q \in Int /\ l \in Nat
    BY <1>1, <1>18, <1>19, <1>20, <2>6, <2>10
  <2>12. v[k] = V + (x - y) * (x - y) /\ s[k] = S + y /\ q[k] = Q + y * y
    BY <1>18, <1>19, <1>20, <2>5, <2>6, <2>8, <2>9, <2>10
  <2>13. V = l * (x * x) - 2 * (x * S) + Q
    BY <2>7, <2>10
  <2>14. PICK xx, xy, yy, xS : xx = x * x /\ xy = x * y /\ yy = y * y /\ xS = x * S
    OBVIOUS
  <2>15. xx \in Int /\ xy \in Int /\ yy \in Int /\ xS \in Int /\ l * xx \in Int
    <3>0. x \in Int /\ y \in Int /\ S \in Int
      BY <1>5, <2>9, <2>11
    <3>1. x * x \in Int /\ x * y \in Int /\ y * y \in Int /\ x * S \in Int
      BY <3>0
    <3>2. xx \in Int /\ xy \in Int /\ yy \in Int /\ xS \in Int
      BY <2>14, <3>1
    <3>3. l * xx \in Int
      BY <2>11, <3>2
    <3>4. QED BY <3>2, <3>3
  <2>16. (x - y) * (x - y) = xx - 2 * xy + yy /\ x * (S + y) = xS + xy /\ (l + 1) * xx = l * xx + xx
    <3>1. (x - y) * (x - y) = x * x - 2 * (x * y) + y * y
      BY <1>5, <2>9
    <3>2. x * (S + y) = x * S + x * y
      BY <1>5, <2>9, <2>11
    <3>3. (l + 1) * xx = l * xx + xx
      BY <2>11, <2>15
    <3>4. QED BY <2>14, <3>1, <3>2, <3>3
  <2>17. V + (x - y) * (x - y) = (l + 1) * (x * x) - 2 * (x * (S + y)) + (Q + y * y)
    <3>1. V = l * xx - 2 * xS + Q
      BY <2>13, <2>14
    <3>2. V + (xx - 2 * xy + yy) = (l * xx + xx) - 2 * (xS + xy) + (Q + yy)
      BY <2>11, <2>15, <3>1
    <3>3. QED BY <2>14, <2>16, <3>2
  <2>18. Good(k)
    BY <2>6, <2>12, <2>17
  <2>19. QED BY <2>3, <2>18
<1>22. Good(n)
  BY <1>1, <1>21, n \in 0 .. n
<1>23. QED BY <1>1, <1>5, <1>6, <1>16, <1>22

\* Closest to the average is least in the sum of squared distances: with p = n x - s,
\* p p is n times (n x x - 2 x s), plus s s.
LEMMA ClosestIsMedoid ==
    ASSUME NEW n \in Nat, n # 0, NEW x \in Int, NEW y \in Int, NEW s \in Int,
           LET p == n * x - s
               q == n * y - s
           IN  (IF p < 0 THEN -p ELSE p) <= (IF q < 0 THEN -q ELSE q)
    PROVE  n * (x * x) - 2 * (x * s) <= n * (y * y) - 2 * (y * s)
<1>1. PICK p, q : p = n * x - s /\ q = n * y - s
  OBVIOUS
<1>2. p \in Int /\ q \in Int
  BY <1>1
<1>3. p * p <= q * q
  <2>1. PICK a, b : a = (IF p < 0 THEN -p ELSE p) /\ b = (IF q < 0 THEN -q ELSE q)
    OBVIOUS
  <2>2. a \in Nat /\ b \in Nat /\ a <= b
    BY <1>1, <1>2, <2>1
  <2>3. a * a <= b * b
    <3>1. a * a <= a * b
      BY <2>2
    <3>2. a * b <= b * b
      BY <2>2
    <3>3. a * a \in Nat /\ a * b \in Nat /\ b * b \in Nat
      BY <2>2
    <3>4. QED BY <3>1, <3>2, <3>3
  <2>4. a * a = p * p
    BY <1>2, <2>1
  <2>5. b * b = q * q
    BY <1>2, <2>1
  <2>6. QED BY <2>3, <2>4, <2>5
<1>4. PICK A, B : A = n * (x * x) - 2 * (x * s) /\ B = n * (y * y) - 2 * (y * s)
  OBVIOUS
<1>5. A \in Int /\ B \in Int
  <2>1. x * x \in Int /\ x * s \in Int /\ y * y \in Int /\ y * s \in Int
    OBVIOUS
  <2>2. n * (x * x) \in Int /\ n * (y * y) \in Int
    BY <2>1
  <2>3. QED BY <1>4, <2>1, <2>2
<1>6. p * p = n * A + s * s
  BY <1>1, <1>4
<1>7. q * q = n * B + s * s
  BY <1>1, <1>4
<1>8. n * A <= n * B
  <2>1. n * A \in Int /\ n * B \in Int /\ s * s \in Int
    BY <1>5
  <2>2. QED BY <1>3, <1>6, <1>7, <2>1
<1>9. A <= B
  BY <1>5, <1>8
<1>10. QED BY <1>4, <1>9

\* Whoever is no farther from the mean has no greater sum of squared distances.
LEMMA LeastSquares ==
    ASSUME NEW ws, NEW list, NEW n, IsPanel("kmean", ws, list, n), NEW i \in 1 .. n, NEW j \in 1 .. n,
           \A k \in 1 .. n : list[k].embedding # <<>>,
           Distance(list[i], list) <= Distance(list[j], list)
    PROVE  Squares(list[i], list) <= Squares(list[j], list)
<1>1. n \in Nat /\ n # 0 /\ 1 \in 1 .. n
  BY PanelLength
<1>2. \A k \in 1 .. n : Len(list[k].embedding) = Len(list[1].embedding)
  <2>1. \A k \in 1 .. n : Len(list[k].embedding) = 1
    BY EmbeddingShape
  <2>2. QED BY <1>1, <2>1
<1>3. PICK x, y, s : x = Coordinate(list[i]) /\ y = Coordinate(list[j]) /\ s = EmbeddingSum(list)
  OBVIOUS
<1>4. x \in Int /\ y \in Int /\ s \in Int
  <2>1. x \in -Extent .. Extent /\ y \in -Extent .. Extent
    BY <1>3, EmbeddingShape
  <2>2. s \in Int
    BY <1>3, DistanceType
  <2>3. QED BY <2>1, <2>2
<1>5. PICK q : Sums([k \in 1 .. n |-> Coordinate(list[k]) * Coordinate(list[k])], q, n)
                 /\ q[n] \in Int
  <2>1. PICK c : c = [k \in 1 .. n |-> Coordinate(list[k]) * Coordinate(list[k])]
    OBVIOUS
  <2>2. \A k \in 1 .. n : c[k] \in Int
    <3> SUFFICES ASSUME NEW k \in 1 .. n PROVE c[k] \in Int
      OBVIOUS
    <3>1. PICK z : z = Coordinate(list[k])
      OBVIOUS
    <3>2. z \in -Extent .. Extent
      BY <3>1, EmbeddingShape
    <3>3. z \in Int /\ z * z \in Int
      BY <3>2
    <3>4. QED BY <2>1, <3>1, <3>3
  <2>3. PICK q : Sums(c, q, n)
    BY <1>1, <2>2, SumsExist
  <2>4. q[n] \in Int
    BY <1>1, <2>2, <2>3, SumsInt, n \in 0 .. n
  <2>5. QED BY <2>1, <2>3, <2>4
<1>6. Squares(list[i], list) = n * (x * x) - 2 * (x * s) + q[n]
  BY <1>3, <1>5, SquaresExpand
<1>7. Squares(list[j], list) = n * (y * y) - 2 * (y * s) + q[n]
  BY <1>3, <1>5, SquaresExpand
<1>8. PICK d, e : d = n * x - s /\ e = n * y - s
  OBVIOUS
<1>9. Distance(list[i], list) = IF d < 0 THEN -d ELSE d
  BY <1>2, <1>3, <1>8, DistanceType
<1>10. Distance(list[j], list) = IF e < 0 THEN -e ELSE e
  BY <1>2, <1>3, <1>8, DistanceType
<1>11. n * (x * x) - 2 * (x * s) <= n * (y * y) - 2 * (y * s)
  <2>1. LET a == n * x - s
            b == n * y - s
        IN  (IF a < 0 THEN -a ELSE a) <= (IF b < 0 THEN -b ELSE b)
    BY <1>8, <1>9, <1>10
  <2>2. QED BY <1>1, <1>4, <2>1, ClosestIsMedoid
<1>12. PICK A, B : A = n * (x * x) - 2 * (x * s) /\ B = n * (y * y) - 2 * (y * s)
  OBVIOUS
<1>13. A \in Int /\ B \in Int /\ A <= B
  <2>1. x * x \in Int /\ x * s \in Int /\ y * y \in Int /\ y * s \in Int
    BY <1>4
  <2>2. n * (x * x) \in Int /\ n * (y * y) \in Int
    BY <1>1, <2>1
  <2>3. QED BY <1>11, <1>12, <2>1, <2>2
<1>14. QED BY <1>5, <1>6, <1>7, <1>12, <1>13

-----------------------------------------------------------------------------
(* What holds of every validation. *)

\* The verdict on a list is one of the results or says why there is none.
LEMMA ChosenType ==
    ASSUME NEW by \in {"judge", "kmean"}, NEW ws, NEW list, NEW n, IsPanel(by, ws, list, n)
    PROVE  Chosen(by, list) \in ws \cup {Nobody, Panic}
<1>1. \A i \in 1 .. n : list[i].of \in ws
  BY DEF IsPanel
<1>2. CASE by = "judge"
  <2>1. IsPanel("judge", ws, list, n)
    BY <1>2
  <2>2. QED BY <1>1, <1>2, <2>1, BestScoredIsBest DEF Chosen
<1>3. CASE by = "kmean"
  <2>1. IsPanel("kmean", ws, list, n)
    BY <1>3
  <2>2. QED BY <1>1, <1>3, <2>1, KMeanIsClosest DEF Chosen
<1>4. QED BY <1>2, <1>3

\* The choices on a list have scores, those of k-mean up to 100.
LEMMA ChoicesType ==
    ASSUME NEW by \in {"judge", "kmean"}, NEW ws, NEW list, NEW n, IsPanel(by, ws, list, n)
    PROVE  \A i \in DOMAIN convertToChoices(by, list) :
              /\ i \in 1 .. n
              /\ convertToChoices(by, list)[i].score \in Nat
              /\ by = "kmean" => /\ convertToChoices(by, list)[i].score <= 100
                                 /\ convertToChoices(by, list)[i].score = ChoiceScore(list[i], list)
<1>1. DOMAIN list = 1 .. n
  BY PanelLength
<1>2. CASE by = "judge"
  <2>1. IsPanel("judge", ws, list, n)
    BY <1>2
  <2>2. convertToChoices(by, list) = [i \in 1 .. n |-> [of |-> list[i].of, score |-> Score(list[i])]]
    BY <1>1, <1>2 DEF convertToChoices
  <2>3. \A i \in 1 .. n : Score(list[i]) \in Nat
    BY <2>1, JudgeMarks
  <2>4. PICK c : c = convertToChoices(by, list)
    OBVIOUS
  <2>5. DOMAIN c = 1 .. n /\ \A i \in 1 .. n : c[i].score = Score(list[i])
    BY <2>2, <2>4
  <2>6. QED BY <1>2, <2>3, <2>4, <2>5
<1>3. CASE by = "kmean"
  <2>1. IsPanel("kmean", ws, list, n)
    BY <1>3
  <2>2. convertToChoices(by, list) = [i \in 1 .. n |-> [of |-> list[i].of, score |-> ChoiceScore(list[i], list)]]
    BY <1>1, <1>3 DEF convertToChoices
  <2>3. \A i \in 1 .. n : ChoiceScore(list[i], list) \in 0 .. 100
    BY <2>1, ChoiceScores
  <2>4. PICK c : c = convertToChoices(by, list)
    OBVIOUS
  <2>5. DOMAIN c = 1 .. n /\ \A i \in 1 .. n : c[i].score = ChoiceScore(list[i], list)
    BY <2>2, <2>4
  <2>6. ASSUME NEW i \in 1 .. n PROVE c[i].score \in Nat /\ c[i].score <= 100
    <3>1. PICK x : x = ChoiceScore(list[i], list)
      OBVIOUS
    <3>2. x \in 0 .. 100
      BY <2>3, <3>1
    <3>3. x \in Nat /\ x <= 100
      BY <3>2
    <3>4. QED BY <2>5, <3>1, <3>3
  <2>7. QED BY <2>4, <2>5, <2>6
<1>4. QED BY <1>2, <1>3

\* The panel of a validation that is done.
LEMMA PanelOfDone ==
    ASSUME EngineIInv, NEW f \in Fields, vpc[f] = "done"
    PROVE  /\ engine \in {"judge", "kmean"} /\ results[f] \in SUBSET Workers
           /\ \E n : IsPanel(engine, results[f], panel[f], n)
           /\ verdict[f] = Chosen(engine, panel[f])
           /\ choices[f] = IF verdict[f] = Panic THEN <<>> ELSE convertToChoices(engine, panel[f])
<1>1. engine \in {"judge", "kmean"} /\ results[f] \in SUBSET Workers
  BY DEF EngineIInv, FlowTypeOK
<1>2. /\ panel[f] \in Panels(engine, results[f])
      /\ verdict[f] = Chosen(engine, panel[f])
      /\ choices[f] = IF verdict[f] = Panic THEN <<>> ELSE convertToChoices(engine, panel[f])
  BY DEF EngineIInv, Decided
<1>3. \E n : IsPanel(engine, results[f], panel[f], n)
  BY <1>1, <1>2, PanelShape
<1>4. QED BY <1>1, <1>2, <1>3

\* Before it is done, a validation has said nothing.
LEMMA SilentBefore ==
    ASSUME EngineIInv, NEW f \in Fields, vpc[f] # "done"
    PROVE  verdict[f] = Undecided /\ panel[f] = <<>> /\ choices[f] = <<>>
BY DEF EngineIInv, Decided

\* No worker has the number of a verdict without a result.
LEMMA NotWorkers == Undecided \notin Workers /\ Nobody \notin Workers /\ Panic \notin Workers
BY WorkersFinite DEF Undecided, Nobody, Panic, Workers

\* The types of the decisions follow from how they were made.
LEMMA TypesHold == EngineIInv => TypeOK
<1> SUFFICES ASSUME EngineIInv PROVE TypeOK
  OBVIOUS
<1>1. FlowTypeOK
  BY DEF EngineIInv
<1>2. \A f \in Fields : verdict[f] \in Workers \cup {Undecided, Nobody, Panic}
  <2> SUFFICES ASSUME NEW f \in Fields PROVE verdict[f] \in Workers \cup {Undecided, Nobody, Panic}
    OBVIOUS
  <2>1. CASE vpc[f] = "done"
    <3>1. PICK n : IsPanel(engine, results[f], panel[f], n)
      BY <2>1, PanelOfDone
    <3>2. Chosen(engine, panel[f]) \in results[f] \cup {Nobody, Panic}
      BY <2>1, <3>1, PanelOfDone, ChosenType
    <3>3. QED BY <2>1, <3>2, PanelOfDone
  <2>2. CASE vpc[f] # "done"
    BY <2>2, SilentBefore
  <2>3. QED BY <2>1, <2>2
<1>3. \A f \in Fields : {panel[f][i].of : i \in DOMAIN panel[f]} \subseteq Workers
  <2> SUFFICES ASSUME NEW f \in Fields PROVE \A i \in DOMAIN panel[f] : panel[f][i].of \in Workers
    OBVIOUS
  <2>1. CASE vpc[f] = "done"
    <3>1. PICK n : IsPanel(engine, results[f], panel[f], n)
      BY <2>1, PanelOfDone
    <3>2. DOMAIN panel[f] = 1 .. n
      BY <3>1, PanelLength
    <3>3. QED BY <2>1, <3>1, <3>2, PanelOfDone DEF IsPanel
  <2>2. CASE vpc[f] # "done"
    BY <2>2, SilentBefore
  <2>3. QED BY <2>1, <2>2
<1>4. \A f \in Fields : \A i \in DOMAIN choices[f] :
         choices[f][i].score \in Nat /\ (engine = "kmean" => choices[f][i].score <= 100)
  <2> SUFFICES ASSUME NEW f \in Fields, NEW i \in DOMAIN choices[f]
               PROVE  choices[f][i].score \in Nat /\ (engine = "kmean" => choices[f][i].score <= 100)
    OBVIOUS
  <2>1. vpc[f] = "done" /\ verdict[f] # Panic
    BY SilentBefore, PanelOfDone
  <2>2. PICK n : IsPanel(engine, results[f], panel[f], n)
    BY <2>1, PanelOfDone
  <2>3. choices[f] = convertToChoices(engine, panel[f])
    BY <2>1, PanelOfDone
  <2>4. QED BY <2>1, <2>2, <2>3, PanelOfDone, ChoicesType
<1>5. verdict \in [Fields -> Workers \cup {Undecided, Nobody, Panic}]
  BY <1>1, <1>2 DEF FlowTypeOK
<1>6. QED BY <1>1, <1>3, <1>4, <1>5 DEF TypeOK, FlowTypeOK, WorkerStates

\* When as many were heard as were started, all of them were heard.
LEMMA AllHeard == EpistemicIInv => FanInMatchesFanOut
<1> SUFFICES ASSUME EpistemicIInv, NEW f \in Fields \ disturbed, vpc[f] \in {"validate", "done"}
             PROVE  /\ collected[f] = spawned[f]
                    /\ Judges[f] > 0 => spawned[f] = Judges[f]
                    /\ \A w \in Workers : state[f][w] \in {"none", "used", "gone"}
  BY DEF FanInMatchesFanOut
<1>1. PICK j : j = spawned[f]
  OBVIOUS
<1>2. j \in 0 .. MaxWorkers /\ MaxWorkers \in Nat
  BY <1>1, WorkersFinite DEF EpistemicIInv, EngineIInv, FlowTypeOK
<1>3. collected[f] = j /\ spawned[f] = j /\ Cardinality(Heard(f)) = j
  BY <1>1 DEF EpistemicIInv, HeardCounted, StartedInOrder
<1>4. PICK First : First = 0 .. (j - 1)
  OBVIOUS
<1>5. IsFiniteSet(First) /\ Cardinality(First) = j
  BY <1>2, <1>4, FS_Interval
<1>6. Heard(f) \subseteq First
  <2>1. \A w \in Heard(f) : w \in Workers /\ state[f][w] # "none"
    BY DEF Heard
  <2>2. \A w \in Heard(f) : w \in Nat /\ w < j
    BY <1>3, <2>1, WorkersFinite DEF EpistemicIInv, StartedInOrder
  <2>3. QED BY <1>2, <1>4, <2>2
<1>7. Heard(f) = First
  BY <1>3, <1>5, <1>6, FS_Subset
<1>8. ASSUME NEW w \in Workers PROVE state[f][w] \in {"none", "used", "gone"}
  <2>1. CASE w < j
    <3>1. w \in First
      BY <1>2, <1>4, <2>1, WorkersFinite
    <3>2. QED BY <1>7, <3>1 DEF Heard
  <2>2. CASE ~(w < j)
    BY <1>3, <2>2 DEF EpistemicIInv, StartedInOrder
  <2>3. QED BY <2>1, <2>2
<1>9. Judges[f] > 0 => spawned[f] = Judges[f]
  BY DEF EpistemicIInv, StartedInOrder
<1>10. QED BY <1>3, <1>8, <1>9

\* Who is chosen has a result that was collected.
LEMMA ChosenUsed == EpistemicIInv => ChosenWasGenerated
<1> SUFFICES ASSUME EpistemicIInv, NEW f \in Fields, verdict[f] \in Workers
             PROVE  state[f][verdict[f]] = "used"
  BY DEF ChosenWasGenerated
<1>0. EngineIInv
  BY DEF EpistemicIInv
<1>1. vpc[f] = "done"
  BY <1>0, SilentBefore, NotWorkers
<1>2. PICK n : IsPanel(engine, results[f], panel[f], n)
  BY <1>0, <1>1, PanelOfDone
<1>3. Chosen(engine, panel[f]) \in results[f] \cup {Nobody, Panic}
  BY <1>0, <1>1, <1>2, PanelOfDone, ChosenType
<1>4. verdict[f] \in results[f]
  BY <1>0, <1>1, <1>3, PanelOfDone, NotWorkers
<1>5. QED BY <1>4 DEF EpistemicIInv, HeardCounted

\* The judges' choice has the best score of the panel.
LEMMA JudgesBest == EngineIInv => JudgeChoosesBest
<1> SUFFICES ASSUME EngineIInv, NEW f \in Fields, engine = "judge", verdict[f] \in Workers
             PROVE  LET a == CHOOSE x \in Range(panel[f]) : x.of = verdict[f]
                    IN  \A b \in Range(panel[f]) :
                           b.completeness + b.correctness <= a.completeness + a.correctness + 1
  BY DEF JudgeChoosesBest
<1>1. vpc[f] = "done"
  BY SilentBefore, NotWorkers
<1>2. PICK list : list = panel[f]
  OBVIOUS
<1>3. PICK n : IsPanel("judge", results[f], list, n)
  BY <1>1, <1>2, PanelOfDone
<1>4. verdict[f] = BestScored(list)
  BY <1>1, <1>2, PanelOfDone DEF Chosen
<1>5. PICK i \in 1 .. n : /\ verdict[f] = list[i].of
                          /\ \A j \in 1 .. n : Score(list[j]) <= Score(list[i])
  BY <1>3, <1>4, BestScoredIsBest, NotWorkers
<1>6. Range(list) = {list[k] : k \in 1 .. n}
  BY <1>3, PanelLength
<1>7. PICK a : a = CHOOSE x \in Range(list) : x.of = verdict[f]
  OBVIOUS
<1>8. a \in Range(list) /\ a.of = verdict[f]
  BY <1>5, <1>6, <1>7
<1>9. a = list[i]
  <2>1. PICK k \in 1 .. n : a = list[k]
    BY <1>6, <1>8
  <2>2. k = i
    BY <1>3, <1>5, <1>8, <2>1 DEF IsPanel
  <2>3. QED BY <2>1, <2>2
<1>10. ASSUME NEW b \in Range(list)
       PROVE  b.completeness + b.correctness <= a.completeness + a.correctness + 1
  <2>1. PICK j \in 1 .. n : b = list[j]
    BY <1>6
  <2>2. PICK p, q : p = Score(list[i]) /\ q = Score(list[j])
    OBVIOUS
  <2>3. PICK c, d : c = a.completeness /\ d = a.correctness
    OBVIOUS
  <2>4. PICK g, h : g = b.completeness /\ h = b.correctness
    OBVIOUS
  <2>5. c \in Nat /\ d \in Nat /\ p \in Nat /\ 2 * p <= c + d
    BY <1>3, <1>9, <2>2, <2>3, JudgeMarks
  <2>6. g \in Nat /\ h \in Nat /\ q \in Nat /\ g + h <= 2 * q + 1
    BY <1>3, <2>1, <2>2, <2>4, JudgeMarks
  <2>7. q <= p
    BY <1>5, <2>2
  <2>8. g + h <= c + d + 1
    BY <2>5, <2>6, <2>7
  <2>9. QED BY <2>3, <2>4, <2>8
<1>11. QED BY <1>2, <1>7, <1>10

\* The panel of a validation that k-mean has decided.
LEMMA KMeanVerdict ==
    ASSUME EngineIInv, NEW f \in Fields, engine = "kmean", verdict[f] \in Workers
    PROVE  \E n : \E i \in 1 .. n :
              /\ IsPanel("kmean", results[f], panel[f], n)
              /\ ~AveragePanics(panel[f])
              /\ verdict[f] = panel[f][i].of
              /\ \A j \in 1 .. n : Distance(panel[f][i], panel[f]) <= Distance(panel[f][j], panel[f])
              /\ choices[f] = convertToChoices("kmean", panel[f])
<1>1. vpc[f] = "done"
  BY SilentBefore, NotWorkers
<1>2. PICK n : IsPanel("kmean", results[f], panel[f], n)
  BY <1>1, PanelOfDone
<1>3. verdict[f] = calculateKMean(panel[f])
  BY <1>1, PanelOfDone DEF Chosen
<1>4. verdict[f] # Panic /\ verdict[f] # Nobody
  BY NotWorkers
<1>5. choices[f] = convertToChoices("kmean", panel[f])
  BY <1>1, <1>4, PanelOfDone
<1>6. /\ ~AveragePanics(panel[f])
      /\ \E i \in 1 .. n :
            /\ calculateKMean(panel[f]) = panel[f][i].of
            /\ \A j \in 1 .. n : Distance(panel[f][i], panel[f]) <= Distance(panel[f][j], panel[f])
  BY <1>2, <1>3, <1>4, KMeanIsClosest
<1>7. QED BY <1>2, <1>3, <1>5, <1>6

\* The choice by embeddings is the medoid of the panel.
LEMMA KMeanMedoid == EngineIInv => KMeanChoosesMedoid
<1> SUFFICES ASSUME EngineIInv, NEW f \in Fields, engine = "kmean", verdict[f] \in Workers,
                    \A a \in Range(panel[f]) : a.embedding # <<>>
             PROVE  LET i == CHOOSE k \in DOMAIN panel[f] : panel[f][k].of = verdict[f]
                    IN  \A j \in DOMAIN panel[f] :
                           /\ Squares(panel[f][i], panel[f]) <= Squares(panel[f][j], panel[f])
                           /\ choices[f][j].score <= choices[f][i].score
  BY DEF KMeanChoosesMedoid
<1>1. PICK list : list = panel[f]
  OBVIOUS
<1>2. PICK n : \E i \in 1 .. n :
              /\ IsPanel("kmean", results[f], list, n)
              /\ verdict[f] = list[i].of
              /\ \A j \in 1 .. n : Distance(list[i], list) <= Distance(list[j], list)
              /\ choices[f] = convertToChoices("kmean", list)
  BY <1>1, KMeanVerdict
<1>3. PICK i \in 1 .. n :
              /\ IsPanel("kmean", results[f], list, n)
              /\ verdict[f] = list[i].of
              /\ \A j \in 1 .. n : Distance(list[i], list) <= Distance(list[j], list)
              /\ choices[f] = convertToChoices("kmean", list)
  BY <1>2
<1>4. DOMAIN list = 1 .. n /\ Range(list) = {list[k] : k \in 1 .. n}
  BY <1>3, PanelLength
<1>5. \A k \in 1 .. n : list[k].embedding # <<>>
  BY <1>1, <1>4
<1>6. PICK k : k = CHOOSE m \in DOMAIN list : list[m].of = verdict[f]
  OBVIOUS
<1>7. k \in 1 .. n /\ list[k].of = verdict[f]
  BY <1>3, <1>4, <1>6
<1>8. k = i
  BY <1>3, <1>7 DEF IsPanel
<1>9. ASSUME NEW j \in 1 .. n
      PROVE  /\ Squares(list[i], list) <= Squares(list[j], list)
             /\ choices[f][j].score <= choices[f][i].score
  <2>1. Squares(list[i], list) <= Squares(list[j], list)
    BY <1>3, <1>5, LeastSquares
  <2>2. choices[f] = [m \in 1 .. n |-> [of |-> list[m].of, score |-> ChoiceScore(list[m], list)]]
    BY <1>3, <1>4 DEF convertToChoices
  <2>3. choices[f][j].score = ChoiceScore(list[j], list) /\ choices[f][i].score = ChoiceScore(list[i], list)
    BY <2>2
  <2>4. ChoiceScore(list[j], list) <= ChoiceScore(list[i], list)
    BY <1>3, ChoiceScores
  <2>5. QED BY <2>1, <2>3, <2>4
<1>10. QED BY <1>1, <1>4, <1>6, <1>8, <1>9

\* The choice by embeddings has one when any result has.
LEMMA KMeanEmbedded == EngineIInv => EmbeddedPreferred
<1> SUFFICES ASSUME EngineIInv, NEW f \in Fields, engine = "kmean", verdict[f] \in Workers,
                    NEW a \in Range(panel[f]), NEW b \in Range(panel[f]),
                    a.of = verdict[f], b.embedding # <<>>, a.embedding = <<>>
             PROVE  FALSE
  BY DEF EmbeddedPreferred
<1>1. PICK list : list = panel[f]
  OBVIOUS
<1>2. PICK n : \E i \in 1 .. n :
              /\ IsPanel("kmean", results[f], list, n)
              /\ ~AveragePanics(list)
              /\ verdict[f] = list[i].of
              /\ \A j \in 1 .. n : Distance(list[i], list) <= Distance(list[j], list)
  BY <1>1, KMeanVerdict
<1>3. PICK i \in 1 .. n :
              /\ IsPanel("kmean", results[f], list, n)
              /\ ~AveragePanics(list)
              /\ verdict[f] = list[i].of
              /\ \A j \in 1 .. n : Distance(list[i], list) <= Distance(list[j], list)
  BY <1>2
<1>4. n \in Nat /\ Range(list) = {list[k] : k \in 1 .. n}
  BY <1>3, PanelLength
<1>5. PICK j \in 1 .. n : b = list[j]
  BY <1>1, <1>4
<1>6. a = list[i]
  <2>1. PICK k \in 1 .. n : a = list[k]
    BY <1>1, <1>4
  <2>2. k = i
    BY <1>3, <2>1 DEF IsPanel
  <2>3. QED BY <2>1, <2>2
<1>7. Len(list[j].embedding) = 1 /\ Len(list[i].embedding) = 0
  BY <1>3, <1>5, <1>6, EmbeddingShape
<1>8. ~(Len(list[j].embedding) > Len(list[1].embedding))
  <2>1. ~(Len(b.embedding) > Len(list[1].embedding))
    BY <1>1, <1>3 DEF AveragePanics
  <2>2. QED BY <1>5, <2>1
<1>9. 1 \in 1 .. n /\ Len(list[1].embedding) \in {0, 1}
  BY <1>3, <1>4, EmbeddingShape
<1>10. Len(list[1].embedding) = 1
  BY <1>7, <1>8, <1>9
<1>11. Distance(list[i], list) = Infinite
  <2>1. Len(list[i].embedding) # Len(list[1].embedding)
    BY <1>7, <1>10
  <2>2. QED BY <1>3, <2>1, DistanceType
<1>12. Distance(list[j], list) < Infinite /\ Distance(list[j], list) \in Nat
  BY <1>3, <1>7, <1>10, DistanceType
<1>13. Distance(list[i], list) <= Distance(list[j], list) /\ Infinite \in Nat
  BY <1>3, EpistemicAssumption
<1>14. QED BY <1>11, <1>12, <1>13

\* EpstimicValidation: however many fields are validated on the one orchestrator, whatever
\* numbers of judges they ask for, each whose count no other changed on the way starts as many
\* workers as it asks for and hears every one of them before the engine is asked, and each
\* gets a value that one of its own workers generated.
THEOREM ValidationSound == Spec => []ValidationInv
<1>1. Init => EpistemicIInv
  BY EpistemicStarts
<1>2. EpistemicIInv /\ [Next]_epistemicVars => EpistemicIInv'
  BY EpistemicStep
<1>3. EpistemicIInv => ValidationInv
  BY TypesHold, AllHeard, ChosenUsed DEF ValidationInv, EpistemicIInv
<1>4. QED BY <1>1, <1>2, <1>3, PTL DEF Spec

\* Best of the judge and calculateKMean, whatever numbers of judges the fields ask for: the
\* judge's choice has the highest score there is, the choice of k-mean is the result with
\* the least sum of squared distances to the others, and never one without an embedding
\* when another has one.
THEOREM EnginesSound == Spec => []EnginesChooseBest
<1>1. Init => EngineIInv
  BY EpistemicStarts DEF EpistemicIInv
<1>2. EngineIInv /\ [Next]_epistemicVars => EngineIInv'
  BY EngineStep
<1>3. EngineIInv => EnginesChooseBest
  BY JudgesBest, KMeanMedoid, KMeanEmbedded DEF EnginesChooseBest
<1>4. QED BY <1>1, <1>2, <1>3, PTL DEF Spec

-----------------------------------------------------------------------------
(* Scores.  A sum over a finite set is what the fold of MapThenSumSet       *)
(* computes; that the fold exists is shown by induction on the cardinality. *)

Picked(s) == CHOOSE d \in s : TRUE
UpTo(S, k) == {s \in SUBSET S : Cardinality(s) <= k}
Folds(f, D, u) == u = [s \in D |-> IF s = {} THEN 0 ELSE f[Picked(s)] + u[s \ {Picked(s)}]]

\* SumOf is the value of a fold at the whole domain.
LEMMA SumOfExpand ==
    ASSUME NEW f, NEW S, S = DOMAIN f
    PROVE  SumOf(f) = (CHOOSE u : Folds(f, SUBSET S, u))[S]
<1>1. SumOf(f) = (CHOOSE u : u = [s \in SUBSET S |->
                     IF s = {} THEN 0
                     ELSE f[CHOOSE d \in s : TRUE] + u[s \ {CHOOSE d \in s : TRUE}]])[S]
  BY DEF SumOf, MapThenSumSet, MapThenFoldSet
<1>2. QED BY <1>1, Zenon DEF Folds, Picked

\* A set without its picked element is smaller.
LEMMA PickedSmaller ==
    ASSUME NEW S, IsFiniteSet(S), NEW s \in SUBSET S, s # {}
    PROVE  /\ Picked(s) \in s /\ s \ {Picked(s)} \in SUBSET S
           /\ Cardinality(s) \in Nat /\ Cardinality(s \ {Picked(s)}) \in Nat
           /\ Cardinality(s \ {Picked(s)}) = Cardinality(s) - 1
<1>1. Picked(s) \in s
  BY DEF Picked
<1>2. IsFiniteSet(s)
  BY FS_Subset
<1>3. IsFiniteSet(s \ {Picked(s)}) /\ Cardinality(s \ {Picked(s)}) = Cardinality(s) - 1
  BY <1>1, <1>2, FS_RemoveElement
<1>4. Cardinality(s) \in Nat /\ Cardinality(s \ {Picked(s)}) \in Nat
  BY <1>2, <1>3, FS_CardinalityType
<1>5. QED BY <1>1, <1>3, <1>4

\* The fold exists, on sets of any size.
LEMMA FoldsExist ==
    ASSUME NEW S, IsFiniteSet(S), NEW f, NEW n \in Nat
    PROVE  \E u : Folds(f, UpTo(S, n), u)
<1> DEFINE Has(k) == \E u : Folds(f, UpTo(S, k), u)
           Bad == {k \in Nat : ~Has(k)}
<1>1. SUFFICES ASSUME Bad # {} PROVE FALSE
  OBVIOUS
<1>2. PICK k \in Bad : \A l \in Bad : k <= l
  BY <1>1, SmallestOf, Bad \in SUBSET Nat
<1>3. k \in Nat /\ ~Has(k)
  BY <1>2
<1>4. \A s \in SUBSET S : Cardinality(s) \in Nat /\ (s = {} <=> Cardinality(s) = 0)
  BY FS_Subset, FS_CardinalityType, FS_EmptySet
<1>5. k # 0
  <2>1. SUFFICES ASSUME k = 0 PROVE FALSE
    OBVIOUS
  <2>2. \A s \in UpTo(S, 0) : s = {}
    BY <1>4 DEF UpTo
  <2>3. PICK u : u = [s \in UpTo(S, 0) |-> 0]
    OBVIOUS
  <2>4. Folds(f, UpTo(S, 0), u)
    BY <2>2, <2>3 DEF Folds
  <2>5. QED BY <1>3, <2>1, <2>4
<1>6. PICK l : l = k - 1
  OBVIOUS
<1>7. l \in Nat /\ ~(k <= l) /\ k = l + 1
  BY <1>3, <1>5, <1>6
<1>8. Has(l)
  <2>1. l \notin Bad
    <3> HIDE DEF Bad
    <3>1. QED BY <1>2, <1>7
  <2> HIDE DEF Has
  <2>2. QED BY <1>7, <2>1
<1>9. PICK u : Folds(f, UpTo(S, l), u)
  BY <1>8
<1>10. PICK t : t = [s \in UpTo(S, k) |-> IF s = {} THEN 0 ELSE f[Picked(s)] + u[s \ {Picked(s)}]]
  OBVIOUS
<1>11. \A s \in UpTo(S, l) : s \in UpTo(S, k) /\ t[s] = u[s]
  <2> SUFFICES ASSUME NEW s \in UpTo(S, l) PROVE s \in UpTo(S, k) /\ t[s] = u[s]
    OBVIOUS
  <2>1. s \in UpTo(S, k)
    BY <1>4, <1>7 DEF UpTo
  <2>2. u[s] = IF s = {} THEN 0 ELSE f[Picked(s)] + u[s \ {Picked(s)}]
    BY <1>9 DEF Folds
  <2>3. t[s] = IF s = {} THEN 0 ELSE f[Picked(s)] + u[s \ {Picked(s)}]
    BY <1>10, <2>1
  <2>4. QED BY <2>1, <2>2, <2>3
<1>12. \A s \in UpTo(S, k) : s # {} => s \ {Picked(s)} \in UpTo(S, l)
  <2> SUFFICES ASSUME NEW s \in UpTo(S, k), s # {} PROVE s \ {Picked(s)} \in UpTo(S, l)
    OBVIOUS
  <2>1. s \in SUBSET S /\ Cardinality(s) <= k
    BY DEF UpTo
  <2>2. /\ s \ {Picked(s)} \in SUBSET S /\ Cardinality(s) \in Nat
        /\ Cardinality(s \ {Picked(s)}) = Cardinality(s) - 1
    BY <2>1, PickedSmaller
  <2>3. Cardinality(s \ {Picked(s)}) <= l
    BY <1>3, <1>7, <2>1, <2>2
  <2>4. QED BY <2>2, <2>3 DEF UpTo
<1>13. \A s \in UpTo(S, k) : t[s] = IF s = {} THEN 0 ELSE f[Picked(s)] + t[s \ {Picked(s)}]
  BY <1>10, <1>11, <1>12
<1>14. Folds(f, UpTo(S, k), t)
  <2>1. t = [s \in UpTo(S, k) |-> t[s]]
    BY <1>10
  <2>2. QED BY <1>13, <2>1 DEF Folds
<1>15. QED BY <1>3, <1>14

\* A sum of integers over a finite set is an integer, 0 over the empty set.
LEMMA SumOfType ==
    ASSUME NEW f, IsFiniteSet(DOMAIN f), \A d \in DOMAIN f : f[d] \in Int
    PROVE  SumOf(f) \in Int /\ (DOMAIN f = {} => SumOf(f) = 0)
<1>1. PICK S : S = DOMAIN f
  OBVIOUS
<1>2. IsFiniteSet(S) /\ \A d \in S : f[d] \in Int
  BY <1>1
<1>3. Cardinality(S) \in Nat
  BY <1>2, FS_CardinalityType
<1>4. \A s \in SUBSET S : IsFiniteSet(s) /\ Cardinality(s) \in Nat /\ Cardinality(s) <= Cardinality(S)
  BY <1>2, FS_Subset, FS_CardinalityType
<1>5. UpTo(S, Cardinality(S)) = SUBSET S
  BY <1>4 DEF UpTo
<1>6. \E u : Folds(f, SUBSET S, u)
  <2>1. \E u : Folds(f, UpTo(S, Cardinality(S)), u)
    BY <1>2, <1>3, FoldsExist
  <2>2. QED BY <1>5, <2>1, Zenon
<1>7. PICK v : v = CHOOSE u : Folds(f, SUBSET S, u)
  OBVIOUS
<1>8. Folds(f, SUBSET S, v)
  BY <1>6, <1>7, Zenon
<1>9. SumOf(f) = v[S]
  BY <1>1, <1>7, SumOfExpand, Zenon
<1>10. v[{}] = 0
  BY <1>8 DEF Folds
<1>11. \A s \in SUBSET S : s # {} => v[s] = f[Picked(s)] + v[s \ {Picked(s)}]
  BY <1>8 DEF Folds
<1> DEFINE Wrong == {k \in Nat : \E s \in SUBSET S : Cardinality(s) = k /\ v[s] \notin Int}
<1>12. Wrong = {}
  <2>1. SUFFICES ASSUME Wrong # {} PROVE FALSE
    OBVIOUS
  <2>2. PICK k \in Wrong : \A l \in Wrong : k <= l
    BY <2>1, SmallestOf, Wrong \in SUBSET Nat
  <2>3. PICK s \in SUBSET S : Cardinality(s) = k /\ v[s] \notin Int
    BY <2>2
  <2>4. s # {}
    BY <1>10, <2>3
  <2>5. PICK r : r = s \ {Picked(s)}
    OBVIOUS
  <2>6. /\ Picked(s) \in S /\ r \in SUBSET S
        /\ Cardinality(r) \in Nat /\ Cardinality(s) \in Nat /\ Cardinality(r) = Cardinality(s) - 1
    BY <1>2, <2>4, <2>5, PickedSmaller
  <2>7. v[r] \notin Int
    <3>1. v[s] = f[Picked(s)] + v[r]
      BY <1>11, <2>3, <2>4, <2>5
    <3>2. f[Picked(s)] \in Int
      BY <1>2, <2>6
    <3>3. QED BY <2>3, <3>1, <3>2
  <2>8. Cardinality(r) \in Wrong
    BY <2>6, <2>7
  <2>9. ~(k <= Cardinality(r))
    BY <2>3, <2>6
  <2>10. QED
    <3> HIDE DEF Wrong
    <3>1. QED BY <2>2, <2>8, <2>9
<1>13. v[S] \in Int
  BY <1>3, <1>12
<1>14. QED BY <1>1, <1>9, <1>10, <1>13

\* Finitely many integers have a least and a greatest among them.
LEMMA FiniteExtremes ==
    ASSUME NEW S \in SUBSET Int, IsFiniteSet(S), S # {}
    PROVE  Min(S) \in S /\ Max(S) \in S
<1> DEFINE Has(T) == /\ \E x \in T : \A y \in T : x <= y
                     /\ \E x \in T : \A y \in T : x >= y
           Bad == {k \in Nat : \E T \in SUBSET S : T # {} /\ Cardinality(T) = k /\ ~Has(T)}
<1>1. Bad = {}
  <2>1. SUFFICES ASSUME Bad # {} PROVE FALSE
    OBVIOUS
  <2>2. PICK k \in Bad : \A l \in Bad : k <= l
    BY <2>1, SmallestOf, Bad \in SUBSET Nat
  <2>3. PICK T \in SUBSET S : T # {} /\ Cardinality(T) = k /\ ~Has(T)
    BY <2>2
  <2>4. PICK r : r = T \ {Picked(T)}
    OBVIOUS
  <2>5. PICK x : x = Picked(T)
    OBVIOUS
  <2>6. /\ x \in T /\ r \in SUBSET S
        /\ Cardinality(r) \in Nat /\ Cardinality(T) \in Nat /\ Cardinality(r) = Cardinality(T) - 1
    BY <2>3, <2>4, <2>5, PickedSmaller
  <2>7. Cardinality(r) \notin Bad
    <3>1. ~(k <= Cardinality(r))
      BY <2>3, <2>6
    <3> HIDE DEF Bad
    <3>2. QED BY <2>2, <3>1
  <2>8. r = {} \/ Has(r)
    <3> HIDE DEF Has
    <3>1. QED BY <2>6, <2>7
  <2>9. \A y \in T : y = x \/ y \in r
    BY <2>4, <2>5
  <2>10. x \in Int /\ T \in SUBSET Int /\ r \subseteq T
    BY <2>4, <2>6
  <2>11. r # {}
    BY <2>3, <2>6, <2>9, <2>10
  <2>12. PICK a \in r : \A y \in r : a <= y
    BY <2>8, <2>11
  <2>13. PICK b \in r : \A y \in r : b >= y
    BY <2>8, <2>11
  <2>14. a \in Int /\ b \in Int /\ a \in T /\ b \in T
    BY <2>10, <2>12, <2>13
  <2>15. \E c \in T : \A y \in T : c <= y
    <3>1. PICK c : c = IF x <= a THEN x ELSE a
      OBVIOUS
    <3>2. c \in T /\ \A y \in T : c <= y
      BY <2>6, <2>9, <2>10, <2>12, <2>14, <3>1
    <3>3. QED BY <3>2
  <2>16. \E c \in T : \A y \in T : c >= y
    <3>1. PICK c : c = IF x >= b THEN x ELSE b
      OBVIOUS
    <3>2. c \in T /\ \A y \in T : c >= y
      BY <2>6, <2>9, <2>10, <2>13, <2>14, <3>1
    <3>3. QED BY <3>2
  <2>17. QED BY <2>3, <2>15, <2>16
<1>2. Has(S)
  <2>1. Cardinality(S) \in Nat
    BY FS_CardinalityType
  <2> HIDE DEF Has
  <2>2. QED BY <1>1, <2>1
<1>3. Min(S) \in S
  BY <1>2 DEF Min
<1>4. Max(S) \in S
  BY <1>2 DEF Max
<1>5. QED BY <1>3, <1>4

\* A float that calculateAggregate may give: a fraction, or NaN.
Fractions == {<<0, 0>>} \cup {<<n, d>> : n \in Int, d \in Nat \ {0}}
NoScore == <<>>
ScoresOrNone == {NoScore} \cup Fractions

\* What makes a fraction.
LEMMA FractionIntro ==
    ASSUME NEW n \in Int, NEW d \in Nat, d = 0 => n = 0
    PROVE  <<n, d>> \in Fractions
  BY DEF Fractions

\* What a fraction is made of.
LEMMA FractionParts ==
    ASSUME NEW x \in Fractions
    PROVE  /\ x = <<x[1], x[2]>> /\ x[1] \in Int /\ x[2] \in Nat
           /\ x[2] = 0 => x[1] = 0 /\ x = <<0, 0>>
           /\ x # NoScore
<1>1. CASE x = <<0, 0>>
  BY <1>1 DEF NoScore
<1>2. CASE x # <<0, 0>>
  <2>1. PICK n \in Int, d \in Nat \ {0} : x = <<n, d>>
    BY <1>2 DEF Fractions
  <2>2. QED BY <2>1 DEF NoScore
<1>3. QED BY <1>1, <1>2

\* The average of an answer is a fraction, NaN when the answer has no numbers.
LEMMA AverageType ==
    ASSUME NEW s \in ScoreAnswers
    PROVE  Average(s) \in Fractions
<1>1. IsFiniteSet(DOMAIN s) /\ \A d \in DOMAIN s : s[d] \in Int
  BY PipelineAssumption
<1>2. SumOf(s) \in Int /\ (DOMAIN s = {} => SumOf(s) = 0)
  BY <1>1, SumOfType
<1>3. Cardinality(DOMAIN s) \in Nat /\ (Cardinality(DOMAIN s) = 0 => DOMAIN s = {})
  BY <1>1, FS_CardinalityType, FS_EmptySet
<1>4. QED BY <1>2, <1>3, FractionIntro DEF Average

\* A weight is a natural number.
LEMMA ScaledWeightType ==
    ASSUME NEW d \in Dimensions
    PROVE  ScaledWeight(d) \in Nat
<1>1. Weights[d] \in Nat /\ IsFiniteSet(Dimensions)
  BY ScoringAssumption DEF Dimensions
<1>2. PICK c \in Nat : c = Cardinality(Dimensions)
  BY <1>1, FS_CardinalityType
<1>3. PICK w \in Nat : w = Weights[d]
  BY <1>1
<1>4. w * c \in Nat
  BY <1>2, <1>3
<1>5. QED BY <1>2, <1>3, <1>4 DEF ScaledWeight

\* A sum over the known dimensions, of weights or of weighted scores, is an integer.
LEMMA WeightedSumTypes ==
    ASSUME NEW s \in ScoreAnswers, NEW known, known = DOMAIN s \cap Dimensions
    PROVE  /\ SumOf([d \in known |-> ScaledWeight(d)]) \in Int
           /\ SumOf([d \in known |-> s[d] * ScaledWeight(d)]) \in Int
<1>1. IsFiniteSet(DOMAIN s) /\ \A d \in DOMAIN s : s[d] \in Int
  BY PipelineAssumption
<1>2. IsFiniteSet(known)
  BY <1>1, FS_Subset, known \subseteq DOMAIN s
<1>3. \A d \in known : s[d] \in Int /\ ScaledWeight(d) \in Nat
  BY <1>1, ScaledWeightType
<1>4. PICK f : f = [d \in known |-> ScaledWeight(d)]
  OBVIOUS
<1>5. SumOf(f) \in Int
  <2>1. DOMAIN f = known /\ \A d \in known : f[d] \in Int
    BY <1>3, <1>4
  <2>2. QED BY <1>2, <2>1, SumOfType
<1>6. PICK g : g = [d \in known |-> s[d] * ScaledWeight(d)]
  OBVIOUS
<1>7. SumOf(g) \in Int
  <2>1. DOMAIN g = known
    BY <1>6
  <2>2. \A d \in known : g[d] \in Int
    <3> SUFFICES ASSUME NEW d \in known PROVE g[d] \in Int
      OBVIOUS
    <3>1. PICK a \in Int : a = s[d]
      BY <1>3
    <3>2. PICK b \in Nat : b = ScaledWeight(d)
      BY <1>3
    <3>3. a * b \in Int
      BY <3>1, <3>2
    <3>4. g[d] = a * b
      BY <1>6, <3>1, <3>2
    <3>5. QED BY <3>3, <3>4
  <2>3. QED BY <1>2, <2>1, <2>2, SumOfType
<1>8. QED BY <1>4, <1>5, <1>6, <1>7

\* calculateAggregate gives a fraction with every method.
LEMMA AggregateType ==
    ASSUME NEW s \in ScoreAnswers, NEW method
    PROVE  CalculateAggregate(method, s) \in Fractions
<1>1. IsFiniteSet(DOMAIN s) /\ \A d \in DOMAIN s : s[d] \in Int
  BY PipelineAssumption
<1>2. CASE method = "weighted_average"
  <2>1. PICK known : known = DOMAIN s \cap Dimensions
    OBVIOUS
  <2>2. PICK total \in Int : total = SumOf([d \in known |-> ScaledWeight(d)])
    BY <2>1, WeightedSumTypes
  <2>3. PICK n \in Int : n = SumOf([d \in known |-> s[d] * ScaledWeight(d)])
    BY <2>1, WeightedSumTypes
  <2>4. CalculateAggregate(method, s) = IF total > 0 THEN <<n, total>> ELSE <<0, 1>>
    BY <1>2, <2>1, <2>2, <2>3, Zenon DEF CalculateAggregate
  <2>5. <<0, 1>> \in Fractions
    BY FractionIntro
  <2>6. total > 0 => <<n, total>> \in Fractions
    BY FractionIntro
  <2>7. QED BY <2>4, <2>5, <2>6
<1>3. PICK range : range = {s[d] : d \in DOMAIN s}
  OBVIOUS
<1>4. IsFiniteSet(range) /\ range \in SUBSET Int
  <2>1. range \in SUBSET Int
    BY <1>1, <1>3
  <2>2. IsFiniteSet(range)
    <3>1. PICK f : f = [d \in DOMAIN s |-> s[d]]
      OBVIOUS
    <3>2. f \in Surjection(DOMAIN s, range)
      BY <1>3, <3>1 DEF Surjection
    <3>3. QED BY <1>1, <3>2, FS_Surjection
  <2>3. QED BY <2>1, <2>2
<1>5. TopScore \in Nat
  BY ScoringAssumption
<1>6. CASE method = "minimum"
  <2>1. CalculateAggregate(method, s) = <<Min(range \cup {TopScore}), 1>>
    BY <1>3, <1>6, Zenon DEF CalculateAggregate
  <2>2. PICK T : T = range \cup {TopScore}
    OBVIOUS
  <2>3. IsFiniteSet(T) /\ T # {} /\ T \in SUBSET Int
    BY <1>4, <1>5, <2>2, FS_AddElement
  <2>4. Min(T) \in Int
    BY <2>3, FiniteExtremes
  <2>5. QED BY <2>1, <2>2, <2>4, FractionIntro
<1>7. CASE method = "maximum"
  <2>1. CalculateAggregate(method, s) = <<Max(range \cup {0}), 1>>
    BY <1>3, <1>7, Zenon DEF CalculateAggregate
  <2>2. PICK T : T = range \cup {0}
    OBVIOUS
  <2>3. IsFiniteSet(T) /\ T # {} /\ T \in SUBSET Int
    BY <1>4, <2>2, FS_AddElement
  <2>4. Max(T) \in Int
    BY <2>3, FiniteExtremes
  <2>5. QED BY <2>1, <2>2, <2>4, FractionIntro
<1>8. CASE method \notin {"weighted_average", "minimum", "maximum"}
  <2>1. CalculateAggregate(method, s) = Average(s)
    BY <1>8 DEF CalculateAggregate
  <2>2. QED BY <2>1, AverageType
<1>9. QED BY <1>2, <1>6, <1>7, <1>8

\* Every iteration has no score, or one that can be compared.
LEMMA ScoresType ==
    ASSUME NEW s \in ScoreAnswers, NEW method
    PROVE  EvaluateScores(method, s) \in ScoresOrNone
  BY AggregateType, AverageType DEF EvaluateScores, ScoresOrNone, NoScore

\* Order of fractions: what is not above b, and b is below, is below too.
LEMMA BelowThenLess ==
    ASSUME NEW a \in Fractions, NEW b \in Fractions, NEW c \in Fractions,
           ~Less(b, a), Less(b, c)
    PROVE  ~Less(c, a) /\ (a # <<0, 0>> => Less(a, c))
<1>1. PICK a1 \in Int, a2 \in Nat : a = <<a1, a2>> /\ (a2 = 0 => a1 = 0 /\ a = <<0, 0>>)
  BY FractionParts
<1>2. PICK b1 \in Int, b2 \in Nat : b = <<b1, b2>> /\ (b2 = 0 => b1 = 0)
  BY FractionParts
<1>3. PICK c1 \in Int, c2 \in Nat : c = <<c1, c2>> /\ (c2 = 0 => c1 = 0)
  BY FractionParts
<1>4. ~(b1 * a2 < a1 * b2) /\ b1 * c2 < c1 * b2
  BY <1>1, <1>2, <1>3 DEF Less
<1>5. b2 # 0 /\ c2 # 0
  BY <1>2, <1>3, <1>4
<1>6. (a1 * b2) * c2 <= (b1 * a2) * c2
  <2>1. PICK x \in Int : x = a1 * b2
    OBVIOUS
  <2>2. PICK y \in Int : y = b1 * a2
    OBVIOUS
  <2>3. x <= y
    BY <1>4, <2>1, <2>2
  <2>4. x * c2 <= y * c2
    BY <2>3
  <2>5. QED BY <2>1, <2>2, <2>4
<1>7. a2 # 0 => (b1 * c2) * a2 < (c1 * b2) * a2
  <2>1. PICK x \in Int : x = b1 * c2
    OBVIOUS
  <2>2. PICK y \in Int : y = c1 * b2
    OBVIOUS
  <2>3. x < y
    BY <1>4, <2>1, <2>2
  <2>4. a2 # 0 => x * a2 < y * a2
    BY <2>3
  <2>5. QED BY <2>1, <2>2, <2>4
<1>8. (b1 * a2) * c2 = (b1 * c2) * a2 /\ (c1 * b2) * a2 = (c1 * a2) * b2 /\ (a1 * b2) * c2 = (a1 * c2) * b2
  OBVIOUS
<1>9. a2 # 0 => a1 * c2 < c1 * a2
  <2>1. PICK x \in Int : x = a1 * c2
    OBVIOUS
  <2>2. PICK y \in Int : y = c1 * a2
    OBVIOUS
  <2>3. a2 # 0 => x * b2 < y * b2
    <3>1. PICK p \in Int : p = (a1 * b2) * c2
      OBVIOUS
    <3>2. PICK q \in Int : q = (b1 * a2) * c2
      OBVIOUS
    <3>3. PICK r \in Int : r = (c1 * b2) * a2
      OBVIOUS
    <3>4. p <= q /\ (a2 # 0 => q < r) /\ p = x * b2 /\ r = y * b2
      BY <1>6, <1>7, <1>8, <2>1, <2>2, <3>1, <3>2, <3>3
    <3>5. QED BY <3>4
  <2>4. a2 # 0 => x < y
    BY <1>5, <2>3
  <2>5. QED BY <2>1, <2>2, <2>4
<1>10. a2 = 0 => ~(c1 * a2 < a1 * c2)
  BY <1>1
<1>11. ~(c1 * a2 < a1 * c2)
  BY <1>9, <1>10
<1>12. QED BY <1>1, <1>3, <1>9, <1>11 DEF Less

\* The same from above.
LEMMA LessThenAbove ==
    ASSUME NEW a \in Fractions, NEW b \in Fractions, NEW c \in Fractions,
           ~Less(a, b), Less(c, b)
    PROVE  ~Less(a, c) /\ (a # <<0, 0>> => Less(c, a))
\* The order is turned around by changing the sign.
<1> DEFINE Neg(x) == <<0 - x[1], x[2]>>
<1>1. \A x \in Fractions : Neg(x) \in Fractions /\ (Neg(x) = <<0, 0>> => x = <<0, 0>>)
  <2> SUFFICES ASSUME NEW x \in Fractions
               PROVE  Neg(x) \in Fractions /\ (Neg(x) = <<0, 0>> => x = <<0, 0>>)
    OBVIOUS
  <2>1. x = <<x[1], x[2]>> /\ x[1] \in Int /\ x[2] \in Nat /\ (x[2] = 0 => x[1] = 0)
    BY FractionParts
  <2>2. Neg(x) \in Fractions
    BY <2>1, FractionIntro
  <2>3. Neg(x) = <<0, 0>> => x = <<0, 0>>
    BY <2>1
  <2>4. QED BY <2>2, <2>3
<1>2. \A x, y \in Fractions : Less(Neg(x), Neg(y)) <=> Less(y, x)
  <2> SUFFICES ASSUME NEW x \in Fractions, NEW y \in Fractions
               PROVE  Less(Neg(x), Neg(y)) <=> Less(y, x)
    OBVIOUS
  <2>1. PICK x1 \in Int, x2 \in Nat : x = <<x1, x2>>
    BY FractionParts
  <2>2. PICK y1 \in Int, y2 \in Nat : y = <<y1, y2>>
    BY FractionParts
  <2>3. Less(Neg(x), Neg(y)) <=> (0 - x1) * y2 < (0 - y1) * x2
    BY <2>1, <2>2 DEF Less
  <2>4. Less(y, x) <=> y1 * x2 < x1 * y2
    BY <2>1, <2>2 DEF Less
  <2>5. (0 - x1) * y2 = 0 - (x1 * y2) /\ (0 - y1) * x2 = 0 - (y1 * x2)
    OBVIOUS
  <2>6. PICK p \in Int : p = x1 * y2
    OBVIOUS
  <2>7. PICK q \in Int : q = y1 * x2
    OBVIOUS
  <2>8. QED BY <2>3, <2>4, <2>5, <2>6, <2>7
<1> HIDE DEF Neg
<1>3. ~Less(Neg(b), Neg(a)) /\ Less(Neg(b), Neg(c))
  BY <1>2
<1>4. ~Less(Neg(c), Neg(a)) /\ (Neg(a) # <<0, 0>> => Less(Neg(a), Neg(c)))
  BY <1>1, <1>3, BelowThenLess
<1>5. QED BY <1>1, <1>2, <1>4

-----------------------------------------------------------------------------
(* The choice among the iterations. *)

Better(list, highest, i, j) ==
    IF highest THEN Less(list[i], list[j]) ELSE Less(list[j], list[i])
Found(list, highest, n, k) ==    \* what selectByScore has after result n, when it had k before
    IF list[n] # NoScore /\ (k = 0 \/ Better(list, highest, k, n)) THEN n ELSE k
Searches(list, highest, n, u) ==
    u = [m \in 0 .. n |-> IF m = 0 THEN 0 ELSE Found(list, highest, m, u[m - 1])]

\* selectByScore is a search in which the n-th result is looked at n-th.
LEMMA SelectExpand ==
    ASSUME NEW list, NEW highest
    PROVE  \E v : /\ v = CHOOSE u : Searches(list, highest, Len(list), u)
                  /\ SelectByScore(list, highest) = IF v[Len(list)] = 0 THEN 1 ELSE v[Len(list)]
<1>1. SelectByScore(list, highest) =
        IF (CHOOSE u : Searches(list, highest, Len(list), u))[Len(list)] = 0 THEN 1
        ELSE (CHOOSE u : Searches(list, highest, Len(list), u))[Len(list)]
  BY DEF SelectByScore, Searches, Found, Better, NoScore
<1>2. WITNESS CHOOSE u : Searches(list, highest, Len(list), u)
<1>3. QED BY <1>1, Zenon

\* The search exists, for any number of results.
LEMMA SearchesExist ==
    ASSUME NEW list, NEW highest, NEW n \in Nat
    PROVE  \E u : Searches(list, highest, n, u)
<1> DEFINE Has(k) == \E u : Searches(list, highest, k, u)
           Bad == {k \in Nat : ~Has(k)}
<1>1. SUFFICES ASSUME Bad # {} PROVE FALSE
  OBVIOUS
<1>2. PICK k \in Bad : \A l \in Bad : k <= l
  BY <1>1, SmallestOf, Bad \in SUBSET Nat
<1>3. k \in Nat /\ ~Has(k)
  BY <1>2
<1>4. k # 0
  <2>1. SUFFICES ASSUME k = 0 PROVE FALSE
    OBVIOUS
  <2>2. PICK u : u = [m \in 0 .. 0 |-> 0]
    OBVIOUS
  <2>3. Searches(list, highest, 0, u)
    BY <2>2 DEF Searches
  <2>4. QED BY <1>3, <2>1, <2>3
<1>5. PICK l : l = k - 1
  OBVIOUS
<1>6. l \in Nat /\ ~(k <= l) /\ k = l + 1
  BY <1>3, <1>4, <1>5
<1>7. Has(l)
  <2>1. l \notin Bad
    <3> HIDE DEF Bad
    <3>1. QED BY <1>2, <1>6
  <2> HIDE DEF Has
  <2>2. QED BY <1>6, <2>1
<1>8. PICK u : Searches(list, highest, l, u)
  BY <1>7
<1>9. PICK t : t = [m \in 0 .. k |-> IF m = 0 THEN 0 ELSE Found(list, highest, m, u[m - 1])]
  OBVIOUS
<1>10. \A m \in 0 .. l : m \in 0 .. k /\ t[m] = u[m]
  <2> SUFFICES ASSUME NEW m \in 0 .. l PROVE m \in 0 .. k /\ t[m] = u[m]
    OBVIOUS
  <2>1. m \in 0 .. k
    BY <1>6
  <2>2. u[m] = IF m = 0 THEN 0 ELSE Found(list, highest, m, u[m - 1])
    BY <1>8 DEF Searches
  <2>3. t[m] = IF m = 0 THEN 0 ELSE Found(list, highest, m, u[m - 1])
    BY <1>9, <2>1
  <2>4. QED BY <2>1, <2>2, <2>3
<1>11. \A m \in 0 .. k : m # 0 => m - 1 \in 0 .. l
  BY <1>6
<1>12. \A m \in 0 .. k : t[m] = IF m = 0 THEN 0 ELSE Found(list, highest, m, t[m - 1])
  BY <1>9, <1>10, <1>11
<1>13. Searches(list, highest, k, t)
  <2>1. t = [m \in 0 .. k |-> t[m]]
    BY <1>9
  <2>2. QED BY <1>12, <2>1 DEF Searches
<1>14. QED BY <1>3, <1>13

\* k is the best of the first n iterations, the earliest of equals; 0 when none has a score.
BestOf(list, highest, n, k) ==
    /\ k = 0 => \A i \in 1 .. n : list[i] = NoScore
    /\ k # 0 =>
        /\ k \in 1 .. n /\ list[k] # NoScore
        /\ \A i \in 1 .. n : list[i] # NoScore =>
              /\ ~Better(list, highest, k, i)
              /\ i < k /\ list[i] # <<0, 0>> => Better(list, highest, i, k)

\* One more result: the choice stays the best.
LEMMA FoundIsBest ==
    ASSUME NEW list, NEW highest \in BOOLEAN, NEW n \in Nat, NEW k \in 0 .. n,
           \A i \in 1 .. n + 1 : list[i] \in ScoresOrNone,
           BestOf(list, highest, n, k)
    PROVE  /\ Found(list, highest, n + 1, k) \in 0 .. n + 1
           /\ BestOf(list, highest, n + 1, Found(list, highest, n + 1, k))
<1>1. PICK m : m = n + 1
  OBVIOUS
<1>2. m \in 1 .. m /\ n < m /\ m \in Nat /\ \A i \in 1 .. m : i \in 1 .. n \/ i = m
  BY <1>1
<1>3. \A i \in 1 .. n : i \in 1 .. m /\ i < m /\ ~(m < i)
  BY <1>1
<1>4. \A i \in 1 .. m : list[i] # NoScore => list[i] \in Fractions
  BY <1>1 DEF ScoresOrNone
<1>5. \A i \in 1 .. m : list[i] # NoScore => ~Less(list[i], list[i])
  <2> SUFFICES ASSUME NEW i \in 1 .. m, list[i] # NoScore PROVE ~Less(list[i], list[i])
    OBVIOUS
  <2>1. PICK x1 \in Int, x2 \in Nat : list[i] = <<x1, x2>>
    BY <1>4, FractionParts
  <2>2. ~(x1 * x2 < x1 * x2)
    OBVIOUS
  <2>3. QED BY <2>1, <2>2 DEF Less
<1>6. CASE list[m] = NoScore
  <2>1. Found(list, highest, m, k) = k
    BY <1>6 DEF Found
  <2>2. k = 0 => \A i \in 1 .. m : list[i] = NoScore
    BY <1>2, <1>6 DEF BestOf
  <2>3. ASSUME k # 0
        PROVE  /\ k \in 1 .. m /\ list[k] # NoScore
               /\ \A i \in 1 .. m : list[i] # NoScore => i \in 1 .. n
    BY <1>2, <1>3, <1>6, <2>3 DEF BestOf
  <2>4. BestOf(list, highest, m, k)
    BY <2>2, <2>3 DEF BestOf
  <2>5. QED BY <1>1, <2>1, <2>4
<1>7. CASE list[m] # NoScore /\ k = 0
  <2>1. Found(list, highest, m, k) = m
    BY <1>7 DEF Found
  <2>2. \A i \in 1 .. m : list[i] # NoScore => i = m
    BY <1>2, <1>7 DEF BestOf
  <2>3. ~Better(list, highest, m, m)
    BY <1>2, <1>5, <1>7 DEF Better
  <2>4. m # 0 /\ ~(m < m)
    BY <1>2
  <2>5. BestOf(list, highest, m, m)
    BY <1>2, <1>7, <2>2, <2>3, <2>4 DEF BestOf
  <2>6. QED BY <1>1, <2>1, <2>5
<1>8. CASE list[m] # NoScore /\ k # 0 /\ ~Better(list, highest, k, m)
  <2>1. Found(list, highest, m, k) = k
    BY <1>8 DEF Found
  <2>2. k \in 1 .. n /\ list[k] # NoScore
    BY <1>8 DEF BestOf
  <2>3. \A i \in 1 .. m : list[i] # NoScore =>
              /\ ~Better(list, highest, k, i)
              /\ i < k /\ list[i] # <<0, 0>> => Better(list, highest, i, k)
    <3> SUFFICES ASSUME NEW i \in 1 .. m, list[i] # NoScore
                 PROVE  /\ ~Better(list, highest, k, i)
                        /\ i < k /\ list[i] # <<0, 0>> => Better(list, highest, i, k)
      OBVIOUS
    <3>1. CASE i \in 1 .. n
      BY <1>8, <3>1 DEF BestOf
    <3>2. CASE i = m
      <4>1. ~(i < k)
        BY <1>3, <2>2, <3>2
      <4>2. QED BY <1>8, <3>2, <4>1
    <3>3. QED BY <1>2, <3>1, <3>2
  <2>4. BestOf(list, highest, m, k)
    BY <1>3, <1>8, <2>2, <2>3 DEF BestOf
  <2>5. QED BY <1>1, <2>1, <2>4
<1>9. CASE list[m] # NoScore /\ k # 0 /\ Better(list, highest, k, m)
  <2>1. Found(list, highest, m, k) = m
    BY <1>9 DEF Found
  <2>2. k \in 1 .. n /\ k \in 1 .. m /\ list[k] # NoScore
    BY <1>3, <1>9 DEF BestOf
  <2>3. \A i \in 1 .. m : list[i] # NoScore =>
              /\ ~Better(list, highest, m, i)
              /\ i < m /\ list[i] # <<0, 0>> => Better(list, highest, i, m)
    <3> SUFFICES ASSUME NEW i \in 1 .. m, list[i] # NoScore
                 PROVE  /\ ~Better(list, highest, m, i)
                        /\ i < m /\ list[i] # <<0, 0>> => Better(list, highest, i, m)
      OBVIOUS
    <3>1. CASE i = m
      <4>1. ~(i < m)
        BY <1>2, <3>1
      <4>2. ~Better(list, highest, m, m)
        BY <1>2, <1>5, <1>9 DEF Better
      <4>3. QED BY <3>1, <4>1, <4>2
    <3>2. CASE i \in 1 .. n
      <4>1. ~Better(list, highest, k, i)
        BY <1>9, <3>2 DEF BestOf
      <4>2. list[i] \in Fractions /\ list[k] \in Fractions /\ list[m] \in Fractions
        BY <1>2, <1>4, <1>9, <2>2
      <4>3. CASE highest
        <5>1. ~Less(list[k], list[i]) /\ Less(list[k], list[m])
          BY <1>9, <4>1, <4>3 DEF Better
        <5>2. ~Less(list[m], list[i]) /\ (list[i] # <<0, 0>> => Less(list[i], list[m]))
          BY <4>2, <5>1, BelowThenLess
        <5>3. QED BY <4>3, <5>2 DEF Better
      <4>4. CASE ~highest
        <5>1. ~Less(list[i], list[k]) /\ Less(list[m], list[k])
          BY <1>9, <4>1, <4>4 DEF Better
        <5>2. ~Less(list[i], list[m]) /\ (list[i] # <<0, 0>> => Less(list[m], list[i]))
          BY <4>2, <5>1, LessThenAbove
        <5>3. QED BY <4>4, <5>2 DEF Better
      <4>5. QED BY <4>3, <4>4
    <3>3. QED BY <1>2, <3>1, <3>2
  <2>4. m # 0
    BY <1>2
  <2>5. BestOf(list, highest, m, m)
    BY <1>2, <1>9, <2>3, <2>4 DEF BestOf
  <2>6. QED BY <1>1, <2>1, <2>5
<1>10. QED BY <1>6, <1>7, <1>8, <1>9

\* selectByScore gives the earliest of the best iterations, for any list of iterations.
LEMMA SelectsBest ==
    ASSUME NEW list, Len(list) \in Nat \ {0}, NEW highest \in BOOLEAN,
           \A i \in 1 .. Len(list) : list[i] \in ScoresOrNone
    PROVE  LET k == SelectByScore(list, highest)
           IN  /\ k \in 1 .. Len(list)
               /\ \A i \in 1 .. Len(list) : list[i] # NoScore =>
                    /\ list[k] # NoScore
                    /\ ~Better(list, highest, k, i)
                    /\ i < k /\ list[i] # <<0, 0>> => Better(list, highest, i, k)
<1>1. PICK n \in Nat : n = Len(list) /\ n # 0
  OBVIOUS
<1>2. PICK v : /\ v = CHOOSE u : Searches(list, highest, Len(list), u)
               /\ SelectByScore(list, highest) = IF v[Len(list)] = 0 THEN 1 ELSE v[Len(list)]
  BY SelectExpand, Zenon
<1>3. Searches(list, highest, n, v)
  <2>1. Searches(list, highest, Len(list), v)
    BY <1>2, SearchesExist, Zenon
  <2>2. QED BY <1>1, <2>1
<1>4. v[0] = 0 /\ \A m \in 1 .. n : v[m] = Found(list, highest, m, v[m - 1])
  BY <1>3 DEF Searches
<1> DEFINE Good(m) == v[m] \in 0 .. m /\ BestOf(list, highest, m, v[m])
           Bad == {m \in 0 .. n : ~Good(m)}
<1>5. Bad = {}
  <2>1. SUFFICES ASSUME Bad # {} PROVE FALSE
    OBVIOUS
  <2>2. PICK k \in Bad : \A l \in Bad : k <= l
    BY <2>1, SmallestOf, Bad \in SUBSET Nat
  <2>3. k \in 0 .. n /\ ~Good(k)
    BY <2>2
  <2>4. k # 0
    <3>1. Good(0)
      BY <1>4 DEF BestOf
    <3> HIDE DEF Good
    <3>2. QED BY <2>3, <3>1
  <2>5. PICK l : l = k - 1
    OBVIOUS
  <2>6. l \in 0 .. n /\ l \in Nat /\ ~(k <= l) /\ k = l + 1 /\ k \in 1 .. n
    BY <2>3, <2>4, <2>5
  <2>7. Good(l)
    <3>1. l \notin Bad
      <4> HIDE DEF Bad
      <4>1. QED BY <2>2, <2>6
    <3> HIDE DEF Good
    <3>2. QED BY <2>6, <3>1
  <2>8. \A i \in 1 .. l + 1 : list[i] \in ScoresOrNone
    BY <1>1, <2>6
  <2>9. PICK j : j = v[l]
    OBVIOUS
  <2>10. j \in 0 .. l /\ BestOf(list, highest, l, j)
    BY <2>7, <2>9
  <2>11. /\ Found(list, highest, l + 1, j) \in 0 .. l + 1
         /\ BestOf(list, highest, l + 1, Found(list, highest, l + 1, j))
    BY <2>6, <2>8, <2>10, FoundIsBest
  <2>12. v[k] = Found(list, highest, l + 1, j)
    BY <1>4, <2>5, <2>6, <2>9
  <2>13. Good(k)
    BY <2>6, <2>11, <2>12
  <2> HIDE DEF Good
  <2>14. QED BY <2>3, <2>13
<1>6. Good(n)
  <2> HIDE DEF Good
  <2>1. QED BY <1>5
<1>7. SelectByScore(list, highest) = IF v[n] = 0 THEN 1 ELSE v[n]
  BY <1>1, <1>2
<1>8. PICK k : k = SelectByScore(list, highest)
  OBVIOUS
<1>9. CASE v[n] = 0
  <2>1. k = 1
    BY <1>7, <1>8, <1>9
  <2>2. \A i \in 1 .. n : list[i] = NoScore
    BY <1>6, <1>9 DEF BestOf
  <2>3. QED BY <1>1, <1>8, <2>1, <2>2
<1>10. CASE v[n] # 0
  <2>1. k = v[n]
    BY <1>7, <1>8, <1>10
  <2>2. /\ k \in 1 .. n /\ list[k] # NoScore
        /\ \A i \in 1 .. n : list[i] # NoScore =>
              /\ ~Better(list, highest, k, i)
              /\ i < k /\ list[i] # <<0, 0>> => Better(list, highest, i, k)
    BY <1>6, <1>10, <2>1 DEF BestOf
  <2>3. QED BY <1>1, <1>8, <2>2
<1>11. QED BY <1>9, <1>10

-----------------------------------------------------------------------------
(* The field through its loop, its scores and its decision point.           *)

Places == {"start", "turn", "generate", "terminate", "select", "score", "decide", "execute",
           "done", "dropped"}

PipelineTypes ==
    /\ config \in Configs /\ ppc \in Places /\ ended \in BOOLEAN
    /\ iters \in Seq(ScoresOrNone) /\ Len(iters) <= config.max
    /\ stopped \in 0 .. config.max /\ feedback \in 0 .. config.max

\* Where the counters of the loop stand at each of its places.
LoopCounters ==
    /\ ppc = "start" => Len(iters) = 0 /\ feedback = 0
    /\ ppc = "generate" => Len(iters) < config.max
    /\ ppc = "terminate" => Len(iters) # 0
    /\ ppc \in {"start", "turn", "generate", "terminate"} => stopped = 0
    /\ stopped # 0 => Len(iters) = stopped
    /\ ~config.feedback => feedback = 0
    /\ config.feedback =>
          /\ ppc = "turn" => feedback = IF Len(iters) < config.max \/ config.max = 0 THEN Len(iters)
                                        ELSE config.max - 1
          /\ ppc = "generate" => feedback = Len(iters)
          /\ ppc = "terminate" => feedback = Len(iters) - 1
          /\ stopped # 0 => feedback = stopped - 1

\* Nothing is selected before the loop is over.
Selection ==
    /\ ppc \in {"start", "turn", "generate", "terminate", "select"} => best = {}
    /\ best \subseteq 1 .. Len(iters)
    /\ KeepsBest

\* Branches are judged by priority, and none after the first that matched or failed.
JudgedInOrder ==
    /\ open \subseteq DOMAIN Branches /\ DOMAIN judged = DOMAIN Branches \ open
    /\ \A b \in DOMAIN judged, c \in open : Branches[c].priority <= Branches[b].priority
    /\ ppc \notin {"execute", "done", "dropped"} => \A b \in DOMAIN judged : judged[b] = "false"
    /\ \A b, c \in DOMAIN judged : judged[b] = "true" /\ c # b => judged[c] = "false"
    /\ taken \subseteq {b \in DOMAIN judged : judged[b] = "true"}

PipelineIInv == PipelineTypes /\ LoopCounters /\ Selection /\ JudgedInOrder

\* A condition is true, false or an error, and so is a branch.
LEMMA BranchValues ==
    ASSUME NEW conditions, NEW data, NEW generated
    PROVE  EvaluateBranch(conditions, data, generated) \in {"true", "false", "error"}
<1>1. \A lhs, op, rhs : CompareValues(lhs, op, rhs) \in {"true", "false", "error"}
  <2>1. \A b : Bool(b) \in {"true", "false"}
    BY DEF Bool
  <2>2. QED BY <2>1 DEF CompareValues
<1>2. \A c : EvaluateCondition(c, data, generated) \in {"true", "false", "error"}
  BY <1>1 DEF EvaluateCondition
<1>3. QED BY <1>2 DEF EvaluateBranch

\* Whatever the model answers, a branch is judged true, false or an error.
LEMMA JudgementValues ==
    ASSUME NEW b \in DOMAIN Branches, NEW r \in Judgements[b]
    PROVE  r \in {"true", "false", "error"}
  BY BranchValues DEF Judgements

\* The iterations selectResult names exist, and under the scores they are the best.
LEMMA SelectResultSound ==
    ASSUME NEW list \in Seq(ScoresOrNone), list # <<>>, NEW strategy,
           NEW B, B = SelectResult(list, strategy)
    PROVE  /\ B \subseteq 1 .. Len(list)
           /\ strategy \in {"highest", "lowest"} =>
                \A k \in B, i \in 1 .. Len(list) :
                    list[i] # <<>> =>
                        /\ list[k] # <<>>
                        /\ strategy = "highest" => ~Less(list[k], list[i])
                        /\ strategy = "lowest" => ~Less(list[i], list[k])
                        /\ i < k /\ list[i] # <<0, 0>> => Less(list[i], list[k]) \/ Less(list[k], list[i])
<1>1. Len(list) \in Nat \ {0} /\ \A i \in 1 .. Len(list) : list[i] \in ScoresOrNone
  OBVIOUS
<1>2. CASE strategy = "highest"
  <2>1. PICK k : k = SelectByScore(list, TRUE)
    OBVIOUS
  <2>2. B = {k}
    BY <1>2, <2>1 DEF SelectResult
  <2>3. /\ k \in 1 .. Len(list)
        /\ \A i \in 1 .. Len(list) : list[i] # NoScore =>
             /\ list[k] # NoScore
             /\ ~Better(list, TRUE, k, i)
             /\ i < k /\ list[i] # <<0, 0>> => Better(list, TRUE, i, k)
    BY <1>1, <2>1, SelectsBest
  <2>4. QED BY <1>2, <2>2, <2>3 DEF Better, NoScore
<1>3. CASE strategy = "lowest"
  <2>1. PICK k : k = SelectByScore(list, FALSE)
    OBVIOUS
  <2>2. B = {k}
    BY <1>3, <2>1 DEF SelectResult
  <2>3. /\ k \in 1 .. Len(list)
        /\ \A i \in 1 .. Len(list) : list[i] # NoScore =>
             /\ list[k] # NoScore
             /\ ~Better(list, FALSE, k, i)
             /\ i < k /\ list[i] # <<0, 0>> => Better(list, FALSE, i, k)
    BY <1>1, <2>1, SelectsBest
  <2>4. QED BY <1>3, <2>2, <2>3 DEF Better, NoScore
<1>4. CASE strategy \notin {"highest", "lowest"}
  <2>1. B \in {{1}, 1 .. Len(list), {Len(list)}}
    BY <1>4 DEF SelectResult
  <2>2. QED BY <1>1, <1>4, <2>1
<1>5. QED BY <1>2, <1>3, <1>4

\* The invariant holds when processField begins.
LEMMA PipelineInitially ==
    ASSUME PipelineInit
    PROVE  PipelineIInv
<1>1. config.max \in Nat
  BY PipelineAssumption DEF PipelineInit
<1>2. PipelineTypes
  <2>1. iters \in Seq(ScoresOrNone) /\ Len(iters) = 0
    BY DEF PipelineInit
  <2>2. config \in Configs /\ ended \in BOOLEAN
    BY Zenon DEF PipelineInit
  <2>3. ppc \in Places /\ stopped = 0 /\ feedback = 0
    BY DEF PipelineInit, Places
  <2>4. QED BY <1>1, <2>1, <2>2, <2>3 DEF PipelineTypes
<1>3. LoopCounters
  BY DEF PipelineInit, LoopCounters
<1>4. Selection
  BY DEF PipelineInit, Selection, KeepsBest
<1>5. JudgedInOrder
  BY DEF PipelineInit, JudgedInOrder
<1>6. QED BY <1>2, <1>3, <1>4, <1>5 DEF PipelineIInv

\* A step that only moves on keeps what was selected.
LEMMA SelectionKept ==
    ASSUME Selection, UNCHANGED <<config, iters, best>>,
           ppc' \in {"start", "turn", "generate", "terminate", "select"} =>
               ppc \in {"start", "turn", "generate", "terminate", "select"}
    PROVE  Selection'
<1>1. KeepsBest'
  BY DEF Selection, KeepsBest
<1>2. QED BY <1>1 DEF Selection

\* A step that judges no branch, and takes none, keeps the order.
LEMMA JudgedKept ==
    ASSUME JudgedInOrder, UNCHANGED <<open, judged>>, taken' \subseteq taken,
           ppc \in {"execute", "done", "dropped"} => ppc' \in {"execute", "done", "dropped"}
    PROVE  JudgedInOrder'
  BY DEF JudgedInOrder

\* The steps outside the loop's own leave its counters as they are.
LEMMA StepKeepsLoop ==
    ASSUME PipelineTypes, LoopCounters, Start \/ Turn \/ ScoreResult \/ Decide \/ Execute \/ End
    PROVE  PipelineTypes' /\ LoopCounters'
<1>1. config.max \in Nat /\ Len(iters) \in Nat
  BY PipelineAssumption DEF PipelineTypes
<1>2. CASE Start
  <2>1. PipelineTypes'
    BY <1>2 DEF Start, PipelineTypes, Places
  <2>2. LoopCounters'
    BY <1>1, <1>2 DEF Start, LoopCounters, PipelineTypes
  <2>3. QED BY <2>1, <2>2
<1>3. CASE Turn
  <2>1. /\ ppc' \in {"select", "dropped", "generate"}
        /\ ppc' = "generate" => Len(iters) < config.max
    BY <1>1, <1>3 DEF Turn
  <2>2. PipelineTypes'
    BY <1>3, <2>1 DEF Turn, PipelineTypes, Places
  <2>3. LoopCounters'
    BY <1>1, <1>3, <2>1 DEF Turn, LoopCounters, PipelineTypes
  <2>4. QED BY <2>2, <2>3
<1>4. CASE ScoreResult \/ Execute
  <2>1. PipelineTypes'
    BY <1>4 DEF ScoreResult, Execute, PipelineTypes, Places
  <2>2. LoopCounters'
    BY <1>1, <1>4 DEF ScoreResult, Execute, LoopCounters, PipelineTypes
  <2>3. QED BY <2>1, <2>2
<1>5. CASE Decide
  <2>1. ppc' \in {"execute", "done", "decide"}
    BY <1>5 DEF Decide
  <2>2. PipelineTypes'
    BY <1>5, <2>1 DEF Decide, PipelineTypes, Places
  <2>3. LoopCounters'
    BY <1>1, <1>5, <2>1 DEF Decide, LoopCounters, PipelineTypes
  <2>4. QED BY <2>2, <2>3
<1>6. CASE End
  <2>1. PipelineTypes'
    BY <1>6 DEF End, PipelineTypes
  <2>2. LoopCounters'
    BY <1>6 DEF End, LoopCounters
  <2>3. QED BY <2>1, <2>2
<1>7. QED BY <1>2, <1>3, <1>4, <1>5, <1>6

\* An iteration: one score more, before anything is selected.
LEMMA IterateKeeps ==
    ASSUME PipelineIInv, Iterate
    PROVE  PipelineIInv'
<1>1. config.max \in Nat /\ Len(iters) \in Nat /\ iters \in Seq(ScoresOrNone) /\ ppc = "generate"
  BY PipelineAssumption DEF PipelineIInv, PipelineTypes, Iterate
<1>2. /\ Len(iters) < config.max /\ stopped = 0 /\ best = {}
      /\ feedback = IF config.feedback THEN Len(iters) ELSE 0
  BY <1>1 DEF PipelineIInv, LoopCounters, Selection
<1>3. UNCHANGED <<config, stopped, feedback, ended, best, open, judged, taken>>
  BY DEF Iterate
<1>4. JudgedInOrder'
  BY <1>1, <1>3, JudgedKept DEF PipelineIInv
<1>5. CASE ppc' = "dropped" /\ UNCHANGED iters
  <2>1. PipelineTypes'
    BY <1>3, <1>5 DEF PipelineIInv, PipelineTypes, Places
  <2>2. LoopCounters'
    BY <1>2, <1>3, <1>5 DEF LoopCounters
  <2>3. Selection'
    BY <1>2, <1>3, <1>5 DEF Selection, KeepsBest
  <2>4. QED BY <1>4, <2>1, <2>2, <2>3 DEF PipelineIInv
<1>6. CASE ppc' = "terminate" /\ \E x \in ScoresOrNone : iters' = Append(iters, x)
  <2>1. iters' \in Seq(ScoresOrNone) /\ Len(iters') = Len(iters) + 1
    BY <1>1, <1>6
  <2>2. PipelineTypes'
    BY <1>1, <1>2, <1>3, <1>6, <2>1 DEF PipelineIInv, PipelineTypes, Places
  <2>3. LoopCounters'
    BY <1>1, <1>2, <1>3, <1>6, <2>1 DEF LoopCounters
  <2>4. Selection'
    BY <1>2, <1>3 DEF Selection, KeepsBest
  <2>5. QED BY <1>4, <2>2, <2>3, <2>4 DEF PipelineIInv
<1>7. CASE ~(ppc' = "dropped" /\ UNCHANGED iters)
  <2>1. /\ ppc' = "terminate"
        /\ \/ iters' = Append(iters, <<>>)
           \/ \E s \in ScoreAnswers : iters' = Append(iters, EvaluateScores(config.method, s))
    BY <1>7 DEF Iterate
  <2>2. <<>> \in ScoresOrNone
    BY DEF ScoresOrNone, NoScore
  <2>3. \A s \in ScoreAnswers : EvaluateScores(config.method, s) \in ScoresOrNone
    BY ScoresType
  <2>4. \E x \in ScoresOrNone : iters' = Append(iters, x)
    BY <2>1, <2>2, <2>3
  <2>5. QED BY <1>6, <2>1, <2>4
<1>8. QED BY <1>5, <1>7

\* The termination point: the loop is stopped, or goes on, with one feedback more if there is
\* a prompt for it.
LEMMA TerminateKeeps ==
    ASSUME PipelineIInv, Terminate
    PROVE  PipelineIInv'
<1>1. /\ config.max \in Nat /\ Len(iters) \in Nat /\ Len(iters) <= config.max
      /\ ppc = "terminate" /\ Len(iters) # 0 /\ stopped = 0
      /\ feedback = IF config.feedback THEN Len(iters) - 1 ELSE 0
  BY PipelineAssumption DEF PipelineIInv, PipelineTypes, LoopCounters, Terminate
<1>2. PICK stop \in {FALSE, config.terminates /\ ~ended} :
         /\ ppc' = IF stop THEN "select" ELSE "turn"
         /\ stopped' = IF stop THEN Len(iters) ELSE stopped
         /\ feedback' = IF ~stop /\ config.feedback /\ Len(iters) < config.max THEN feedback + 1
                      ELSE feedback
  BY DEF Terminate
<1>3. UNCHANGED <<config, iters, ended, best, open, judged, taken>>
  BY DEF Terminate
<1>4. ppc' \in {"select", "turn"}
  BY <1>2
<1>5. PipelineTypes'
  BY <1>1, <1>2, <1>3, <1>4 DEF PipelineIInv, PipelineTypes, Places
<1>6. LoopCounters'
  BY <1>1, <1>2, <1>3 DEF LoopCounters
<1>7. Selection'
  BY <1>1, <1>3, SelectionKept DEF PipelineIInv
<1>8. JudgedInOrder'
  BY <1>1, <1>3, JudgedKept DEF PipelineIInv
<1>9. QED BY <1>5, <1>6, <1>7, <1>8 DEF PipelineIInv

\* selectResult: what is selected is the best.
LEMMA SelectKeeps ==
    ASSUME PipelineIInv, Select
    PROVE  PipelineIInv'
<1>1. /\ config.max \in Nat /\ iters \in Seq(ScoresOrNone) /\ Len(iters) \in Nat
      /\ ppc = "select" /\ best = {}
  BY PipelineAssumption DEF PipelineIInv, PipelineTypes, Selection, Select
<1>2. UNCHANGED <<config, iters, stopped, feedback, ended, open, judged, taken>>
  BY DEF Select
<1>3. ppc' \in {"dropped", "score"}
  BY DEF Select
<1>4. PipelineTypes'
  BY <1>2, <1>3 DEF PipelineIInv, PipelineTypes, Places
<1>5. LoopCounters'
  BY <1>2, <1>3 DEF PipelineIInv, LoopCounters
<1>6. JudgedInOrder'
  BY <1>1, <1>2, JudgedKept DEF PipelineIInv
<1>7. Selection'
  <2>1. CASE iters = <<>>
    BY <1>1, <1>2, <1>3, <2>1 DEF Select, Selection, KeepsBest
  <2>2. CASE iters # <<>>
    <3>1. best' = SelectResult(iters, config.selection)
      BY <2>2 DEF Select
    <3>2. DOMAIN iters = 1 .. Len(iters)
      BY <1>1
    <3>3. /\ best' \subseteq 1 .. Len(iters)
          /\ config.selection \in {"highest", "lowest"} =>
                \A k \in best', i \in 1 .. Len(iters) :
                    iters[i] # <<>> =>
                        /\ iters[k] # <<>>
                        /\ config.selection = "highest" => ~Less(iters[k], iters[i])
                        /\ config.selection = "lowest" => ~Less(iters[i], iters[k])
                        /\ i < k /\ iters[i] # <<0, 0>> => Less(iters[i], iters[k]) \/ Less(iters[k], iters[i])
      BY <1>1, <2>2, <3>1, SelectResultSound
    <3>4. KeepsBest'
      BY <1>2, <3>2, <3>3 DEF KeepsBest
    <3>5. QED BY <1>2, <1>3, <3>3, <3>4 DEF Selection
  <2>3. QED BY <2>1, <2>2
<1>8. QED BY <1>4, <1>5, <1>6, <1>7 DEF PipelineIInv

\* One branch is judged, and none of the others had matched.
LEMMA DecideKeepsOrder ==
    ASSUME JudgedInOrder, Decide
    PROVE  JudgedInOrder'
<1>1. CASE UNCHANGED <<open, judged, taken>> /\ ppc' = "done"
  BY <1>1, JudgedKept
<1>2. CASE ~(UNCHANGED <<open, judged, taken>> /\ ppc' = "done")
  <2>1. PICK b \in open :
            /\ \A c \in open : Branches[c].priority <= Branches[b].priority
            /\ open' = open \ {b}
            /\ \E r \in Judgements[b] :
                 /\ judged' = WithJudgement(b, r)
                 /\ ppc' = CASE r = "true" -> "execute" [] r = "error" -> "done" [] OTHER -> "decide"
                 /\ taken' = IF r = "true" THEN {b} ELSE taken
    BY <1>2 DEF Decide
  <2>2. PICK r \in Judgements[b] :
            /\ judged' = WithJudgement(b, r)
            /\ ppc' = CASE r = "true" -> "execute" [] r = "error" -> "done" [] OTHER -> "decide"
            /\ taken' = IF r = "true" THEN {b} ELSE taken
    BY <2>1
  <2>3. b \in DOMAIN Branches /\ r \in {"true", "false", "error"} /\ b \notin DOMAIN judged
    BY <2>1, JudgementValues DEF JudgedInOrder
  <2>4. ppc = "decide" /\ \A c \in DOMAIN judged : judged[c] = "false"
    BY DEF Decide, JudgedInOrder
  <2>5. /\ DOMAIN judged' = DOMAIN judged \cup {b} /\ judged'[b] = r
        /\ \A c \in DOMAIN judged : judged'[c] = judged[c]
    BY <2>2, <2>3 DEF WithJudgement
  <2>6. open' \subseteq DOMAIN Branches /\ DOMAIN judged' = DOMAIN Branches \ open'
    BY <2>1, <2>3, <2>5 DEF JudgedInOrder
  <2>7. \A a \in DOMAIN judged', c \in open' : Branches[c].priority <= Branches[a].priority
    BY <2>1, <2>5 DEF JudgedInOrder
  <2>8. ppc' \notin {"execute", "done", "dropped"} => \A a \in DOMAIN judged' : judged'[a] = "false"
    BY <2>2, <2>3, <2>4, <2>5
  <2>9. \A a, c \in DOMAIN judged' : judged'[a] = "true" /\ c # a => judged'[c] = "false"
    BY <2>4, <2>5
  <2>10. taken = {}
    BY <2>4 DEF JudgedInOrder
  <2>11. taken' \subseteq {a \in DOMAIN judged' : judged'[a] = "true"}
    BY <2>2, <2>5, <2>10
  <2>12. QED BY <2>6, <2>7, <2>8, <2>9, <2>11 DEF JudgedInOrder
<1>3. QED BY <1>1, <1>2

\* Every step keeps the invariant.
LEMMA PipelineStep ==
    ASSUME PipelineIInv, [PipelineNext]_pipelineVars
    PROVE  PipelineIInv'
<1>1. CASE Start \/ Turn \/ ScoreResult \/ Execute \/ End
  <2>1. /\ UNCHANGED <<config, iters, best, open, judged>> /\ taken' \subseteq taken
        /\ ppc' \in {"start", "turn", "generate", "terminate", "select"} =>
               ppc \in {"start", "turn", "generate", "terminate", "select"}
        /\ ppc \in {"execute", "done", "dropped"} => ppc' \in {"execute", "done", "dropped"}
    <3>1. CASE Start
      BY <3>1 DEF Start
    <3>2. CASE Turn
      BY <3>2 DEF Turn
    <3>3. CASE ScoreResult
      BY <3>3 DEF ScoreResult
    <3>4. CASE Execute
      BY <3>4 DEF Execute
    <3>5. CASE End
      BY <3>5 DEF End
    <3>6. QED BY <1>1, <3>1, <3>2, <3>3, <3>4, <3>5
  <2>2. PipelineTypes' /\ LoopCounters'
    BY <1>1, StepKeepsLoop DEF PipelineIInv
  <2>3. Selection'
    BY <2>1, SelectionKept DEF PipelineIInv
  <2>4. JudgedInOrder'
    BY <2>1, JudgedKept DEF PipelineIInv
  <2>5. QED BY <2>2, <2>3, <2>4 DEF PipelineIInv
<1>2. CASE Decide
  <2>1. PipelineTypes' /\ LoopCounters'
    BY <1>2, StepKeepsLoop DEF PipelineIInv
  <2>2. ppc' \in {"execute", "done", "decide"} /\ UNCHANGED <<config, iters, best>>
    BY <1>2 DEF Decide
  <2>3. Selection'
    BY <2>2, SelectionKept DEF PipelineIInv
  <2>4. JudgedInOrder'
    BY <1>2, DecideKeepsOrder DEF PipelineIInv
  <2>5. QED BY <2>1, <2>3, <2>4 DEF PipelineIInv
<1>3. CASE UNCHANGED pipelineVars
  <2>1. UNCHANGED <<config, ppc, iters, stopped, feedback, ended, best, open, judged, taken>>
    BY <1>3 DEF pipelineVars
  <2>2. PipelineTypes' /\ LoopCounters'
    BY <2>1 DEF PipelineIInv, PipelineTypes, LoopCounters
  <2>3. Selection'
    BY <2>1, SelectionKept DEF PipelineIInv
  <2>4. JudgedInOrder'
    BY <2>1, JudgedKept DEF PipelineIInv
  <2>5. QED BY <2>2, <2>3, <2>4 DEF PipelineIInv
<1>4. QED
  BY <1>1, <1>2, <1>3, IterateKeeps, TerminateKeeps, SelectKeeps DEF PipelineNext, Step

\* The invariant implies the properties.
LEMMA PipelineImplied ==
    ASSUME PipelineIInv
    PROVE  PipelineInv /\ KeepsBest
<1>1. /\ config.max \in Nat /\ iters \in Seq(ScoresOrNone) /\ Len(iters) \in Nat
      /\ Len(iters) <= config.max /\ DOMAIN iters = 1 .. Len(iters)
  BY PipelineAssumption DEF PipelineIInv, PipelineTypes
<1>2. PipelineTypeOK
  <2>1. best \subseteq 1 .. config.max
    BY <1>1 DEF PipelineIInv, Selection
  <2>2. QED BY <2>1 DEF PipelineTypeOK, PipelineIInv, PipelineTypes, Places, JudgedInOrder
<1>3. StopsWhenTold
  BY <1>1 DEF StopsWhenTold, PipelineIInv, LoopCounters, Selection
<1>4. TakenByPriority
  <2>1. ASSUME NEW b \in taken
        PROVE  /\ judged[b] = "true"
               /\ \A c \in DOMAIN Branches :
                    Branches[c].priority > Branches[b].priority =>
                        c \in DOMAIN judged /\ judged[c] = "false"
    <3>1. b \in DOMAIN judged /\ judged[b] = "true" /\ b \in DOMAIN Branches
      BY <2>1 DEF PipelineIInv, JudgedInOrder
    <3>2. ASSUME NEW c \in DOMAIN Branches, Branches[c].priority > Branches[b].priority
          PROVE  c \in DOMAIN judged /\ judged[c] = "false"
      <4>1. Branches[c].priority \in Int /\ Branches[b].priority \in Int
        BY <3>1, PipelineAssumption
      <4>2. c \notin open
        BY <3>1, <3>2, <4>1 DEF PipelineIInv, JudgedInOrder
      <4>3. c # b
        BY <3>2, <4>1
      <4>4. c \in DOMAIN judged
        BY <4>2 DEF PipelineIInv, JudgedInOrder
      <4>5. QED BY <3>1, <4>3, <4>4 DEF PipelineIInv, JudgedInOrder
    <3>3. QED BY <3>1, <3>2
  <2>2. \A b, c \in DOMAIN judged : judged[b] = "true" /\ judged[c] = "true" => b = c
    BY DEF PipelineIInv, JudgedInOrder
  <2>3. QED BY <2>1, <2>2 DEF TakenByPriority
<1>5. QED BY <1>2, <1>3, <1>4 DEF PipelineInv, PipelineIInv, Selection

\* The invariant holds in every behaviour.
LEMMA PipelineInvariance == PipelineSpec => []PipelineIInv
<1>1. PipelineInit => PipelineIInv
  BY PipelineInitially
<1>2. PipelineIInv /\ [PipelineNext]_pipelineVars => PipelineIInv'
  BY PipelineStep
<1>3. QED BY <1>1, <1>2, PTL DEF PipelineSpec

\* RecursiveLoopProcessor.Process and ProcessDecisionPoint, for any definition, any branches
\* and any answers of the model: the loop ends with the iteration that met the termination
\* point, the prompt context has one feedback for each iteration that went on if there is a
\* feedback prompt and none otherwise, and a branch is taken only after
\* every branch of higher priority was asked about and did not match.
THEOREM PipelineSound == PipelineSpec => []PipelineInv
<1>1. PipelineIInv => PipelineInv
  BY PipelineImplied
<1>2. QED BY <1>1, PipelineInvariance, PTL

\* selectByScore, for any number of iterations, any aggregate and any answers of the model:
\* no scored iteration compares as better than the one kept, and of equals the earliest is
\* kept; an iteration without scores is kept only when none has any.
THEOREM BestIterationKept == PipelineSpec => []KeepsBest
<1>1. PipelineIInv => KeepsBest
  BY PipelineImplied
<1>2. QED BY <1>1, PipelineInvariance, PTL

\* RecursiveLoopProcessor.Process: whatever the deadline interrupts, a field with a finished
\* iteration is dropped only by a failure while it is generating the next one.
THEOREM FinishedIterationsKept == PipelineSpec => DeadlineKeepsIterations
<1>1. PipelineIInv /\ [PipelineNext]_pipelineVars =>
          [ppc' = "dropped" /\ iters # <<>> => ppc = "generate"]_pipelineVars
  <2> SUFFICES ASSUME PipelineIInv, PipelineNext, ppc' = "dropped", iters # <<>>
               PROVE  ppc = "generate"
    OBVIOUS
  <2>1. iters \in Seq(ScoresOrNone)
    BY DEF PipelineIInv, PipelineTypes
  <2>2. CASE Start
    <3>1. Len(iters) = 0
      BY <2>2 DEF Start, PipelineIInv, LoopCounters
    <3>2. QED BY <2>1, <3>1
  <2>3. CASE Turn
    BY <2>3 DEF Turn
  <2>4. CASE Iterate
    BY <2>4 DEF Iterate
  <2>5. CASE Terminate
    BY <2>5 DEF Terminate
  <2>6. CASE Select
    BY <2>6 DEF Select
  <2>7. CASE ScoreResult \/ Execute
    BY <2>7 DEF ScoreResult, Execute
  <2>8. CASE Decide
    BY <2>8 DEF Decide
  <2>9. CASE End
    BY <2>9 DEF End
  <2>10. QED BY <2>2, <2>3, <2>4, <2>5, <2>6, <2>7, <2>8, <2>9 DEF PipelineNext, Step
<1>2. QED BY <1>1, PipelineInvariance, PTL DEF PipelineSpec, DeadlineKeepsIterations
=============================================================================
