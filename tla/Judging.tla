------------------------------ MODULE Judging ------------------------------
(***************************************************************************)
(* epstimic/llm_as_judge.go and k_mean.go: how an engine picks one of the  *)
(* results.  Both assess the results on goroutines and work on the list of *)
(* assessments in the order in which they come in.  An assessment is       *)
(* [of, completeness, correctness] or [of, embedding].  Embeddings have    *)
(* one dimension, or none when the embedding call failed: Generate leaves  *)
(* a failed field out and reports success.                                 *)
(***************************************************************************)
EXTENDS Integers, Sequences, FiniteSetsExt, SequencesExt

CONSTANT Infinite   \* math.MaxFloat64, above every distance

Nobody == -2
Panic == -3

\* Position of the first of the least measures.
FirstLeast(measures) ==
    Min({i \in DOMAIN measures : \A j \in DOMAIN measures : measures[i] <= measures[j]})

(* LLM as judge. *)

\* assessCompletion: the mean of the two marks, cut to an integer.
Score(a) == (a.completeness + a.correctness) \div 2

\* Best: the first of the highest scores; without a score there is no valid result.
BestScored(list) ==
    IF list = <<>> THEN Nobody ELSE list[FirstLeast([i \in DOMAIN list |-> -Score(list[i])])].of

(* K-mean.  Sums are not divided: distances are multiples by the number of results. *)

\* calculateAverageEmbedding: the first embedding gives the size of the vector, a
\* longer one after it is an index out of range; the missing ones count as zeros.
AveragePanics(list) == \E a \in Range(list) : Len(a.embedding) > Len(list[1].embedding)
Coordinate(a) == IF a.embedding = <<>> THEN 0 ELSE a.embedding[1]
EmbeddingSum(list) ==
    LET sum[n \in 0 .. Len(list)] == IF n = 0 THEN 0 ELSE sum[n - 1] + Coordinate(list[n])
    IN  sum[Len(list)]

\* Mutant of Distance: a missing embedding is at no distance.
MissingIsClose(a, list) ==
    IF a.embedding = <<>> THEN 0
    ELSE IF Len(a.embedding) # Len(list[1].embedding) THEN Infinite
    ELSE LET d == Len(list) * a.embedding[1] - EmbeddingSum(list) IN IF d < 0 THEN -d ELSE d

\* euclideanDistance to the average.
Distance(a, list) ==
    IF Len(a.embedding) # Len(list[1].embedding) THEN Infinite
    ELSE IF a.embedding = <<>> THEN 0
    ELSE LET d == Len(list) * a.embedding[1] - EmbeddingSum(list) IN IF d < 0 THEN -d ELSE d

\* calculateKMean: the first of the closest.
calculateKMean(list) ==
    IF list = <<>> THEN Nobody
    ELSE IF AveragePanics(list) THEN Panic
    ELSE list[FirstLeast([i \in DOMAIN list |-> Distance(list[i], list)])].of

\* convertToChoices: 100 for the average itself, 0 for the farthest.
ChoiceScore(a, list) ==
    LET farthest == Max({Distance(b, list) : b \in Range(list)})
    IN  IF farthest = 0 THEN 100
        ELSE IF farthest = Infinite THEN (IF Distance(a, list) = Infinite THEN 0 ELSE 100)
        ELSE (100 * (farthest - Distance(a, list))) \div farthest

\* The engine's choice, and the list of choices it puts into the metadata.
Chosen(engine, list) == IF engine = "judge" THEN BestScored(list) ELSE calculateKMean(list)
convertToChoices(engine, list) ==
    IF engine = "judge" THEN [i \in DOMAIN list |-> [of |-> list[i].of, score |-> Score(list[i])]]
    ELSE [i \in DOMAIN list |-> [of |-> list[i].of, score |-> ChoiceScore(list[i], list)]]
=============================================================================
