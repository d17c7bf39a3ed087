------------------------------ MODULE Scoring ------------------------------
(***************************************************************************)
(* Scores of a generated value (execution/recursive_processor.go; the same *)
(* code serves FieldProcessor.evaluateScores) and the choice among the     *)
(* iterations of a RecursiveLoop.  A float is a fraction <<n, d>>; <<0, 0>>*)
(* is NaN, which no comparison by cross-multiplication prefers.            *)
(***************************************************************************)
EXTENDS Integers, Sequences, FiniteSetsExt, SequencesExt

CONSTANTS
    Weights,   \* weight of each dimension of the ScoringCriteria, 0 when it is not set
    TopScore   \* where the search for a minimum starts (100 in the code)

ASSUME ScoringAssumption ==
    TopScore \in Nat /\ IsFiniteSet(DOMAIN Weights) /\ \A d \in DOMAIN Weights : Weights[d] \in Nat

Dimensions == DOMAIN Weights
Less(x, y) == x[1] * y[2] < y[1] * x[2]
SumOf(f) == MapThenSumSet(LAMBDA d : f[d], DOMAIN f)

\* A missing weight is 1 / |Dimensions|; all weights are scaled by |Dimensions|.
ScaledWeight(d) == IF Weights[d] = 0 THEN 1 ELSE Weights[d] * Cardinality(Dimensions)

Average(scores) == <<SumOf(scores), Cardinality(DOMAIN scores)>>

\* calculateAggregate, on the dimensions that came back as numbers.
CalculateAggregate(method, scores) ==
    LET range == {scores[d] : d \in DOMAIN scores}
        known == DOMAIN scores \cap Dimensions
        total == SumOf([d \in known |-> ScaledWeight(d)])
    IN  CASE method = "weighted_average" ->
               IF total > 0 THEN <<SumOf([d \in known |-> scores[d] * ScaledWeight(d)]), total>>
               ELSE <<0, 1>>
          [] method = "minimum" -> <<Min(range \cup {TopScore}), 1>>
          [] method = "maximum" -> <<Max(range \cup {0}), 1>>
          [] OTHER -> Average(scores)

\* evaluateScores: without a method the average is taken when the iterations are compared,
\* and an answer without numbers counts as no scores (<<>>).
EvaluateScores(method, scores) ==
    IF method = "" THEN IF DOMAIN scores = {} THEN <<>> ELSE Average(scores)
    ELSE CalculateAggregate(method, scores)

\* Mutant of SelectByScore: the search starts from a score of zero.
SelectFromZero(iters, highest) ==
    LET better(i, j) == IF highest THEN Less(i, j) ELSE Less(j, i)
        score(i) == IF i = 0 THEN <<0, 1>> ELSE iters[i]
        found == FoldLeft(LAMBDA best, i : IF iters[i] # <<>> /\ better(score(best), iters[i]) THEN i ELSE best,
                          0, [i \in 1 .. Len(iters) |-> i])
    IN  IF found = 0 THEN 1 ELSE found

\* selectByScore: the first scored iteration, replaced by every strictly better one; the
\* first iteration when none has scores (<<>>).
SelectByScore(iters, highest) ==
    LET better(i, j) == IF highest THEN Less(iters[i], iters[j]) ELSE Less(iters[j], iters[i])
        found[n \in 0 .. Len(iters)] ==      \* bestIter after n results, 0 while none has scores
            IF n = 0 THEN 0
            ELSE IF iters[n] # <<>> /\ (found[n - 1] = 0 \/ better(found[n - 1], n)) THEN n
            ELSE found[n - 1]
    IN  IF found[Len(iters)] = 0 THEN 1 ELSE found[Len(iters)]

\* selectResult: the iterations that make the result.
SelectResult(iters, strategy) ==
    CASE strategy = "highest" -> {SelectByScore(iters, TRUE)}
      [] strategy = "lowest" -> {SelectByScore(iters, FALSE)}
      [] strategy = "first" -> {1}
      [] strategy = "all" -> 1 .. Len(iters)
      [] OTHER -> {Len(iters)}
=============================================================================
