--------------------------- MODULE FieldPipeline ---------------------------
(***************************************************************************)
(* FieldProcessor.processField on a field that is not an object: the       *)
(* RecursiveLoop around the processor of its type, the scores of the       *)
(* result, and the decision point that may add sibling fields.  Every      *)
(* question to the model is a step, and the context may end between any    *)
(* two of them.                                                            *)
(***************************************************************************)
EXTENDS Scoring, Conditions

CONSTANTS
    Configs,        \* what the definition of the field may ask for
    Branches,       \* the branches of the decision point: priority and conditions
    Evaluations,    \* answers of the model about a branch: condition field to value
    ScoreAnswers,   \* answers of the model about a value: dimension to number
    Generated       \* values of other fields, for conditions with a path

ASSUME PipelineAssumption ==
    /\ \A c \in Configs :
          c.max \in Nat /\ {c.terminates, c.scored, c.feedback} \subseteq BOOLEAN
    /\ \A b \in DOMAIN Branches : Branches[b].priority \in Int
    /\ \A s \in ScoreAnswers : IsFiniteSet(DOMAIN s) /\ \A d \in DOMAIN s : s[d] \in Int

VARIABLES
    config,    \* the definition: max iterations, selection, method, scored, terminates, and
               \* whether there is a feedback prompt
    ppc,       \* where processField stands
    iters,     \* the score of every finished iteration, <<>> for none
    stopped,   \* the iteration at which the termination point matched, 0 for none
    feedback,  \* feedback prompts in the prompt context, behind the prompt of the request
    ended,     \* the context has ended
    best,      \* the iterations that make the result
    attached,  \* the aggregate put into the result's metadata
    open,      \* branches not yet evaluated
    judged,    \* branch to its evaluation
    taken      \* the branches whose fields were added

pipelineVars == <<config, ppc, iters, stopped, feedback, ended, best, attached, open, judged, taken>>

PipelineInit ==
    /\ config \in Configs
    /\ ppc = "start"
    /\ iters = <<>> /\ stopped = 0 /\ feedback = 0
    /\ ended = FALSE
    /\ best = {} /\ attached = <<>>
    /\ open = DOMAIN Branches /\ judged = <<>> /\ taken = {}

\* processField and Process of the loop look at the context first.
Start ==
    /\ ppc = "start"
    /\ ppc' = IF ended THEN "dropped" ELSE "turn"
    /\ UNCHANGED <<config, iters, stopped, feedback, ended, best, attached, open, judged, taken>>

\* Mutant of Turn: the deadline loses the iterations that are done.
TurnDropping ==
    /\ ppc = "turn"
    /\ ppc' = CASE Len(iters) >= config.max -> "select"
                [] Len(iters) < config.max /\ ended -> "dropped"
                [] OTHER -> "generate"
    /\ UNCHANGED <<config, iters, stopped, feedback, ended, best, attached, open, judged, taken>>

\* The head of the loop: when the context has ended the best result so far is kept.
Turn ==
    /\ ppc = "turn"
    /\ ppc' = CASE Len(iters) >= config.max \/ (ended /\ iters # <<>>) -> "select"
                [] Len(iters) < config.max /\ ended /\ iters = <<>> -> "dropped"
                [] OTHER -> "generate"
    /\ UNCHANGED <<config, iters, stopped, feedback, ended, best, attached, open, judged, taken>>

\* The processor of the type fails (also because the context has ended): the field and all
\* earlier iterations are dropped.  Else the iteration is scored, or scoring fails.
Iterate ==
    /\ ppc = "generate"
    /\ \/ ppc' = "dropped" /\ UNCHANGED iters
       \/ /\ ~ended
          /\ ppc' = "terminate"
          /\ \/ iters' = Append(iters, <<>>)
             \/ config.scored /\ \E s \in ScoreAnswers : iters' = Append(iters, EvaluateScores(config.method, s))
    /\ UNCHANGED <<config, stopped, feedback, ended, best, attached, open, judged, taken>>

\* shouldTerminate: any branch of the termination point may match; an error is a warning.
\* Before another iteration enhanceContextWithFeedback adds a feedback, if there is a prompt
\* for it.  It is appended to the prompt context, of which the prompt builder reads only the
\* first prompt: what Iterate asks does not depend on it.
Terminate ==
    /\ ppc = "terminate"
    /\ \E stop \in {FALSE, config.terminates /\ ~ended} :
         /\ ppc' = IF stop THEN "select" ELSE "turn"
         /\ stopped' = IF stop THEN Len(iters) ELSE stopped
         /\ feedback' = IF ~stop /\ config.feedback /\ Len(iters) < config.max THEN feedback + 1
                      ELSE feedback
    /\ UNCHANGED <<config, iters, ended, best, attached, open, judged, taken>>

\* selectResult, then SetGeneratedValue.
Select ==
    /\ ppc = "select"
    /\ IF iters = <<>> THEN ppc' = "dropped" /\ UNCHANGED best
       ELSE ppc' = "score" /\ best' = SelectResult(iters, config.selection)
    /\ UNCHANGED <<config, iters, stopped, feedback, ended, attached, open, judged, taken>>

\* The result is scored once more; a failure is a warning.
ScoreResult ==
    /\ ppc = "score"
    /\ ppc' = "decide"
    /\ \/ UNCHANGED attached
       \/ /\ config.scored /\ ~ended /\ config.method # ""
          /\ \E s \in ScoreAnswers : attached' = CalculateAggregate(config.method, s)
    /\ UNCHANGED <<config, iters, stopped, feedback, ended, best, open, judged, taken>>

\* evaluateBranch, for every answer of the model; the question may also fail, and a branch
\* without conditions is not asked about.
Judgements ==
    [b \in DOMAIN Branches |->
        {EvaluateBranch(Branches[b].conditions, e, Generated) : e \in Evaluations}
        \cup {r \in {"error"} : Branches[b].conditions # <<>>}]

WithJudgement(b, r) == [c \in DOMAIN judged \cup {b} |-> IF c = b THEN r ELSE judged[c]]

\* Mutant of Decide: the branches are tried in any order.
DecideUnsorted ==
    /\ ppc = "decide" /\ open # {} /\ ~ended
    /\ \E b \in open : \E r \in Judgements[b] :
         /\ judged' = WithJudgement(b, r)
         /\ open' = open \ {b}
         /\ ppc' = CASE r = "true" -> "execute" [] r = "error" -> "done" [] OTHER -> "decide"
         /\ taken' = IF r = "true" THEN {b} ELSE taken
    /\ UNCHANGED <<config, iters, stopped, feedback, ended, best, attached>>

\* ProcessDecisionPoint: the branches by descending priority, equals in any order, up to
\* the first that matches or whose evaluation fails.  An ended context leaves the result.
Decide ==
    /\ ppc = "decide"
    /\ \/ /\ open = {} \/ ended
          /\ ppc' = "done"
          /\ UNCHANGED <<open, judged, taken>>
       \/ /\ open # {} /\ ~ended
          /\ \E b \in open :
               /\ \A c \in open : Branches[c].priority <= Branches[b].priority
               /\ open' = open \ {b}
               /\ \E r \in Judgements[b] :
                    /\ judged' = WithJudgement(b, r)
                    /\ ppc' = CASE r = "true" -> "execute" [] r = "error" -> "done" [] OTHER -> "decide"
                    /\ taken' = IF r = "true" THEN {b} ELSE taken
    /\ UNCHANGED <<config, iters, stopped, feedback, ended, best, attached>>

\* executeBranch: its fields become siblings; a failure leaves the result alone.
Execute ==
    /\ ppc = "execute"
    /\ ppc' = "done"
    /\ \/ ~ended /\ UNCHANGED taken
       \/ taken' = {}
    /\ UNCHANGED <<config, iters, stopped, feedback, ended, best, attached, open, judged>>

End ==
    /\ ~ended /\ ppc \notin {"done", "dropped"}
    /\ ended' = TRUE
    /\ UNCHANGED <<config, ppc, iters, stopped, feedback, best, attached, open, judged, taken>>

Step == Start \/ Turn \/ Iterate \/ Terminate \/ Select \/ ScoreResult \/ Decide \/ Execute
PipelineNext == Step \/ End

PipelineSpec == PipelineInit /\ [][PipelineNext]_pipelineVars
FairPipelineSpec == PipelineSpec /\ WF_pipelineVars(Step)

-----------------------------------------------------------------------------
\* The values the variables range over.
PipelineTypeOK ==
    /\ config \in Configs
    /\ ppc \in {"start", "turn", "generate", "terminate", "select", "score", "decide", "execute",
                "done", "dropped"}
    /\ Len(iters) <= config.max
    /\ stopped \in 0 .. config.max /\ feedback \in 0 .. config.max
    /\ best \subseteq 1 .. config.max
    /\ open \subseteq DOMAIN Branches /\ taken \subseteq DOMAIN Branches
    /\ ended \in BOOLEAN

\* What SelectHighestScore and SelectLowestScore promise: no scored iteration compares as
\* better than the one kept, and among equal scores the earliest is kept.  A NaN (an
\* answer without numbers under the average) equals nothing.
KeepsBest ==
    config.selection \in {"highest", "lowest"} =>
        \A k \in best, i \in DOMAIN iters :
            iters[i] # <<>> =>
                /\ iters[k] # <<>>
                /\ config.selection = "highest" => ~Less(iters[k], iters[i])
                /\ config.selection = "lowest" => ~Less(iters[i], iters[k])
                /\ i < k /\ iters[i] # <<0, 0>> => Less(iters[i], iters[k]) \/ Less(iters[k], iters[i])

\* No iteration follows the one that met the termination point, and the result is chosen
\* among all.  With a feedback prompt the prompt context holds one feedback for every
\* iteration before the one that runs, and none for the one that met the termination point;
\* without a feedback prompt it holds none.
StopsWhenTold ==
    /\ stopped # 0 => Len(iters) = stopped
    /\ best \subseteq DOMAIN iters
    /\ ~config.feedback => feedback = 0
    /\ config.feedback =>
          /\ stopped # 0 => feedback = stopped - 1
          /\ ppc = "generate" => feedback = Len(iters)
          /\ ppc = "terminate" => feedback = Len(iters) - 1

\* A field that reached the head of its loop with a finished iteration is not lost to the
\* deadline there: it is dropped only by a failure while generating.
DeadlineKeepsIterations ==
    [][ppc' = "dropped" /\ iters # <<>> => ppc = "generate"]_pipelineVars

\* A branch is taken only if it matched and every branch of higher priority was
\* evaluated before and did not match; at most one branch matches.
TakenByPriority ==
    /\ \A b \in taken :
         /\ judged[b] = "true"
         /\ \A c \in DOMAIN Branches :
              Branches[c].priority > Branches[b].priority => c \in DOMAIN judged /\ judged[c] = "false"
    /\ \A b, c \in DOMAIN judged : judged[b] = "true" /\ judged[c] = "true" => b = c

\* processField returns.
FieldReturns == <>(ppc \in {"done", "dropped"})

\* The loop stops when it is told to, its feedback is kept for the iterations that went on, and
\* the decision point takes the matching branch of highest priority.
PipelineInv ==
    /\ PipelineTypeOK
    /\ StopsWhenTold
    /\ TakenByPriority

\* The deadline: processField always returns, and what the loop has finished by then is kept.
DeadlineSound == DeadlineKeepsIterations /\ FieldReturns
=============================================================================
