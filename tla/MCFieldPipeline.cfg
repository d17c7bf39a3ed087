SPECIFICATION FairPipelineSpec
CONSTANTS
    Weights <- MCWeights
    TopScore = 100
    Configs <- MCConfigs
    Branches <- MCBranches
    Evaluations <- MCEvaluations
    ScoreAnswers <- MCScoreAnswers
    Generated <- MCGenerated
INVARIANTS PipelineInv KeepsBest
PROPERTY DeadlineSound
CHECK_DEADLOCK FALSE
