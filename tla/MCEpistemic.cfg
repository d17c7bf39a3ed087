SPECIFICATION FairSpec
CONSTANTS
    f0 = f0  f1 = f1  f2 = f2  g2 = g2  f3 = f3
    Fields = {f0, f1, f2, g2, f3}
    Together <- MCTogether
    Judges <- MCJudges
    DefaultWorkerCount = 1
    MaxWorkers = 3
    Extent = 10
    Infinite = 1000000
    Marks <- MCMarks
    Embeddings <- MCEmbeddings
INVARIANTS ValidationInv EnginesChooseBest
PROPERTY ValidationReturns
CHECK_DEADLOCK FALSE
