SPECIFICATION FairSpec
CONSTANTS
    Workers = {w1, w2}
    Jobs = {j1}
    BatchSize = 1
    MaxRetries = 1
    DeepEvaluationsPerDay = 1
    None = None
    w1 = w1
    w2 = w2
    j1 = j1
INVARIANT TypeOK
INVARIANT PaidCallsBounded
INVARIANT DeepFollowsTriage
INVARIANT ReportedIsStored
PROPERTY BudgetSpec
PROPERTY RunEnds
PROPERTY RunsGetShorter
