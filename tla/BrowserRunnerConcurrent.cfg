SPECIFICATION Spec
CONSTANTS
    Workers = {w1, w2}
    Ids = {i1, i2, i3}
    Tokens = {t1}
    BrowserSessionsPerDay = 1
    MaxSessionMinutes = 0
    RecoveryTTL = 0
    MaxTime = 1
    StartOfDay <- MidnightEveryTick
    None = None
    w1 = w1
    w2 = w2
    i1 = i1
    i2 = i2
    i3 = i3
    t1 = t1
SYMMETRY Symmetry
INVARIANT TypeOK
INVARIANT DailyOverrunBounded
INVARIANT CompletedIsConfirmed
INVARIANT CheckpointRecorded
INVARIANT RedemptionsBounded
PROPERTY BudgetSpec
PROPERTY CallsGetShorter
