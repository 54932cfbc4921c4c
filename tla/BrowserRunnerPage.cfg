SPECIFICATION Spec
CONSTANTS
    Workers = {w1}
    Ids = {i1, i2}
    Tokens = {t1}
    BrowserSessionsPerDay = 2
    MaxSessionMinutes = 1
    RecoveryTTL = 1
    MaxTime = 1
    StartOfDay <- SameDay
    None = None
    w1 = w1
    i1 = i1
    i2 = i2
    t1 = t1
INVARIANT ActsOnOwnPage
