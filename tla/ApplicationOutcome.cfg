SPECIFICATION Spec
CONSTANTS
    Handlers = {h1}
    Apps = {a1}
    Jobs = {j1}
    Versions = {v1}
    Questions = {q1}
    AlwaysReview = {q1}
    DailyApplicationLimit = 1
    None = None
    h1 = h1
    a1 = a1
    j1 = j1
    v1 = v1
    q1 = q1
INVARIANT OutcomeRecorded
