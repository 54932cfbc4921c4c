SPECIFICATION Spec
CONSTANTS
    Handlers = {h1}
    Apps = {a1,a2}
    Jobs = {j1,j2}
    Versions = {v1}
    Questions = {q1}
    AlwaysReview = {q1}
    DailyApplicationLimit = 1
    None = None
    h1 = h1
    a1 = a1
    a2 = a2
    j1 = j1
    j2 = j2
    v1 = v1
    q1 = q1
SYMMETRY Symmetry
INVARIANT OneClearedPerJob
PROPERTY BudgetSpec
