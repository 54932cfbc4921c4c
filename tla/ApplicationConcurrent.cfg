SPECIFICATION Spec
CONSTANTS
    Handlers = {h1,h2}
    Apps = {a1}
    Jobs = {j1}
    Versions = {v1,v2}
    Questions = {q1}
    AlwaysReview = {q1}
    DailyApplicationLimit = 1
    None = None
    h1 = h1
    h2 = h2
    a1 = a1
    j1 = j1
    v1 = v1
    v2 = v2
    q1 = q1
SYMMETRY Symmetry
INVARIANT TypeOK
INVARIANT ClearedIsSafe
