SPECIFICATION Spec
CONSTANTS
    Handlers = {h1, h2}
    Applications = {a1}
    Arrays = {x1, x2, x3}
    Observed = {"submitted", "offer"}
    Context <- Mixed
    Archive <- NoneClosed
    SharesMemory = TRUE
    MaxStages = 4
    None = None
    h1 = h1
    h2 = h2
    a1 = a1
    a2 = a2
    a3 = a3
    x1 = x1
    x2 = x2
    x3 = x3
INVARIANT HistoryNotRewritten
