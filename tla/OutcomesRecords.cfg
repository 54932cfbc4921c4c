SPECIFICATION Spec
CONSTANTS
    Handlers = {h1, h2}
    Applications = {a1, a2, a3}
    Arrays = {x1, x2}
    Observed = {"submitted", "responded", "offer"}
    Context <- Mixed
    Archive <- OneClosed
    SharesMemory = FALSE
    MaxStages = 2
    None = None
    h1 = h1
    h2 = h2
    a1 = a1
    a2 = a2
    a3 = a3
    x1 = x1
    x2 = x2
SYMMETRY Symmetry
INVARIANT TypeOK
INVARIANT FinalOutcomeDerived
INVARIANT GroupsAddUp
INVARIANT FlaggedIsOutperformed
