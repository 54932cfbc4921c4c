SPECIFICATION Spec
CONSTANTS
    Workers = {w1, w2}
    Sources <- TwoSources
    Ids = {id1}
    Names = {n1, n2}
    Postings <- TwoSourcesPostings
    MaxFetch = 2
    Capacity = 3
    None = None
    w1 = w1
    w2 = w2
    id1 = id1
    id2 = id2
    n1 = n1
    n2 = n2
SYMMETRY Symmetry
INVARIANT TypeOK
INVARIANT DuplicatesGrounded
INVARIANT OriginalsBounded
INVARIANT NothingLostSilently
PROPERTY RunsGetShorter
