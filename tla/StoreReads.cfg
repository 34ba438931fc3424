CONSTANTS
    Ids = {1, 2, 3, 4}
    Completions <- SomeCompletions
    Readers = {c1, c2}
    MaxTraces = 2
    PageSize = 1
SPECIFICATION Spec
SYMMETRY Symmetry
INVARIANTS
    TypeOK
    HoldsNewest
    NoMiss
    ReadIsBounded
    PagesAreStable
CHECK_DEADLOCK FALSE
