CONSTANTS
    a = a
    b = b
    c = c
    Deps = {a, b, c}
    Route = Route
    Applications <- SomeApplications
    External = External
    None = None
SPECIFICATION Spec
INVARIANTS
    TypeOK
    CacheIsTold
    TreeIsWhole
    ScopesAreClean
CHECK_DEADLOCK FALSE
