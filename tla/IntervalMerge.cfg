CONSTANTS
    None = None
    MaxTime = 4
    MaxLength = 3
    Lists <- SomeLists
    Bounds <- SomeBounds
SPECIFICATION Spec
CHECK_DEADLOCK FALSE
INVARIANTS
    MergedIsUnion
    DurationIsMeasure
