CONSTANTS
    None = None
    RequestTime = 3
    DependencyTime = 3
    DependencyShare = 50
    RepeatedMinimum = 2
    NPlusOneMinimum = 2
    NPlusOneShare = 50
    SerializationTime = 3
    SerializationShare = 50
    Traces <- SomeTraces
    Limits = {6, 11, 17, 60}
    MaxSegments = 2
    MaxDependencies = 2
    MaxDiagnostics = 3
    MaxText = 3
    MaxAttributes = 2
    MaxItems = 2
    MaxDepth = 2
    FrameBytes = 3
    SegmentBytes = 3
    DependencyBytes = 2
    FindingBytes = 2
    ErrorBytes = 2
SPECIFICATION FairSpec
CHECK_DEADLOCK FALSE
INVARIANTS
    TypeOK
    LossIsTold
    SecretsAreGone
    RefusedIsBare
    TreeIsExplained
    ShareWithinWhole
PROPERTIES
    EveryTraceEnds
