CONSTANTS
    Requests = {r1, r2}
    Tasks = {t1, t2, t3}
    Threads = {}
    Segments = {s1, s2}
    Attributes = {"json"}
    MaxSegments = 1
    Switches = {}
    Failures = {}
    MaxLate = 0
    None = None
SPECIFICATION Spec
SYMMETRY Symmetry
INVARIANTS
    TypeOK
    NoMixing
    ContextFollowsCalls
    ParentsFirst
    NoSilentLoss
    FindingsMatch
CHECK_DEADLOCK FALSE
