CONSTANTS
    Requests = {r1}
    Tasks = {t1, h1}
    Threads = {h1}
    Segments = {s1, s2}
    Attributes = {"json", "opaque", "unsortable"}
    MaxSegments = 1
    Failures = {"error", "cancelled"}
    Switches = {}
    MaxLate = 1
    None = None
SPECIFICATION Spec
SYMMETRY Symmetry
INVARIANTS
    WithinLimits
CHECK_DEADLOCK FALSE
