CONSTANTS
    Requests = {r1}
    Tasks = {t1, h1}
    Threads = {h1}
    Segments = {s1, s2}
    Attributes = {"json", "unsortable"}
    MaxSegments = 1
    Failures = {"error", "cancelled"}
    Switches = {FALSE}
    MaxLate = 1
    None = None
SPECIFICATION FairSpec
INVARIANTS
    SnapshotIsFinal
PROPERTIES
    KeepsPromise
    EndedIsSettled
CHECK_DEADLOCK FALSE
