CONSTANTS
    Profilers = {p1, p2, p3}
    Apps = {a1, a2}
    Callers = {c1}
    Targets = {t1}
    Captures = {"dependency"}
    Overlaid = {}
    RestoresAll = TRUE
    None = None
SPECIFICATION Spec
SYMMETRY Symmetry
INVARIANTS
    ClosedIsReleased
    RestoredWithoutOwners
