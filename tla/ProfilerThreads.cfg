CONSTANTS
    Profilers = {p1, p2}
    Apps = {a1, a2}
    Callers = {c1, c2}
    Targets = {}
    Captures = {"dependency", "serialization"}
    Overlaid = {"routing.run_endpoint_function", "routing.solve_dependencies"}
    RestoresAll = FALSE
    None = None
SPECIFICATION Spec
SYMMETRY Symmetry
INVARIANTS
    TypeOK
    InstrumentedWhileOpen
    FailureIsUndone
PROPERTIES
    ForeignKept
