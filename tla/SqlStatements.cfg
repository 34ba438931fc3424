CONSTANTS
    Tasks = {t1, t2}
    Conns = {c1, c2}
    Stmts = {s1, s2, s3}
    Requests = {r1}
    Idents = {i1, i2}
    RowCounts = {TRUE}
    None = None
SPECIFICATION Spec
SYMMETRY Symmetry
INVARIANTS
    TypeOK
    StatementsMatch
PROPERTIES
    LateEventsIgnored
CHECK_DEADLOCK FALSE
