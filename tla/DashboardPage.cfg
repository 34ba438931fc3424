CONSTANTS
    Ids = {i1, i2}
    MaxCalls = 3
    None = None
SPECIFICATION FairSpec
INVARIANTS
    TypeOK
    ShowsSelection
    ClearedIsGone
PROPERTIES
    ButtonsReturn
