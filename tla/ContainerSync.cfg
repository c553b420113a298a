SPECIFICATION Spec
CONSTANTS
    Keys = {k1, k2, k3}
    Values = {v1, v2}
    None = None
    DefaultValue = v1
    JournalSize = 2
    MaxSeq = 3
    MaxEdits = 2
    MaxNet = 2
SYMMETRY Symmetry
INVARIANTS
    TypeOK
    DeltaComplete
    InSync
    NewsKept
CHECK_DEADLOCK FALSE
