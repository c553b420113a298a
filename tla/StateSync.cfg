SPECIFICATION Spec
CONSTANTS
    None = None
    ByteSize = 2
    DeltaRange = 3
    Rollover = 13
    Clients = {c1, c2}
    Client = c1
    Declared = {4}
    WhitelistSize = 1
    FieldKinds = {"counter", "dynamic"}
    FixedKinds = {"delta", "timer"}
    Samples = {1, 4, 5, 14}
    MaxSeq = 3
    MaxEdits = 3
    MaxNet = 1
    PeerDeltas = FALSE
INVARIANTS
    TypeOK
    ClientInSync
    ReadsBack
    NotDisclosed
    ChangesAreDirty
    NewsKept
    PeerMirrors
CHECK_DEADLOCK FALSE
