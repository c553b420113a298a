SPECIFICATION FairSpec
CONSTANTS
    Versions = {1, 2}
    CmdCapacity = 1
    EventCapacity = 1
    MaxWire = 2
    MaxBatch = 2
INVARIANTS
    TypeOK
    ConnectedAgree
    DisconnectedOnce
PROPERTIES
    HandshakeCompletes
    DroppedDriverExits
CHECK_DEADLOCK FALSE
