SPECIFICATION FairSpec
CONSTANTS
    Addrs = {a1}
    MaxConns = 2
    MaxData = 2
    MaxSends = 1
    ListenerCapacity = 1
    EventCapacity = 1
    QueueCapacity = 1
INVARIANTS
    TypeOK
    OwnPlaintexts
    ReadyFirst
    RegistryForward
PROPERTY
    EndedPeerLeaves
CHECK_DEADLOCK FALSE
