SPECIFICATION Spec
CONSTANTS
    SeqSpan = 3
    NumChannels = 1
    MaxReliable = 5
    MaxChunks = 3
    MaxHeld = 4
INVARIANTS
    TypeOK
    ReliableInOrder
    UnreliableGated
