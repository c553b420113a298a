SPECIFICATION FairSpec
CONSTANTS
    SeqSpan = 18
    HistorySize = 3
    MaxNumAcks = 2
    ByteBits = 2
    Capacity = 1
    MaxFrames = 2
    MaxChunks = 1
    MaxNet = 2
    MaxLosses = 1
    MaxExtras = 0
    MaxFaults = 1
PROPERTY
    AllDelivered
