SPECIFICATION Spec
CONSTANTS
    SeqSpan = 16
    HistorySize = 4
    MaxNumAcks = 2
    ByteBits = 2
    MaxDatagram = 18
    MaxLate = 2
    MaxAhead = 3
    MaxAcks = 1
INVARIANTS
    TypeOK
    

    
