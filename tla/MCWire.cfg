CONSTANTS
    None = None
    Types <- MCTypes
    Indexed <- MCIndexed
    Samples <- MCSamples
    Usual = {3}
    Headers <- MCHeaders
    Interests <- MCInterests
    Keys <- MCKeys
    ControlIds <- MCControlIds
    BundleType <- MCBundleType
    SchemaUuids <- MCSchema
    MaxBuffer = 84
    MaxFragments = 2
    MaxControlIds = 2
    SeqSpan = 3
    Priorities = 3
    MaxMessageData = 40
    MaxDatagram = 56
    MaxOps = 3
SPECIFICATION Spec
INVARIANT
    TypeOK
PROPERTIES
    ValuesReadBack
    BundleReadsBack
    MessagesReadBack
    FramesReadBack
CHECK_DEADLOCK FALSE
