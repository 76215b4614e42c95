SPECIFICATION Spec
CONSTANTS
    a = a
    b = b
    one = one
    two = two
    three = three
    NL = NL
    MARK = MARK
    Channels <- MCChannels
    Calls <- MCCalls
    Shapes <- MCShapes
    MaxSize <- MCMaxSize
    MarkLen <- MCMarkLen
INVARIANTS
    TypeOK
    OneLoop
    FlagTruth
    ChunkFits
    ChunksInOrder
    NothingLost
PROPERTIES
    RelaySpec
    ServedIsDelivered
\* Every call is made once and every goroutine ends: the run stops.
CHECK_DEADLOCK FALSE
