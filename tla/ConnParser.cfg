SPECIFICATION FairSpec
CONSTANTS
    StateSize = 8
    ReadBudget = 6
    MsgLimit = 2
    HeaderSize = 1
    WireSize <- MCWireSize
    Streams <- Mixed
INVARIANTS
    TypeOK
    BufferHoldsStream
    Framing
PROPERTIES
    AllBytesRead
    UnknownIsDrained
    EndedIsClosed
CHECK_DEADLOCK FALSE
