SPECIFICATION FairSpec
CONSTANTS
    StateSize = 8
    ReadBudget = 6
    MsgLimit = 2
    HeaderSize = 1
    WireSize <- MCWireSize
    Streams <- Burst
PROPERTIES
    CompleteIsDelivered
CHECK_DEADLOCK FALSE
