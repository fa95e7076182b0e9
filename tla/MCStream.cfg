CONSTANTS
    NoRequest = NoRequest
    Requests = {r1, r2}
    MaxWriteBufferSize = 3
    Directions = {"Bidirectional", "SendOnly", "ReceiveOnly"}
    Lengths = {0, 1, 2}
    ReadSizes = {0, 1, 2}
    CreditLimit = 4
    InboundLimit = 2
    FirstCode = 96
    MaxCode = 127
    MaxAsked = 140
    MaxForeign = 300
SPECIFICATION FairSpec
CHECK_DEADLOCK FALSE
INVARIANTS
    ExactlyOneAnswer
    NothingWaitsInVain
    CreditConserved
    NoByteSkipped
    BytesInOrder
PROPERTIES
    EveryRequestAnswered
