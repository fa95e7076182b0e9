CONSTANTS
    Requests = {r1, r2}
    Sids = {a, b}
    NoRequest = NoRequest
    MaxWriteBufferSize = 4
    Lengths = {1, 3}
    InitialMaxData = 0
    ReceiveWindow = 2
SPECIFICATION FairSpec
CHECK_DEADLOCK FALSE
INVARIANTS
    NoFlowControlError
    BlockedIsRegistered
PROPERTIES
    ImplementsCredit
    BlockedWriterResumes
