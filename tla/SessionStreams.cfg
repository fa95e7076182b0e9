CONSTANTS
    Requests = {r1, r2, r3, r4, r5}
    InitialMaxStreams = 2
    QuicStreams = 2
SPECIFICATION FairSpec
CHECK_DEADLOCK FALSE
INVARIANTS
    NoFlowControlError
    NoRequestLost
    WaitHasAReason
PROPERTIES
    ImplementsCredit
    EveryRequestServed
