CONSTANTS
    Requests = {r1, r2, r3}
    PeerStreams = {a, b}
    MaxPendingCapsules = 2
    MaxPendingDatagrams = 1
    MaxPendingStreams = 1
    InitialMaxStreams = 0
    CapsuleLimit = 3
    DatagramLimit = 2
SPECIFICATION Spec
CHECK_DEADLOCK FALSE
INVARIANTS
    ExactlyOneAnswer
    BuffersEmptied
    EventsPaired
