SPECIFICATION LiveSpec
CONSTANTS
    s1 = s1
    s2 = s2
    l1 = l1
    p1 = p1
    p2 = p2
    c1 = c1
    c2 = c2
    c3 = c3
    Drain = Drain
    Close = Close
    None = None
    Sessions = {s1, s2}
    LocalStreams = {l1}
    PeerStreams = {p1, p2}
    Consumers = {c1, c2, c3}
    SessionOf <- MCSessionOf
    DirectionOf <- MCDirectionOf
    QueueOf <- MCQueueOf
    Uses <- MCUses
    MaxInbox = 2
CHECK_DEADLOCK FALSE
INVARIANTS
    HandlesFollowCore
    EachToOneConsumer
PROPERTIES
    WaitersServed
