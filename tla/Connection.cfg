CONSTANTS
    Requests = {r1, r2}
    ServerRequests = {r1}
    PeerStreams = {p1}
    OverLimit = {p1}
    ConnectLimit = 2
    DatagramLimit = 1
    QuicStreams = 0
    MaxSessions = 2
    MaxConnectionPendingEvents = 2
    MaxSessionPendingEvents = 1
    MaxPendingStreams = 1
SPECIFICATION LiveSpec
CHECK_DEADLOCK FALSE
INVARIANTS
    RequestsAccounted
    EarlyEventsAccounted
    SessionsAccounted
PROPERTIES
    RequestsAnswered
