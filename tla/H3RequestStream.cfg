CONSTANTS
    None = None
    SizeLimit = 2
    MaxFrames = 3
    Scripts <- MCScripts
    Headers <- MCHeaders
SPECIFICATION Spec
CHECK_DEADLOCK FALSE
INVARIANTS
    EventsComplete
    StreamsServed
