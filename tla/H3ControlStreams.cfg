CONSTANTS
    None = None
    Streams = {s1, s2}
    Types = {"control", "decoder", "webtransport", "push", "unknown"}
    Frames = {"SETTINGS", "GOAWAY", "MAX_PUSH_ID", "HEADERS", "DATA", "UNKNOWN"}
    MaxUnits = 7
    MaxUnread = 3
SPECIFICATION Spec
CHECK_DEADLOCK FALSE
INVARIANTS
    RolesKept
    FramesInOrder
