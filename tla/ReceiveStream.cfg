CONSTANTS
    a = a
    b = b
    c = c
    Readers = {a, b, c}
    Watched = {a}
    Uses <- MCUses
    Total = 3
    Separators = {1, 3}
    ChunkSize = 2
    MaxTasks = 3
SPECIFICATION LiveSpec
CHECK_DEADLOCK FALSE
INVARIANTS
    BytesKept
PROPERTIES
    ReadersReturn
