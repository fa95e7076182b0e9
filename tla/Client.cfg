CONSTANTS
    Callers = {c1, c2}
    Count = 2
    MaxRuntimes = 2
SPECIFICATION LiveSpec
CHECK_DEADLOCK FALSE
INVARIANTS
    EverythingOwned
    OneRuntime
PROPERTIES
    LosersClosed
