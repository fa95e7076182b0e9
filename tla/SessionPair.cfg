CONSTANTS
    Codes = {"k1", "k2"}
    MaxCredit = 1
SPECIFICATION LiveSpec
CHECK_DEADLOCK FALSE
INVARIANTS
    CodeArrives
PROPERTIES
    EndsReachBoth
