CONSTANTS
    Requests = {r1}
    Handles = {h1}
    Capacity = 2
    CommandCapacity = 1
    MaxNews = 2
SPECIFICATION LiveSpec
CHECK_DEADLOCK FALSE
INVARIANTS
    NothingForgotten
PROPERTIES
    ImplementsWaker
    EverythingServed
