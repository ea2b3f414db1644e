SPECIFICATION Spec
CONSTANTS
    Callers = {a, b}
    Destinations = {d, e}
    MaxCalls = 2
    MaxContexts = 1
    None = none
INVARIANTS
    TypeOK
    WrittenInOrder
    DrainedAtEnd
PROPERTIES
    ImplementsLog
CHECK_DEADLOCK FALSE
