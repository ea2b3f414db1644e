SPECIFICATION Spec
CONSTANTS
    Threads = 2
    MaxMessages = 3
PROPERTIES
    EveryMessageIsEchoed
CHECK_DEADLOCK FALSE
