SPECIFICATION ServerSpec
CONSTANTS
    Sessions = {s1}
    MaxSends = 11
    MaxMessages = 3
    MaxNews = 2
    Damaged = damaged
    News = news
INVARIANTS
    TypeOK
    FramesInOrder
    WriterAwake
    NothingForgotten
    EchoesKeepOrder
PROPERTIES
    EveryMessageIsEchoed
CHECK_DEADLOCK FALSE
