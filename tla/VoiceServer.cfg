SPECIFICATION Spec
CONSTANTS
    Sessions = {s1}
    UdpPeers = {u1}
    MaxBufferSize = 1
    ActivityTimeout = 0
    MaxPackets = 2
    MaxReady = 2
    Freed = freed
INVARIANTS
    TypeOK
    OneMixingLoop
    OnlyMembersSpeak
    StreamsAreMixes
    DatagramsInOrder
PROPERTIES
    PartsServed
    AudioReachesPeers
