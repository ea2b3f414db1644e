SPECIFICATION Spec
CONSTANTS
    Sessions = {s1}
    UdpPeers = {u1}
    MaxBufferSize = 1
    ActivityTimeout = 1
    MaxPackets = 1
    MaxReady = 2
    Freed = freed
INVARIANTS
    OneWriteAtATime
