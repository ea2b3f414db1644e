SPECIFICATION Spec
CONSTANTS
    Ids = {a, b}
    MaxBufferSize = 2
    ActivityTimeout = 1
    MaxPackets = 3
    MaxReady = 2
SYMMETRY Symmetry
INVARIANTS
    TypeOK
    QueuesHoldTheNewest
    TimerAlive
    WaitingAudioIsYoung
    HeardInOrder
PROPERTIES
    LossAccounted
    ConferenceSafe
