SPECIFICATION Spec
CONSTANTS
    MaxBufferSize = 2
    MaxDatagram = 2
    MaxReceived = 4
    MaxCaptured = 4
    Freed = freed
INVARIANTS
    TypeOK
    PlayedInOrder
    PlaybackAccounted
    CaptureAccounted
PROPERTIES
    ArrivalsArePlayed
    CapturesGoOut
