SPECIFICATION ServedSpec
CONSTANTS
    Ids = {a, b}
    MaxBufferSize = 2
    ActivityTimeout = 1
    MaxPackets = 3
    MaxReady = 1
PROPERTIES
    MixesForever
    AudioIsHeard
    SilenceIsForgotten
    ConferenceLive
