SPECIFICATION ServedSpec
CONSTANTS
    Ids = {a, b}
    MaxBufferSize = 1
    ActivityTimeout = 1
    MaxPackets = 1
    MaxReady = 1
INVARIANTS
    InactiveClientsLeave
