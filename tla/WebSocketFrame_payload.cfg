SPECIFICATION FrameSpec
CONSTANTS
    Sizes <- MCSizes
    MaxMissing = 12
INVARIANTS
    PayloadHasArrived
