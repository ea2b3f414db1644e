SPECIFICATION Spec
CONSTANTS
    HalfRange = 8
    MaxSum = 24
    Levels <- MCLevels
    MaxSamples = 2
    MaxPackets = 3
    Sizes <- MCSizes
    MaxMissing = 12
    Types <- MCTypes
    Chars <- MCChars
    MaxText = 2
    Refused = refused
    Unread = unread
    Digits <- MCDigits
    MaxDigits = 6
    MaxSkipped = 1
INVARIANTS
    LevelsAreKept
    RoundTrip
    MissesAtMostTheMask
    TextsSurvive
    NothingIsMadeUp
    Base64IsExact
CHECK_DEADLOCK FALSE
