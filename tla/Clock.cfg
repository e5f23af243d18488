SPECIFICATION Spec
CONSTANTS
    NoOffset = NoOffset
    Window = 4
    Best = 3
    SlewThreshold = 4
    MaxRtt = 8
    Tolerance = 1
    MaxPending = 1
    Delays = {0, 2}
    Skews = {0, 5}
    MaxJumps = 1
INVARIANTS TypeOK OffsetWithinRoundTrip
PROPERTIES OffsetRecovers
