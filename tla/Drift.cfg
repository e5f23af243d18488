SPECIFICATION Spec
CONSTANTS
    Deadband = 2
    CorrectAbove = 3
    SeekAbove = 20
    MaxRate = 2
    CorrectionTicks = 4
    Settle = 2
    Cooldown = 4
    Samples = 3
    MaxBias = 14
    Lags = {0, 4, 13}
    StoredBiases <- Biases
    Slips <- Jumps
    ClockJumps <- Corrections
    TickLength = 6
    MaxDisturbances = 2
INVARIANTS TypeOK
PROPERTIES SeeksLandNear ComesIntoStepIfItCan
