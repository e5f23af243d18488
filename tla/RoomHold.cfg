SPECIFICATION Spec
SYMMETRY ClientSymmetry
CONSTANTS
    t1 = t1 t2 = t2 t3 = t3
    alice = alice bob = bob
    NoTrack = NoTrack
    NoValue = NoValue
    MaxAdvanceSteps = 5
    TrackIds = {t1, t2}
    Clients = {alice, bob}
    CatalogVersions <- FullCatalog
    StartDelayMs = 3
    ResumeDelayMs = 1
    WaitForAllMaxMs = 4
    PrevRestartThresholdMs = 1
    PauseTrustWindowMs = 1
    HoldMarginMs = 2
    HoldExtendMs = 4
    MaxQueueLength = 3
    TimerSlack = 1
    Ops <- HoldOps
    Positions <- HoldPositions
    ContextRequests <- HoldContexts
    AddRequests <- NoRequests
    Statuses <- HoldStatuses
    Restarts = FALSE
    MaxEntrySeq = 5
    MaxTime = 6
    MaxVersion = 3
INVARIANTS TypeOK StartWaitsForHold HoldIsBounded EveryoneToldLatest
PROPERTIES TickLeavesNothingDue
CHECK_DEADLOCK FALSE
