SPECIFICATION Spec
CONSTANTS
    t1 = t1 t2 = t2 t3 = t3
    alice = alice bob = bob
    NoTrack = NoTrack
    NoValue = NoValue
    MaxAdvanceSteps = 4
    TrackIds = {t1, t2, t3}
    Clients = {alice}
    CatalogVersions <- ChangingCatalogs
    StartDelayMs = 1
    ResumeDelayMs = 1
    WaitForAllMaxMs = 0
    PrevRestartThresholdMs = 1
    PauseTrustWindowMs = 1
    HoldMarginMs = 2
    HoldExtendMs = 4
    MaxQueueLength = 3
    TimerSlack = 1
    Ops <- ContextOps
    Positions = {}
    ContextRequests <- Contexts
    AddRequests <- LibraryRequests
    Statuses = {}
    Restarts = FALSE
    MaxEntrySeq = 1
    MaxTime = 3
    MaxVersion = 4
INVARIANTS ContextOk DurationFollowsCatalog PhonesAgree PrefetchComesTrue
PROPERTIES ShuffleKeepsTrack
CHECK_DEADLOCK FALSE
