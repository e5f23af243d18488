SPECIFICATION Spec
CONSTANTS
    t1 = t1 t2 = t2 t3 = t3
    alice = alice bob = bob
    NoTrack = NoTrack
    NoValue = NoValue
    MaxAdvanceSteps = 4
    TrackIds = {t1, t2}
    Clients = {alice}
    CatalogVersions <- FullCatalog
    StartDelayMs = 1
    ResumeDelayMs = 1
    WaitForAllMaxMs = 0
    PrevRestartThresholdMs = 1
    PauseTrustWindowMs = 1
    HoldMarginMs = 2
    HoldExtendMs = 4
    MaxQueueLength = 3
    TimerSlack = 1
    Ops <- QueueOps
    Positions = {}
    ContextRequests <- QueueContexts
    AddRequests <- QueueRequests
    Statuses = {}
    Restarts = TRUE
    MaxEntrySeq = 5
    MaxTime = 4
    MaxVersion = 4
INVARIANTS QueueOk CleanMeansSaved CatchUpIsConfluent
PROPERTIES PartVersionsCoverChanges VersionCoversChanges
CHECK_DEADLOCK FALSE
