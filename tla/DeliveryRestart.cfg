SPECIFICATION Spec
CONSTANTS
    queue = queue context = context
    Parts = {queue}
    ControlQueueSize = 1
    LinkCapacity = 1
    Crashes = TRUE
    MaxVersion = 2
    MaxLosses = 1
INVARIANTS VersionsGrow
