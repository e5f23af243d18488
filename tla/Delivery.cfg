SPECIFICATION Spec
CONSTANTS
    queue = queue context = context
    Parts = {queue}
    ControlQueueSize = 1
    LinkCapacity = 2
    Crashes = FALSE
    MaxVersion = 2
    MaxLosses = 1
INVARIANTS TypeOK CaughtUp
PROPERTIES KeepsPromise EventuallyCaughtUp
