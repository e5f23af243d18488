SPECIFICATION Spec
SYMMETRY CallerSymmetry
CONSTANTS
    a = a c = c folder = folder one = one two = two
    Tracks = {a}
    Keys = {folder}
    PinLists <- SingleLists
    PrefetchLists <- OtherLists
    Played = {a}
    Rescanned = {a}
    Callers = {one, two}
    Concurrency = 1
    MaxAttempts = 1
    PinPriority = 3
    AutoLimit = 0
    MaxRev = 1
    MaxRefusals = 1
INVARIANTS TypeOK
PROPERTIES NothingLeaks
