SPECIFICATION Spec
CONSTANTS
    a = a c = c folder = folder one = one two = two
    Tracks = {a, c}
    Keys = {folder}
    PinLists <- SavedLists
    PrefetchLists <- OneList
    Played = {a}
    Rescanned = {c}
    Callers = {one}
    Concurrency = 2
    MaxAttempts = 2
    PinPriority = 3
    AutoLimit = 1
    MaxRev = 0
    MaxRefusals = 0
PROPERTIES PumpWillRun EvictionSettles
