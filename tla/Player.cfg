SPECIFICATION Spec
CONSTANTS
    NoTrack = NoTrack
    a = a b = b
    Tracks = {a, b}
    Copies = {1, 2}
    Stored = {a}
    Corrupt = {a}
    Interrupts = {"end", "system", "gesture"}
    MaxChanges = 3
    MaxFaults = 1
INVARIANTS TypeOK PlaysItsTrack SourcesReleased
PROPERTIES ElementFollows
CHECK_DEADLOCK FALSE
