SPECIFICATION Spec
CONSTANTS
    MaxCommands = 3
    MaxPending = 2
    MaxConnections = 2
    ResendAfter = 0
    CommandTTL = 1
    MemberGrace = 1
    RecentCommands = 2
    Restarts = TRUE
INVARIANTS AppliedInOrder RetriesAreRecognised
PROPERTIES SettledIsNeverRepeated
