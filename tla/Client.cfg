SPECIFICATION Spec
CONSTANTS
    Rooms = {"main", "attic"}
    MaxVersion = 2
    MaxActs = 1
    MaxFaults = 2
    Hasty = FALSE
INVARIANTS TypeOK NeverGivesUp
PROPERTIES ShowsItsRoom
