SPECIFICATION MCSpec
CONSTANTS
    MaxTurns = 3
    w1 = w1
    w2 = w2
    Writers = {w1, w2}
    Keys = {"disk", "lock"}
    Sizes = {1, 2}
    MaxBytes = 3
    Generations = 2
    LegacySize = 4
    MaxFailures = 4
CHECK_DEADLOCK FALSE
INVARIANTS
    RepeatsAccounted
PROPERTIES
    ScratchNotLost
