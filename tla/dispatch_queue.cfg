SPECIFICATION FairSpec
CONSTANTS
    Tasks <- TwoTasks
    Servers = {s1}
    ModeOf <- OneConsult
    Limit = 1
    Drain = TRUE
    MaxVersion <- UpToOne
    MaxFaults = 0
    FaultKinds = {}
CHECK_DEADLOCK FALSE
INVARIANTS
    LeasesWithinLimit
PROPERTIES
    DispatchedInTheEnd
