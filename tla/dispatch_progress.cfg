SPECIFICATION FairSpec
CONSTANTS
    Tasks <- OneTask
    Servers = {s1}
    ModeOf <- AllImplement
    Limit = 1
    Drain = TRUE
    MaxVersion <- UpToSix
    MaxFaults = 2
    FaultKinds = {"server", "start", "claim"}
CHECK_DEADLOCK FALSE
PROPERTIES
    DispatchedInTheEnd
    LeaseReturned
