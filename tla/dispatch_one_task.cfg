SPECIFICATION FairSpec
CONSTANTS
    Tasks <- OneTask
    Servers = {s1}
    ModeOf <- AllImplement
    Limit = 1
    Drain = TRUE
    MaxVersion <- UpToSix
    MaxFaults = 2
    FaultKinds = {"worker", "stop", "server", "reboot", "start"}
CHECK_DEADLOCK FALSE
INVARIANTS
    TurnHoldsLease
    TurnIsOwned
PROPERTIES
    CancelEnded
