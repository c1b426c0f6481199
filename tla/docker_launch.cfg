SPECIFICATION MCSpec
CONSTANTS
    w1 = w1
    a1 = a1
    t1 = t1
    Workers <- OneWorker
    Accepts <- OneAccept
    Tokens <- OneToken
    MaxTurn <- Turns
    MaxGen = 2
CHECK_DEADLOCK FALSE
INVARIANTS
    IdentityRunsOnce
    FailedLeavesNothing
    QuietStaysQuiet
