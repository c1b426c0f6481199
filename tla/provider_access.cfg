SPECIFICATION MCFairSpec
CONSTANTS
    t1 = t1
    t2 = t2
    c1 = c1
    c2 = c2
    Turns = {t1, t2}
    Profiles <- MCProfiles
    Initial = {t1}
    Errors <- MCErrors
    Resets = {0, 1}
    EligibleAfter = 2
    MaxLogins = 1
    Checkers = {c1, c2}
    CheckTicks = 1
    LeaseTicks = 2
    FreshTicks = 1
CHECK_DEADLOCK FALSE
INVARIANTS
    ShownIsCurrentLogin
PROPERTIES
    NewerRefusalKept
    WindowRespected
    HeldTurnsRun
