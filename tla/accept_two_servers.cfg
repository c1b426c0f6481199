SPECIFICATION FairSpec
CONSTANTS
    Servers = {s1, s2}
    MaxVersion = 4
    MaxFaults = 1
    MaxCommits = 2
    CrashPoints <- EveryPoint
    OperatorActs = {"commit"}
CHECK_DEADLOCK FALSE
INVARIANTS
    LandedOnce
    AcceptedMeansCommitted
PROPERTIES
    AcceptingEnds
