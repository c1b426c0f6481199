SPECIFICATION FairSpec
CONSTANTS
    Servers = {s1}
    MaxVersion = 4
    MaxFaults = 2
    MaxCommits = 1
    CrashPoints <- EveryPointButSettling
    OperatorActs = {"edit own", "edit foreign"}
CHECK_DEADLOCK FALSE
INVARIANTS
    AcceptedMeansLanded
    ReturnedMeansUndone
    JournalCoversApply
PROPERTIES
    ImplementsAtomicAccept
