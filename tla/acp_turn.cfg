SPECIFICATION FairSpec
CONSTANTS
    Selection <- TwoOptions
    ReadOnly = TRUE
    LateGrace = TRUE
    MaxChunks = 1
    MaxDrift = 1
CHECK_DEADLOCK FALSE
INVARIANTS
    SelectionKept
    EvidenceKept
    CancelHonoured
PROPERTIES
    TurnEnds
