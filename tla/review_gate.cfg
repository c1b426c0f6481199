SPECIFICATION MCSpec
CONSTANTS
    author = author
    other = other
    Author = author
    Reviewers = {other}
    Families = {"f1", "f2"}
    FamilyOf <- TwoFamilies
    ReviewTasks = {"r1"}
    Outcomes <- Anything
    SizeOf <- Sizes
    Pages = {1, 3}
    MaxPage = 2
    Verdicts <- Said
    Flags <- AnyFlags
    MaxRevision = 2
    MaxReceipts = 2
    MaxVersion = 10
CHECK_DEADLOCK FALSE
INVARIANTS
    CoverageSound
    AcceptedWasRead
    AcceptedWasReviewed
    AcceptedIsClean
