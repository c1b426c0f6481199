CONSTANTS
    p1 = p1
    p2 = p2
    s1 = s1
    s2 = s2
    Providers = {p1, p2}
    Steered = p1
    Target <- Targets
    StepUp <- StepPoints
    Release = 5
    MinTurns = 1
    Hold = 50
    Down = 95
    WindowHold = 80
    WindowDown = 90
    NoEffort = {"small"}
    Efforts = {"low", "high"}
    Servers = {s1, s2}
    Family <- OneFamily
    Submissions <- Asked
    Before <- Earlier
    Rolling = {p1}
    Editors = {"web"}
    Patches <- Edits
    Tables <- PromotedTables
    Defaults <- Shipped
    MaxRevision = 2
    MaxTasks = 2
    MaxTurns = 1
SPECIFICATION Spec
SYMMETRY Interchangeable
CHECK_DEADLOCK FALSE
INVARIANTS
    EditsNotLost
    BudgetOvershoot
    SecondOpinionsIndependent
PROPERTIES
    SteppedUpWithRoom
