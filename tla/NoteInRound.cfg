SPECIFICATION Spec
CONSTANTS
    Kinds = {"deferred"}
    Modes = {"auto"}
    Approvers = {TRUE}
    Classifier = FALSE
    RejectPolicy = FALSE
    NativeIds = TRUE
    LateDeny = FALSE
    StartMayFail = FALSE
    TaskCommand = TRUE
    MaxCalls = 1
    MaxRounds = 1
    MaxTurns = 1
    MaxSteers = 0
    StallBudget = 0
    MaxAgents = 1
PROPERTIES ModelSeesResults
CHECK_DEADLOCK FALSE
