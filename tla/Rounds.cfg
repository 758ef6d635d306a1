SPECIFICATION Spec
CONSTANTS
    Kinds = {"inline", "deferred", "risky"}
    Modes = {"normal", "auto"}
    Approvers = {TRUE, FALSE}
    Classifier = TRUE
    RejectPolicy = FALSE
    NativeIds = TRUE
    LateDeny = FALSE
    StartMayFail = TRUE
    TaskCommand = FALSE
    MaxCalls = 2
    MaxRounds = 2
    MaxTurns = 3
    MaxSteers = 1
    StallBudget = 1
    MaxAgents = 2
INVARIANTS TypeOK AnswersOwnCall RoundAccounting 
PROPERTIES ModelSeesResults  NoUngatedRun
CHECK_DEADLOCK FALSE
