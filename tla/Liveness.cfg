SPECIFICATION FairSpec
CONSTANTS
    Kinds = {"deferred", "bash", "bgbash", "task", "bgtask", "risky", "image"}
    Modes = {"normal"}
    Approvers = {TRUE}
    Classifier = TRUE
    RejectPolicy = TRUE
    NativeIds = FALSE
    LateDeny = FALSE
    StartMayFail = FALSE
    TaskCommand = FALSE
    MaxCalls = 1
    MaxRounds = 2
    MaxTurns = 3
    MaxSteers = 0
    StallBudget = 0
    MaxAgents = 2
PROPERTIES TurnEnds CompletionWakes
CHECK_DEADLOCK FALSE
