SPECIFICATION Spec
CONSTANTS
    Kinds = {"risky", "task", "bgtask", "bash", "bgbash", "image"}
    Modes = {"normal", "yolo"}
    Approvers = {TRUE}
    Classifier = TRUE
    RejectPolicy = FALSE
    NativeIds = TRUE
    LateDeny = FALSE
    StartMayFail = FALSE
    TaskCommand = TRUE
    MaxCalls = 2
    MaxRounds = 1
    MaxTurns = 2
    MaxSteers = 1
    StallBudget = 0
    MaxAgents = 2
INVARIANTS NoLostWakeUp ParkedOnRiskyCall 
CHECK_DEADLOCK FALSE
