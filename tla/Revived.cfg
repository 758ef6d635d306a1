SPECIFICATION Spec
CONSTANTS
    Modes = {"auto", "plan"}
    Plans = {p1}
    PreserveN = 1
    YoloArmed = FALSE
    MaxSaid = 5
    MaxAgents = 0
    NoPlan = NoPlan
    NoMode = NoMode
    NoRequest = NoRequest
PROPERTIES ExecutedByItsOwn
CHECK_DEADLOCK FALSE
