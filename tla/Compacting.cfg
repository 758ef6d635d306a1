SPECIFICATION FairSpec
CONSTANTS
    Modes = {"auto", "yolo", "plan", "sdlc"}
    Plans = {p1, p2}
    PreserveN = 1
    YoloArmed = TRUE
    MaxSaid = 5
    MaxAgents = 1
    NoPlan = NoPlan
    NoMode = NoMode
    NoRequest = NoRequest
INVARIANTS ArmedIsApproved
PROPERTIES NothingComesBack KeptOrSummarised CompactionEnds
CHECK_DEADLOCK FALSE
