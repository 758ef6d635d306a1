SPECIFICATION Spec
CONSTANTS
    Nodes <- ThreeTasks
    Plans <- MCPlans
    Kid <- MCKid
    Agents = {a1}
    SavesFail = FALSE
    NoNode = NoNode
    NotParked = NotParked
    Fingerprint = Fingerprint
INVARIANT CompleteCanShip
