SPECIFICATION Spec
CONSTANTS
    Nodes <- ThreeTasks
    Plans <- MCPlans
    Kid <- MCKid
    Agents = {a1}
    SavesFail = TRUE
    NoNode = NoNode
    NotParked = NotParked
    Fingerprint = Fingerprint
INVARIANTS NoFalseDone ExecutesApproved
PROPERTIES SealIsEarned ShippedAsApproved
