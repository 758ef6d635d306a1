SPECIFICATION FairSpec
CONSTANTS
    Clients = {c1}
    Daemons = {d1, d2, d3, d4}
    NoDaemon = NoDaemon
    Impatient = FALSE
    SlowTeardown = FALSE
INVARIANTS OneOwner  
PROPERTIES StopLeavesNoOwner ClientReturns ExclusiveOwnership
CHECK_DEADLOCK FALSE
