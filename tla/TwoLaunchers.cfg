SPECIFICATION Spec
CONSTANTS
    Clients = {c1, c2}
    Daemons = {d1, d2}
    NoDaemon = NoDaemon
    Impatient = FALSE
    SlowTeardown = FALSE
INVARIANT OneOwner
CHECK_DEADLOCK FALSE
