SPECIFICATION Spec
CONSTANTS
    Clients = {c1, c2}
    Tokens = {t1}
    NoView = NoView
    NoStream = NoStream
    Grace = 2
    MaxLength = 1
    MaxEvents = 2
    MaxLosses = 1
SYMMETRY Symmetry
INVARIANTS OneController NoGhost ShadowTrue NothingMissing SnapshotComes
 
CHECK_DEADLOCK FALSE
