SPECIFICATION Spec
CONSTANTS
    Proc = {p1, p2}
    None = None
    MaxGame = 1
    HostVersion = 8
INVARIANTS
    PairedWasGranted
    NoGhostTrust
PROPERTIES
    UndoneForGood
    Promise
CHECK_DEADLOCK FALSE
