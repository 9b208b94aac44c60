SPECIFICATION FairSpec
CONSTANTS
    Worker = {w1, w2}
    MaxGame = 2
    HostVersion = 7
INVARIANTS
    ResumesWhatRan
    CleanReturn
PROPERTIES
    LossIsOrderly
    RequestsStop
CHECK_DEADLOCK FALSE
