SPECIFICATION ConfigSpec
CONSTANTS
    NULL = NULL
    Options <- Opts
    Disks <- SomeDisks
    Address = {"there"}
    MAX_INPUTS = 2
    MaxOptions = 4
    MaxOpen = 2
    MaxRuns = 2
INVARIANTS
    LastSettingWins
    InputsMapped
    SavedLoads
CHECK_DEADLOCK FALSE
