SPECIFICATION ClientSpec
CONSTANTS
    Key <- Keyboard
    ModOf <- KeyboardMods
    QuitKey = "q"
    FullscreenKey = "f"
    Pad <- Controllers
    NumGamepads = 3
    Kinds <- AllKinds
    MaxQueue = 2
    MaxUnits = 4
    MayMiss = TRUE
INVARIANTS
    PadsApart
    NoStuckModifier
    NoTearing
PROPERTIES
    LatestShown
    QuitReturns
CHECK_DEADLOCK FALSE
