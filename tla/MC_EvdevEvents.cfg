SPECIFICATION AxesSpec
CONSTANTS
    Key <- Keyboard
    ModOf <- KeyboardMods
    QuitKey = "q"
    MouseButton = {"left"}
    Button = {"A"}
    PointerAxis = {"x", "y", "wheel"}
    ZParms <- SmallTrigger
    HatParms <- SmallHat
    Kinds <- AllKinds
    MaxOffset = 1
    MaxRange = 9
    MaxFlat = 4
INVARIANTS
    InStep
    ModifiersHeld
    PadFlushed
    StickFits
PROPERTIES
    AxisFollows
CHECK_DEADLOCK FALSE
