SPECIFICATION Spec
CONSTANTS
    Pads <- AllPads
    KeyboardCodes <- SomeKeys
    MaxQueue = 2
    MaxOdd = 1
INVARIANTS
    AnswersKept
    LoadedPadWorks
CHECK_DEADLOCK FALSE
