SPECIFICATION RenderersSpec
CONSTANTS
    Resolutions <- Sizes
    MaxRefs = 2
    NoSps = NoSps
    Buffers = 2
    MaxAhead = 1
    Ring = 5
    ImxUnits <- SomeUnits
    Frames = 4
    Refs = 2
    Delay = 1
    MaxUnits = 4
    MaxEntries = 2
INVARIANTS
    SpsAccepted
    RingInOrder
    FramesRotate
    DecodableFeed
PROPERTIES
    HighAfterReplay
    SubmitReturns
CHECK_DEADLOCK FALSE
