SPECIFICATION Spec
CONSTANTS
    Resolutions <- Sizes
    MaxRefs = 2
    NoSps = NoSps
INVARIANT
    OtherLevelsLeft
