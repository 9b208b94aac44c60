SPECIFICATION PluggedSpec
CONSTANTS
    d1 = d1
    d2 = d2
    d3 = d3
    Device = {d1, d2, d3}
    NumIds = 2
    MaxFrames = 1
    MaxNamed = 2
SYMMETRY Symmetric
VIEW WithoutFd
INVARIANTS
    LiveClientsListed
    SingleReader
    IdsConsistent
PROPERTY StableId
CHECK_DEADLOCK FALSE
