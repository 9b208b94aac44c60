SPECIFICATION PluggedFairSpec
CONSTANTS
    d1 = d1
    d2 = d2
    d3 = d3
    Device = {d1, d2}
    NumIds = 2
    MaxFrames = 1
    MaxNamed = 2
PROPERTIES
    EventsRead
    SignalStops
    GoneLeaves
    HotplugOpened
CHECK_DEADLOCK FALSE
