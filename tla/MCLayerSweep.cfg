SPECIFICATION FairSweep
CONSTANTS
    NumLayers = 4
    ResidentCount = 0
    PrefetchDepth = 2
    PrefetchOn = TRUE
    DirectIO = TRUE
    Profiled = TRUE
    Buffers = {b1, b2, b3}
    None = None
    Torn = Torn
    Window = 1
    Tokens = 2
    Faults <- RunFaults
    MaxFaults = 3
INVARIANTS DeviceBound BufferBound RaisesAfterFallbacks
PROPERTIES ImplementsForwardPass Terminates
