SPECIFICATION Spec
CONSTANTS
    NumLayers = 3
    ResidentCount = 1
    PrefetchDepth = 2
    PrefetchOn = TRUE
    DirectIO = TRUE
    Profiled = FALSE
    Buffers = {b1, b2, b3, b4}
    None = None
    Torn = Torn
    Faults <- FaultKinds
    MaxFaults = 1
SYMMETRY Symmetry
CHECK_DEADLOCK FALSE
INVARIANTS BufferOwnership OwnWeights CleanShutdown
PROPERTIES NoResultLost
