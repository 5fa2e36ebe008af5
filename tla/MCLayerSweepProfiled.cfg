SPECIFICATION SweepSpec
CONSTANTS
    NumLayers = 4
    ResidentCount = 1
    PrefetchDepth = 2
    PrefetchOn = TRUE
    DirectIO = TRUE
    Profiled = TRUE
    Buffers = {b1, b2, b3, b4}
    None = None
    Torn = Torn
    Window = 1
    Tokens = 2
    Faults <- NoFaults
    MaxFaults = 1
SYMMETRY Symmetry
INVARIANTS FaultlessRunCompletes
