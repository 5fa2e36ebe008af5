SPECIFICATION TwoSpec
CONSTANTS
    Requests = {r1, r2}
    Default = 1
    MaxTokens = 2
    RunFailures = TRUE
    None = None
    Sentinel = Sentinel
    NumLayers = 3
    Window = 1
    PrefetchDepth = 1
    Parts = {attn, mlp}
    PrefetchOn = TRUE
    Tokens = 2
    MaxFaults = 3
CHECK_DEADLOCK FALSE
INVARIANTS SerializedWhileConnected ConfigurationRestored ComputeOnDevice
PROPERTIES Served RunEnds
