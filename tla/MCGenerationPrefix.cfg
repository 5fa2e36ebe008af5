SPECIFICATION GenerationSpec
CONSTANTS
    Vocab <- Ids3
    Eos = 0
    Models <- Targets
    Prompts <- TwoPrompts
    Configs <- ChatRunner
    MinHit = 2
    Margin = 4
    Every = 2
    MaxEntries = 2
    MaxBytes = 9
    MaxNew = 3
    MaxTurns = 2
    MaxFaults = 1
    NumLayers = 3
    Accelerator = TRUE
    CacheConfigs <- Tiered
    RawBytes = 3
    PackedBytes = 1
    QuantBytes = 2
    MaxFed = 3
    MaxPos = 7
    Faults = {"spill", "load"}
    MaxDiskFaults = 2
    EosId = 0
    HashTargets <- BatchTargets
    Batches <- PromptLists
    Pads = {0, 2}
    Limit = 4
    Inputs <- Questions
    AnswerIds = {1, 2}
    MaxTokens = 2
    MaxLines = 3
    User = User
    Assistant = Assistant
    Think = Think
    Stopped = Stopped
    Space = Space
INVARIANT PrefixReuseLossless
CHECK_DEADLOCK FALSE
