SPECIFICATION StorageSpec
CONSTANTS
    NumLayers = 3
    MaxPulls = 2
    MaxConversions = 4
    MaxCrashes = 3
    NoFile = NoFile
    Checkpoints <- PackageCheckpoints
    Sanitized <- Quarter
    MaxRuns = 3
    MaxDamage = 1
    Absent = Absent
    Empty = Empty
    CutHeader = CutHeader
    CutPayload = CutPayload
    Torn = Torn
    NumSwitchLayers = 2
    NumExperts = 2
    Nbytes <- ExpertBytes
    Budget = 2
    Workers = 2
    HeapSlack = 0
    TopK = 2
    MaxCalls = 3
    MaxFailures = 1
    BankLayers = {0}
    States <- ExpertStates
    MlxCheckpoints <- MlxLayers
    HeaderLengths = {8, 11}
    Lost = Lost
    Unreadable = Unreadable
    Unbuilt = Unbuilt
    Error = Error
    Shards = {1, 2}
    Widths <- TwoWidths
    Header = 2
    MapCompressed = FALSE
    Damages = {"cut", "flip"}
    Readers = {1, 2}
    MaxReads = 3
    Junk = Junk
    Flipped = Flipped
    Unread = Unread
    Failed = Failed
INVARIANTS
    ReadersServed VerifyTruthful PackageSound OwnBytes OwnTensors WithinBudget
PROPERTIES
    Converted CallReturns
CHECK_DEADLOCK FALSE
