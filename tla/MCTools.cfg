CONSTANTS
    Machines <- FewMachines
    Models <- FewModels
    Settings <- FewSettings
    Measurements <- FewMeasurements
    Repos <- Kinds
    Moe = {"moe", "mlx"}
    Mtp = {"dense"}
    Quantized = {"mlx"}
    Slug <- Slugs
    DefaultModel = "dense"
    Names <- TypedNames
    ModelOf <- TypedModels
    Dirs <- FewDirs
    DirsOf <- TypedDirs
    LibraryDirs = {"library"}
    NumLayers = 1
    Quants = {"int4", "bf16"}
    Oversized <- TooLarge
    Retries = 1
    MaxCommands = 3
    NumTraced = 2
    Tokens = 2
    Ahead = 1
    MaxFailures = 2
    None = "none"
SPECIFICATION ToolsSpec
INVARIANTS
    PlanSound SimulatorsSound TracesSound CatalogueSound
CHECK_DEADLOCK FALSE
