SPECIFICATION FairSpec
CONSTANTS
    NumLayers = 2
    NumExperts = 3
    Workers = 1
    Mode = "predictive"
    Capacities = {1, 2}
    TopK = 2
    Window = 2
    MaxForwards = 3
    MaxFaults = 1
    None = None
INVARIANTS
    SlotsConsistent BitIdentical RecentlyUsedStay StagingSound
PROPERTIES
    ForwardEnds
CHECK_DEADLOCK FALSE
