CONSTANTS
    ChainLimit = 2
    Isolates = {a, b}
    MaxEvents = 4
    MaxResources = 3
    MaxTurns = 5
    MaxFaults = 1
    MaxTicks = 1
    LargestProfile = 3
    HotspotLimit = 1
    Metrics = {"rss_max_bytes", "heap_growth_bytes"}
    Inputs <- MCInputs
SPECIFICATION MCSpec
INVARIANTS
    AnalysisSplits
    ChainsHonest
    LossExplained
    FinalsCounted
    ProfilesAttributed
    AssessmentSound
    GateSound
CHECK_DEADLOCK FALSE
SYMMETRY IsolatesAlike
