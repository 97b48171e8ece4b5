SPECIFICATION EngineSpec
CONSTANTS
    src1 = src1
    src2 = src2
    src3 = src3
    port1 = port1
    port2 = port2
    nobody = nobody
    f1 = f1
    f2 = f2
    c1 = c1
    c2 = c2
    Groups <- ThreeGroups
    Values <- TwoValues
    Blank = Blank
    Rules <- Versions
    MaxSeries = 2
    LastTime = 3
    MaxLog = 3
    Lag = 0
    Nobody <- nobody
    Files <- TwoFiles
    Callers <- TwoCallers
    MaxEdits = 2
    MaxCalls = 2
SYMMETRY Alike
INVARIANTS
    RegistryFollowsDisk
    TogglesHold
PROPERTIES
    ImplementsEpisodes
CHECK_DEADLOCK FALSE
