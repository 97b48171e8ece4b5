SPECIFICATION DeploymentSpec
CONSTANTS
    r1 = r1
    r2 = r2
    Requests = {r1, r2}
    MaxFindings = 2
    QueueDepth = 1
    Client = Client
    None = None
    Keyed = TRUE
    Calls <- MCCalls
    MaxFaults = 1
    Detections <- MCDetections
    Matches <- MCMatches
    Thresholds <- MCThresholds
    KeywordsIn <- MCKeywordsIn
    Hooks <- MCHooks
    MaxRaised = 2
    Nothing = Nothing
    Impl <- MCImpl
    Installed = {"acme", "beta"}
    Configurable = {"beta", "ports"}
    ClassesIn <- MCClassesIn
    Unloadable = {"ports", "acme"}
    Policies <- MCPolicies
    CacheDays = 1
    MaxDay = 3
    Room <- MCRoom
    MaxSweeps = 2
    Absent = Absent
    Filters = {"any", "high"}
    MaxPages = 2
    MaxFetches = 3
    MaxWrites = 1
    Blank = Blank
    Failed = Failed
    Processes = {"sensor", "api"}
    MaxDeaths = 1
CHECK_DEADLOCK FALSE
INVARIANTS
    SetUpIsSound
    LinesAreSound
    AnswersFit
    AlertsAreHeard
    StoreHolds
    ScreenIsTrue
