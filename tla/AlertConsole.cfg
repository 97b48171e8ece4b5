SPECIFICATION FairConsole
CHECK_DEADLOCK FALSE
CONSTANTS
    pipeline = pipeline
    worker = worker
    patch1 = patch1
    enrich1 = enrich1
    kind1 = kind1
    kind2 = kind2
    Patchers <- OnePatch
    Enrichers <- OneEnrich
    Statuses <- TwoStatuses
    New = "new"
    Prunes = 1
    MaxOcc = 3
    Kinds <- TwoKinds
    AlertStatuses <- TwoStatuses
    Anything = "any"
    PageLimits = {1, 2}
    MaxRows = 3
    Builtins <- Shipped
    Plugins <- Installed
    Settings <- SomeSettings
    Opinions = {0, 40, 90}
    Malicious = 60
    Suspicious = 25
    Nil = Nil
    Clients = {tab1, tab2}
    MaxAlerts = 3
    MaxStamp = 3
    Started = 1
    PollLimit = 2
INVARIANTS
    EnrichmentLands
    NoneMissed
    ReportIsSound
    PushedOnce
PROPERTIES
    PatchWritesOnlyStatus
    EveryAlertArrives
