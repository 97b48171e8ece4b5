SPECIFICATION SystemSpec
CHECK_DEADLOCK FALSE
CONSTANTS
    MaxStarts = 2
    MaxCross = 1
    MaxCalls = 4
    MaxEdits = 1
INVARIANTS
    RaisedOnce
    FedWhileReady
    UnwoundClean
    HealthIsDeserved
PROPERTIES
    LoopsFollow
