SPECIFICATION FairEnrichment
CONSTANTS
    Procs = {sensor, api}
    Sensor = sensor
    Callers = {thread1, thread2}
    TTL = 2
    Threshold = 2
    Cooldown = 2
    MaxStops = 1
    Alerts = 3
    MaxQueueDepth = 2
    MaxStarts = 3
INVARIANTS
    OnePlace
    BoundedStaleness
    OutageBounded
PROPERTIES
    CircuitRecovers
    WorkerSettles
