SPECIFICATION FairSpec
CONSTANTS
    Sources = {host1, host2}
    Peers = {port1, port2}
    Threshold = 2
    Window = 1
    MaxTime = 2
    Late = 1
PROPERTIES
    AlertsAreEarned
    SustainedIsTold
