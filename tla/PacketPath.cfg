SPECIFICATION PathSpec
CONSTANTS
    None = None
    Frames <- MCFrames
    Filters <- MCFilters
    Feeders = {sniffer}
    Rate = 1
    Burst = 2
    Second = 2
    MaxClock = 4
    MaxFrames = 3
    ParsedFrames <- MCParsedFrames
    Rules <- MCRules
    Parsed <- MCParsed
    Packets <- MCPackets
    Threshold <- MCThreshold
    LongSuffixes <- MCSuffixes
    Encoded <- MCEncoded
    AllowedDomains <- MCAllowedDomains
    Internal = {"in1", "in2", "in3"}
    Allowed = {"out2"}
    AuthPaths = {"login"}
    SshPort = 22
    SuspiciousPorts = {4444}
    Window = 4
    Bucket = 2
    MaxTime = 7
    MaxPackets = 4
    MaxLate = 1
INVARIANTS
    RateBounded
    RatesAddUp
    MeasuresTheWindow
    EvidenceIsThere
    ReadersAgree
