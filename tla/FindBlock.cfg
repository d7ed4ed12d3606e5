SPECIFICATION Spec
CONSTANTS
    Depth = 4
    Configs <- BlockConfigs
    Packets <- BlockPackets
    Uptimes <- NoReadings
    Temps <- NoReadings
    Pins <- MCPins
    JunkSources <- MCJunk
    LateRef = FALSE
    MaxCallbacks = 4
INVARIANTS
    NoMutualBlock
