SPECIFICATION Spec
CONSTANTS
    Depth = 4
    Configs <- MCConfigs
    Packets <- MCPackets
    Uptimes <- MCUptimes
    Temps <- MCTemps
    Pins <- MCPins
    JunkSources <- MCJunk
    LateRef = TRUE
    MaxCallbacks = 4
INVARIANTS
    TypeOK
    RowsGenuine
    SetupsPaired
    RestoredWhole
