SPECIFICATION LiveSpec
CONSTANTS
    Depth = 4
    Configs <- MCConfigs
    Packets <- MCPackets
    Uptimes <- NoReadings
    Temps <- NoReadings
    Pins <- MCPins
    JunkSources <- MCJunk
    LateRef = FALSE
    MaxCallbacks = 2
PROPERTIES
    StoredControlsRun
