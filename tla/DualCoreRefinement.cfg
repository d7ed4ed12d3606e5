SPECIFICATION Spec
CONSTANTS
    Depth = 2
    Configs <- MCConfigs
    Packets <- MCPackets
    Uptimes <- MCUptimes
    Temps <- MCTemps
    Pins <- MCPins
    JunkSources <- MCJunk
    LateRef = FALSE
    MaxCallbacks = 4
PROPERTIES
    PanelRefinement
