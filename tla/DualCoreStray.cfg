SPECIFICATION LiveSpec
CONSTANTS
    Depth = 2
    Configs <- MCConfigs
    Packets <- StrayPackets
    Uptimes <- MCUptimes
    Temps <- MCTemps
    Pins <- MCPins
    JunkSources <- MCJunk
    LateRef = TRUE
    MaxCallbacks = 3
INVARIANTS
    EventsFramed
    DrivenPinsAreOutputs
PROPERTIES
    TagAnswered
    CallbackReturns
    WordsConsumed
