SPECIFICATION LiveSpec
CONSTANTS
    Browsers = {b1, b2}
    DeviceFields <- MCDeviceFields
    DefaultName = "L8SG"
    DefaultSsid = "LRX"
    DefaultPass = "factory"
    Elements <- MCElements
    Edits <- MCEdits
    WiFi <- FactoryWiFi
    Station = "station"
    AccessPoint = "ap"
    MaxRetries = 1
    MaxUp = 1
    MaxMessages = 6
    Blank = Blank
    Missing = Missing
INVARIANTS
    TypeOK
    NetKeysUnique
    PasswordPrivate
    ServedStored
    SetupWhole
PROPERTY BootEnds
