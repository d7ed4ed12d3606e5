SPECIFICATION Spec
CONSTANTS
    Browsers = {b1}
    DeviceFields <- MCDeviceFields
    DefaultName = "L8SG"
    DefaultSsid = "LRX"
    DefaultPass = "factory"
    Elements <- MCElements
    Edits <- MCAllEdits
    WiFi <- MCWiFi
    Station = "station"
    AccessPoint = "ap"
    MaxRetries = 1
    MaxUp = 1
    MaxMessages = 6
    Blank = Blank
    Missing = Missing
PROPERTY SaveKeepsSettings
