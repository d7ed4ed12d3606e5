SPECIFICATION MessagesSpec
CONSTANTS
    Clients = {s1, s2, s3}
    MaxIp = 2
    Unit = 2
    Expiries = 4
    LeaseTime = 2
    Nobody = Nobody
    Layouts <- MCLayouts
    Extra <- MCExtra
    Ip <- MCIp
    Mask <- MCMask
    BaseIp = 16
    LeaseSeconds <- MCLeaseSeconds
SYMMETRY Symmetry
INVARIANTS
    TypeOK
    NoAddressTwice
    OneLeasePerClient
    MessagesMeant
PROPERTIES
    ServerRefinement
