SPECIFICATION LiveSpec
CONSTANTS
    Conns = {c1, c2}
    NumPcbs = 2
    NumPbufs = 2
    MaxNet = 2
    Abrupt <- AllAbrupt
    Coalesced = TRUE
    Nil = Nil
INVARIANTS
    TypeOK
    TableAlive
    CallbackAlive
PROPERTIES
    Ended
