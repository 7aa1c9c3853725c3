SPECIFICATION Spec
CONSTANTS
    Trades = {1, 2}
    Orders = {"v"}
    OrderOf <- MCOrderOf
    NoOrder = "none"
    PerOrder = 1
    InAll = 2
    Attempts = 2
    MaxMessages = 2
    MaxEvents = 1
    MaxFaults = 1
    MaxSessions = 2
CHECK_DEADLOCK FALSE
INVARIANTS
    TypeOK
    BufferedIsWatched
    HeardIsHeld
PROPERTIES
    NoFillIsDropped
    EveryFillIsTold
