SPECIFICATION Spec
CONSTANTS
    Orders = {"r", "s"}
    Stops = {"s"}
    Lots = 2
    Overlap = 1
    Attempts = 2
    Midnight = 2
    MaxEvents = 2
    MaxTime = 3
    MaxFaults = 3
CHECK_DEADLOCK FALSE
INVARIANTS
    TypeOK
    GapIsCovered
PROPERTIES
    NeverBackwards
    EveryEndIsShown
