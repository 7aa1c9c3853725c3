SPECIFICATION FairSpec
CONSTANTS
    Callers = {c1, c2}
    Keys = {k1}
    Threshold = 2
    Flights = {f1, f2}
    None = None
    MaxCancels = 1
CHECK_DEADLOCK FALSE
INVARIANTS
    TypeOK
    FlightsAreOwned
    SuccessIsFresh
PROPERTIES
    EveryCallReturns
