SPECIFICATION Spec
CONSTANTS
    Callers = {"a", "b", "c"}
    MaxGeneration = 1
    MaxExpiries = 1
CHECK_DEADLOCK FALSE
INVARIANT
    MarginIsOfThisSession
PROPERTY
    EveryLoadReturns
