SPECIFICATION Spec
CONSTANTS
    Trades <- MCTrades
    Lots <- MCLots
    Worth <- MCWorth
    Fee <- MCFee
    Sources = {"query"}
    Shared = {1, 2}
    Untold = {2}
    MaxPublished = 3
CHECK_DEADLOCK FALSE
INVARIANTS
    TypeOK
    FeesAddUp
    CommissionFitsFill
PROPERTIES
    ImplementsOrderFills
    KnownStaysKnown
