SPECIFICATION PositionsSpec
CONSTANTS
    Instruments = {"i", "j"}
    Quantities = {0, 1}
    MaxTrades = 2
    MaxFaults = 1
    MaxQueries = 1
    MaxTime = 6
CHECK_DEADLOCK FALSE
INVARIANT
    PositionsSettle
