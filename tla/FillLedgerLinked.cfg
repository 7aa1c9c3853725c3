SPECIFICATION LinkedSpec
CONSTANTS
    Trades <- MCTrades
    Lots <- MCLots
    Worth <- MCWorth
    Fee <- MCFee
    Sources = {"stream", "query", "submit"}
    Shared = {}
    Untold = {2}
    MaxPublished = 3
CHECK_DEADLOCK FALSE
INVARIANT
    OnceWhenLinked
