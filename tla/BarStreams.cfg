SPECIFICATION BarsSpec
CONSTANTS
    Instruments = {"a", "b"}
    MaxMinute = 3
    MaxGeneration = 2
    MaxFaults = 2
    MaxBuffer = 1
    Lag = 1
    Trading = {{"a", "b"}, {"b"}}
    PollChoices = {{}, {"b"}}
    Cached = {"a"}
CHECK_DEADLOCK FALSE
INVARIANTS
    BarsTypeOK
    BarsInOrder
    ReadyIsComplete
    NothingIsMissed
PROPERTIES
    BehindIsCaughtUp
