SPECIFICATION FairSpec
CONSTANTS
    N = 3
    MaxAttempts = 2
CHECK_DEADLOCK FALSE
INVARIANTS
    TypeOK
    HeldOrderIsTracked
    DeadMeansDead
    UnknownIsRecoverable
PROPERTIES
    ConfirmedStaysConfirmed
    EveryLegIsAnswered
