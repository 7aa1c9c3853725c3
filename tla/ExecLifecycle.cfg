SPECIFICATION Spec
CONSTANTS
    Ops = {o1}
    Workers = {w1, w2}
    Readers = {r1}
    Reports = {q1}
    Abandonable = {"prepare", "join", "channel", "setup", "account", "drainSession", "drainWork"}
    MaxConnects = 3
    MaxResets = 1
SYMMETRY Symmetry
CHECK_DEADLOCK FALSE
INVARIANTS
    TypeOK
    ResetLosesNothing
    SessionsAreApart
    TeardownQuiet
PROPERTIES
    ResetObservesPanics
