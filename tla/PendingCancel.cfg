SPECIFICATION Spec
CONSTANTS
    Cancels = {c1, c2}
    Mappers = {m1, m2}
    None = None
SYMMETRY Symmetry
CHECK_DEADLOCK FALSE
INVARIANTS
    TypeOK
    PendingCancelIsSettled
    MarksAreExact
