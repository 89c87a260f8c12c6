\* Four writes in two server processes that may crash; three revisions fit.
SPECIFICATION Spec
CONSTANTS
    Writer = {w1, w2, w3, w4}
    NoWriter = NoWriter
    Pid = {p1, p2}
    MaxRevision = 3
    MaxCrashes = 1
SYMMETRY Symmetry
INVARIANTS
    OneWriter
    OutcomeIsTrue
PROPERTIES
    RegisterSpec
CHECK_DEADLOCK FALSE
