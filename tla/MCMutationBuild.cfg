SPECIFICATION Spec
CONSTANTS
    b1 = b1
    b2 = b2
    v1 = v1
    Builders <- MCBuilders
    Verifiers <- MCVerifiers
    MaxEdits = 1
    MaxFaults = 1
INVARIANTS
    SuccessIsTrue
    WholeIsReused
    RaceIsWon
    NoStageLeft
PROPERTIES
    WriteOnce
CHECK_DEADLOCK FALSE
