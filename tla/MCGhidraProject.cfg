SPECIFICATION Spec
CONSTANTS
    c1 = c1
    c2 = c2
    Calls <- MCCalls
    Manifests <- MCManifests
    MaxCalls = 3
    MaxFaults = 2
    MaxTroubles = 1
SYMMETRY Symmetry
INVARIANTS
    IInv
    InspectionSeesTrusted
    BootstrapIsTrue
    RetryRecovers
    BundleSurvives
CHECK_DEADLOCK FALSE
