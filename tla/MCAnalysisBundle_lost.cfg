SPECIFICATION BundleSpec
CONSTANTS
    e1 = e1
    e2 = e2
    Calls <- MCCalls
    Insides <- MCInsides
    Nothing <- MCNothing
    MaxFaults = 1
INVARIANT
    SuccessHasBundle
CHECK_DEADLOCK FALSE
