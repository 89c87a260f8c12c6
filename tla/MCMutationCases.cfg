SPECIFICATION Spec
CONSTANTS
    BaseCapacity = 16
    MaxCapacity = 3
    PayloadAlign = 4
    MetaAlign = 2
    MaxGrowth = 60
    MaxDirs = 4
    Cases <- MCCases
    MaxOps = 3
    MaxDamaged = 1
INVARIANTS
    AcceptedVerifies
    VerifiedIsAsked
    DamageIsCaught
    OrderIrrelevant
    AddressesAgree
CHECK_DEADLOCK FALSE
