SPECIFICATION Spec
CONSTANTS
    BaseCapacity = 16
    MaxCapacity = 3
    PayloadAlign = 4
    MetaAlign = 2
    MaxGrowth = 60
    MaxDirs = 4
    Cases <- MCShared
    MaxOps = 3
    MaxDamaged = 1
INVARIANT SharedFileStaysValid
CHECK_DEADLOCK FALSE
