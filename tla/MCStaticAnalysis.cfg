CONSTANTS
    BaseCapacity = 64
    MaxCapacity = 2
    AddressSpace = 64
    Programs <- MCPrograms
    Requests <- MCRequests
SPECIFICATION Spec
INVARIANTS
    BudgetsHold
    GraphIsExact
    CompleteIsWhole
    FoundIsFirst
    VerdictIsRight
    DiscoveryIsExact
