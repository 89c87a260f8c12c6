\* Overlapping tool calls across two generations of the emulator.
SPECIFICATION Spec
CONSTANTS
    Call = {c1, c2, c3, c4}
    Loc = {mainA, ovl}
    NoLoc = NoLoc
    MainLoc = {mainA}
    Ops = {"add", "remove", "replace", "continue", "wait", "pause", "capture"}
    MaxGen = 2
    MaxBreakpoints = 2
    MaxStops = 2
    RepliesLost = FALSE
    OrphansDrain = TRUE
    Clients = {TRUE, FALSE}
SYMMETRY Symmetry
INVARIANTS
    EnabledIsInstalled
    InstalledIsRegistered
    AddOwnsRecord
    AwaitedHitsMatchStops
CHECK_DEADLOCK FALSE
