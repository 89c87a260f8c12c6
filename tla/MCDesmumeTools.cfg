\* Overlapping starts and stops; the ROM may change, a process may ignore SIGTERM.
SPECIFICATION FairSpec
CONSTANTS
    Starter = {a1, a2, a3}
    Stopper = {z1, z2}
    MaxProc = 3
    RomChanges = TRUE
INVARIANTS
    OneChild
    StoppedIsGone
    DebuggerFollowsProcess
PROPERTIES
    StopEnds
CHECK_DEADLOCK FALSE
