\* Every method, connect() called directly too; any reply may be late, the stub may
\* stay silent.  No symmetry: liveness.
SPECIFICATION FairSpec
CONSTANTS
    Req = {r1, r2}
    Sock = {s1, s2}
    NoReq = NoReq
    NoSock = NoSock
    Kinds = {"cmd", "continue", "step", "wait", "interrupt", "connect"}
    TimeoutKinds = {"cmd", "continue", "step", "wait", "interrupt"}
    MaxSteps = 2
    MaxChunk = 2
    MaxResets = 1
    StubCorrupts = FALSE
PROPERTIES
    CallsEnd
CHECK_DEADLOCK FALSE
