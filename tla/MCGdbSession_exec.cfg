\* Commands are answered in time; execution requests may time out.
SPECIFICATION Spec
CONSTANTS
    Req = {r1, r2, r3}
    Sock = {s1, s2, s3}
    NoReq = NoReq
    NoSock = NoSock
    Kinds = {"cmd", "query", "continue", "step", "wait", "interrupt"}
    TimeoutKinds = {"continue", "step", "wait", "interrupt"}
    MaxSteps = 2
    MaxChunk = 2
    MaxResets = 1
    StubCorrupts = TRUE
SYMMETRY Symmetry
INVARIANTS
    Serialized
    StoppedMeansHalted
    ReplyIsOwn
    NoLostStop
CHECK_DEADLOCK FALSE
