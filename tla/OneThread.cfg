SPECIFICATION Spec
CONSTANTS
    Conns = {c1, c2}
    Fds = {f1, f2}
    None = None
    MaxThreads = 1
    MaxClients = 2
    MaxEvents = 1
    BufSz = 1
    RcvMax = 1
    SndMax = 1
    PeerExits = {"fin", "rst"}
    AddMayFail = FALSE
    Stops = FALSE
INVARIANTS TargetInPool
CHECK_DEADLOCK FALSE
