SPECIFICATION Spec
CONSTANTS
    Conns = {c1, c2, c3}
    Fds = {f1, f2}
    None = None
    MaxThreads = 1
    MaxClients = 1
    MaxEvents = 2
    BufSz = 1
    RcvMax = 1
    SndMax = 1
    PeerExits = {"fin", "rst"}
    AddMayFail = FALSE
    Stops = FALSE
SYMMETRY Symmetry
INVARIANTS AdmissionLimit
CHECK_DEADLOCK FALSE
