SPECIFICATION Spec
CONSTANTS
    Conns = {c1, c2}
    Fds = {f1, f2}
    None = None
    MaxThreads = 2
    MaxClients = 1
    MaxEvents = 1
    BufSz = 1
    RcvMax = 1
    SndMax = 1
    PeerExits = {"fin", "rst"}
    AddMayFail = TRUE
    Stops = FALSE
SYMMETRY Symmetry
INVARIANTS MaxClientsHonoured
CHECK_DEADLOCK FALSE
