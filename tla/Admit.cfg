SPECIFICATION HSpec
CONSTANTS
    Conns = {c1, c2, c3}
    Fds = {f1, f2}
    None = None
    MaxThreads = 2
    MaxClients = 1
    MaxEvents = 2
    BufSz = 1
    RcvMax = 1
    SndMax = 1
    PeerExits = {"fin", "rst"}
    AddMayFail = FALSE
    Stops = FALSE
SYMMETRY Symmetry
INVARIANTS AdmissionLimit FdAccounted RefusedOnlyWhenFull MaxClientsHonoured
PROPERTIES AdmissionSpec
