SPECIFICATION HSpec
CONSTANTS
    Conns = {c1, c2}
    Fds = {f1, f2}
    None = None
    MaxThreads = 2
    MaxClients = 2
    MaxEvents = 1
    BufSz = 1
    RcvMax = 2
    SndMax = 1
    PeerExits = {"fin", "rst"}
    AddMayFail = TRUE
    Stops = FALSE
SYMMETRY Symmetry
INVARIANTS TypeOK CounterExact FdStable NoLostEdge WaitsOnlyForRoom ErrorNeverAlone Balanced
PROPERTIES NoSpuriousClose
CHECK_DEADLOCK FALSE
