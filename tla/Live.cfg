SPECIFICATION FairSpec
CONSTANTS
    Conns = {c1, c2}
    Fds = {f1}
    None = None
    MaxThreads = 2
    MaxClients = 1
    MaxEvents = 1
    BufSz = 1
    RcvMax = 1
    SndMax = 1
    PeerExits = {"fin", "rst"}
    AddMayFail = FALSE
    Stops = TRUE
PROPERTIES GoneIsClosed Greeted KeepsReading
CHECK_DEADLOCK FALSE
