SPECIFICATION FairSpec
CONSTANTS
    Main = Main
    Listener = Listener
    Workers = {w1, w2}
    Signals = {SIGTERM}
    SIGTERM = SIGTERM
    None = None
    Callers = {Main, Listener, w1, w2, SIGTERM}
    Free = Free
    Verbosities = {0}
    Daemonize = FALSE
    BindMayFail = FALSE
    CreateMayFail = FALSE
PROPERTIES Stops
CHECK_DEADLOCK FALSE
