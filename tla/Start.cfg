SPECIFICATION SecondLate
CONSTANTS
    Main = Main
    Listener = Listener
    Workers = {w1}
    Signals = {SIGTERM, SIGINT}
    SIGTERM = SIGTERM
    None = None
    Callers = {Main, Listener, w1, SIGTERM, SIGINT}
    Free = Free
    Verbosities = {0, 2}
    Daemonize = FALSE
    BindMayFail = FALSE
    CreateMayFail = FALSE
PROPERTIES Starts StopsFromMain
CHECK_DEADLOCK FALSE
