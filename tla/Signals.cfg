SPECIFICATION Spec
CONSTANTS
    Main = Main
    Listener = Listener
    Workers = {w1}
    Signals = {SIGTERM, SIGINT}
    SIGTERM = SIGTERM
    None = None
    Callers = {Main, Listener, w1, SIGTERM, SIGINT}
    Free = Free
    Verbosities = {0, 2}
    Daemonize = TRUE
    BindMayFail = TRUE
    CreateMayFail = TRUE
INVARIANTS TypeOK PidFileRemoved NoHalfBuilt BoundFirst WriterAlone LockGivenBack CrashOnlyInShutdown
CHECK_DEADLOCK FALSE
