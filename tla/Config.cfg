SPECIFICATION StartSpec
CONSTANTS
    Callers = {Main}
    Free = Free
    Verbosities = {0}
    Main = Main
    Lines <- MCLines
    MaxLines = 4
    Openable = {"a", "b"}
    Limits = {4, 9, 10, 24, 33, 34, 1024}
    Addresses = {"lo", "eth"}
    MaxRefused = 1
INVARIANTS TypeOK LoadedInRange LastLineWins BlocksOnlyWhenSilenced PoolSound LeavesRoom
CHECK_DEADLOCK FALSE
