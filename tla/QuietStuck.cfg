SPECIFICATION LogFairSpec
CONSTANTS
    Callers = {t1, t2, t3}
    Free = Free
    Verbosities = {2}
PROPERTIES CallsReturn
CHECK_DEADLOCK FALSE
