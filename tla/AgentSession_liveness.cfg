\* One sweeper runs for ever and nothing crashes: silent agents are noticed.
CONSTANTS
    NoReg = NoReg
    Paths = {p1}
    Regs = {r1, r2}
    Teardowns = {t1}
    Sweepers = {w1}
    Exclusive = TRUE
    MaxShutdowns = 0
    MaxCrashes = 0
SPECIFICATION FairSpec
PROPERTIES StaleSessionEnds OrphanGoesOffline
CHECK_DEADLOCK FALSE
