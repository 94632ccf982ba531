\* The processes the FastAPI lifespan starts: none runs run_heartbeat_checker.
CONSTANTS
    NoReg = NoReg
    Paths = {p1}
    Regs = {r1, r2}
    Teardowns = {}
    Sweepers = {}
    Exclusive = TRUE
    MaxShutdowns = 0
    MaxCrashes = 0
SPECIFICATION FairSpec
PROPERTIES StaleSessionEnds
CHECK_DEADLOCK FALSE
