\* Overlapping registrations and two concurrent teardowns, with request_shutdown:
\* the case in which get_active_session can find two rows.
CONSTANTS
    NoReg = NoReg
    Paths = {p1}
    Regs = {r1, r2}
    Teardowns = {t1, t2}
    Sweepers = {}
    Exclusive = FALSE
    MaxShutdowns = 1
    MaxCrashes = 0
SPECIFICATION Spec
SYMMETRY Symmetry
INVARIANTS ShutdownFlagSignalled
PROPERTIES SessionNeverRevives
CHECK_DEADLOCK FALSE
