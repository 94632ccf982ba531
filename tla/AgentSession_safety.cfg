\* One worktree, two registrations that do not overlap, a teardown, a sweeper and a
\* request_shutdown interleaved with them, and one crash in the middle of any handler.
CONSTANTS
    NoReg = NoReg
    Paths = {p1}
    Regs = {r1, r2}
    Teardowns = {t1}
    Sweepers = {w1}
    Exclusive = TRUE
    MaxShutdowns = 1
    MaxCrashes = 1
SPECIFICATION Spec
SYMMETRY Symmetry
INVARIANTS AtMostOneActive ShutdownFlagSignalled
PROPERTIES SessionNeverRevives DeletedAnnounced
CHECK_DEADLOCK FALSE
