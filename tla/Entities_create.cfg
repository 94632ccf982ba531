\* Two requests, two worktrees and six rows: enough for two close-off tasks in
\* one home, for two homes when the requests overlap, and for a creation after
\* an import whose tasks ran past the counter.
CONSTANTS
    Reqs = {r1, r2}
    Worktrees = {w1, w2}
    Plans <- Imports
    MaxRows = 6
    MaxCalls = 4
    None = None
SPECIFICATION Spec
SYMMETRY Symmetry
INVARIANTS CloseOffsPaired DocumentOnce
PROPERTIES NumberNeverReused SameTaskAnswered
CHECK_DEADLOCK FALSE
