\* One request at a time: an import whose plan has two tasks, then a creation.
CONSTANTS
    Reqs = {r1}
    Worktrees = {w1}
    Plans <- Imports
    MaxRows = 5
    MaxCalls = 2
    None = None
SPECIFICATION Spec
INVARIANT NumbersUnique
CHECK_DEADLOCK FALSE
