\* The same instance; the comment of the board PATCH on a changed pr_url, asked of every writer.
CONSTANTS
    k1 = k1
    k2 = k2
    a = a
    b = b
    t1 = t1
    t2 = t2
    w1 = w1
    w2 = w2
    m = m
    n = n
    p = p
    f = f
    Nobody = Nobody
    EnvInbox = EnvInbox
    Tasks = {t1, t2}
    PullRequests = {p, f}
    Projects = {a, b}
    Worktrees = {w1, w2, m, n}
    Mains = {m, n}
    Workers = {k1, k2}
    MaxDeliveries = 2
    MaxHandlers = 3
    MaxMoves = 1
    MaxSeen = 2
    Actions = {"synchronize", "closed_merged"}
    ProjectOf <- TwoProjects
    Tracks <- BothTrack
    OwnerOf <- OwnOne
    BranchOf <- SameBranch
SPECIFICATION HookSpec
SYMMETRY Symmetry
INVARIANT HeadMatchesPr
CHECK_DEADLOCK FALSE
