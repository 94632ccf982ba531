\* Two processes; up to three webhooks of a tracked and a foreign PR; pairs of handlers with one
\* request, up to four in turn.
CONSTANTS
    k1 = k1
    k2 = k2
    a = a
    b = b
    t1 = t1
    t2 = t2
    w1 = w1
    w2 = w2
    m = m
    n = n
    p = p
    f = f
    Nobody = Nobody
    EnvInbox = EnvInbox
    Tasks = {t1, t2}
    PullRequests = {p, f}
    Projects = {a, b}
    Worktrees = {w1, w2, m, n}
    Mains = {m, n}
    Workers = {k1, k2}
    MaxDeliveries = 3
    MaxHandlers = 4
    MaxMoves = 1
    MaxSeen = 2
    Actions = {"synchronize", "closed_merged"}
    ProjectOf <- TwoProjects
    Tracks <- BothTrack
    OwnerOf <- OwnOne
    BranchOf <- SameBranch
SPECIFICATION HookSpec
CONSTRAINT PairsAndTurns
SYMMETRY Symmetry
PROPERTIES NoSilentDrop ForeignUnheard HeadNeverRollsBack
CHECK_DEADLOCK FALSE
