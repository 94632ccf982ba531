\* Five pushes to two pull requests under every limit up to two.
CONSTANTS
    Prs = {a, b}
    MaxPushes = 5
    LastPush = 4
    Window = 3
    Buffer = 1
    Limits = {0, 1, 2}
    NoPr = NoPr
    NoTime = NoTime
    NoPush = NoPush
SPECIFICATION FairSpec
INVARIANTS RateHeld ReservationsMatch PendingNewest
PROPERTIES PromiseKept KeepsPromise
CHECK_DEADLOCK FALSE
