\* Four pushes to two pull requests under every limit up to two.
CONSTANTS
    Prs = {a, b}
    MaxPushes = 4
    LastPush = 4
    Window = 3
    Buffer = 1
    Limits = {0, 1, 2}
    NoPr = NoPr
    NoTime = NoTime
    NoPush = NoPush
SPECIFICATION Spec
PROPERTY SwapSucceeds
CHECK_DEADLOCK FALSE
