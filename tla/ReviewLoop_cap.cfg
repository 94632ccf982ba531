\* One session allowed; two commits.
CONSTANTS
    Workers = {w1, w2}
    Heads = {h1, h2}
    MaxTurns = 1
    MaxSessions = 1
SPECIFICATION Spec
INVARIANT CapRespected
