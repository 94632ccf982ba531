\* One feature with two tasks, one request at a time.
CONSTANTS
    a = a
    c = c
    f1 = f1
    f2 = f2
    Tasks = {a, c}
    Features = {f1}
    FeatureOf <- OneFeature
    TaskStatuses = {"backlog", "prioritized", "in_progress", "review", "done"}
    SetStatuses = {}
    Requests = {r1}
SPECIFICATION Spec
INVARIANT NoStaleEpics
CHECK_DEADLOCK FALSE
