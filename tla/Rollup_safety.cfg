\* Every operation on two features of one epic, two roll-ups at a time.
CONSTANTS
    a = a
    c = c
    f1 = f1
    f2 = f2
    Tasks = {a, c}
    Features = {f1, f2}
    FeatureOf <- TwoFeatures
    TaskStatuses = {"backlog", "review", "done"}
    SetStatuses = {"in_progress"}
    Requests = {r1, r2}
SPECIFICATION Spec
SYMMETRY Symmetry
PROPERTIES FeatureRepaired EpicRepaired
CHECK_DEADLOCK FALSE
