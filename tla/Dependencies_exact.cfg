\* Two adds at a time of one project, no removals.
CONSTANTS
    n1 = n1
    n2 = n2
    n3 = n3
    n4 = n4
    NoNode = NoNode
    Nodes = {n1, n2, n3}
    Requests = {r1, r2}
    ProjectOf <- OneProject
SPECIFICATION GrowSpec
INVARIANT Reached
PROPERTY OnlyCyclesRefused
CHECK_DEADLOCK FALSE
