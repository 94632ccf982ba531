\* Two adds that overlap.
CONSTANTS
    n1 = n1
    n2 = n2
    n3 = n3
    n4 = n4
    NoNode = NoNode
    Nodes = {n1, n2}
    Requests = {r1, r2}
    ProjectOf <- OneProject
SPECIFICATION GraphSpec
INVARIANT Acyclic
CHECK_DEADLOCK FALSE
