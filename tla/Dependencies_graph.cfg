\* Two adds at a time, in two projects, with removals.
CONSTANTS
    n1 = n1
    n2 = n2
    n3 = n3
    n4 = n4
    NoNode = NoNode
    Nodes = {n1, n2, n3, n4}
    Requests = {r1, r2}
    ProjectOf <- TwoProjects
SPECIFICATION FairSpec
INVARIANT SerialAcyclic
PROPERTY SearchEnds
CHECK_DEADLOCK FALSE
