\* One server: the retry that reviews one commit is cancelled by the push of the next.
CONSTANTS
    k1 = k1
    k2 = k2
    s1 = s1
    s2 = s2
    Processes = {k1}
    Shas = {s1, s2}
    MaxReviews = 2
    MaxMoves = 1
    Settings <- OneServer
    MayCrash = FALSE
    Base = Base
    NoSha = NoSha
    NoTree = NoTree
    Gone = Gone
SPECIFICATION Spec
INVARIANT OneReviewer
CHECK_DEADLOCK FALSE
