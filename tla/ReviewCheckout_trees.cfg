\* Two processes, two commits and three reviews, with up to two moves of agents,
\* cancellations and crashes, in every deployment.
CONSTANTS
    k1 = k1
    k2 = k2
    s1 = s1
    s2 = s2
    Processes = {k1, k2}
    Shas = {s1, s2}
    MaxReviews = 3
    MaxMoves = 2
    Settings <- Deployments
    MayCrash = TRUE
    Base = Base
    NoSha = NoSha
    NoTree = NoTree
    Gone = Gone
SPECIFICATION Spec
SYMMETRY Symmetry
INVARIANTS CheckoutStands NoCheckoutLeft OwnRepository
CHECK_DEADLOCK FALSE
