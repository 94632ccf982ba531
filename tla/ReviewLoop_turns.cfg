\* Two server processes, with two commits of one turn or one commit of two.
CONSTANTS
    Workers = {w1, w2}
    Heads = {h1, h2}
    MaxTurns = 2
    MaxSessions = 2
SPECIFICATION FairSpec
INVARIANTS OneReviewerPerTurn ReviewPostedOnce AlertIsTrue PassIsBacked
PROPERTIES CiIsLast RunEnds
CONSTRAINT OneCommitIfManyTurns
