\* Any request in any state, from two worktrees; no guard on done looks at PRs.
CONSTANTS
    Tasks = {"work", "close"}
    Worktrees = {w1, w2}
    Prs = {}
    Calls = {c1}
    NoWt = NoWt
    NoPr = NoPr
    NoTask = NoTask
    Type <- PairType
    FeatureOf <- PairFeatureOf
    FeatureDeps <- PairFeatureDeps
    DependsOn <- PairDependsOn
    CloseOff = {"close"}
    Mains = {w1}
    Disciplined = FALSE
SPECIFICATION Spec
INVARIANT TypeOK
PROPERTY AgentsNeverComplete
CHECK_DEADLOCK FALSE
