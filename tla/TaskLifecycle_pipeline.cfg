\* A pipeline shared by two agents who follow the workflow, and a dependent feature.
CONSTANTS
    Tasks = {"spec", "plan", "impl", "follow"}
    Worktrees = {w1, w2}
    Prs = {q1, q2}
    Calls = {c1, c2}
    NoWt = NoWt
    NoPr = NoPr
    NoTask = NoTask
    Type <- PipelineType
    FeatureOf <- PipelineFeatureOf
    FeatureDeps <- PipelineFeatureDeps
    DependsOn <- PipelineDependsOn
    CloseOff = {"follow"}
    Mains = {w1}
    Disciplined = TRUE
SPECIFICATION FairSpec
INVARIANTS DisciplinedOneActive SpecBeforeImpl
PROPERTIES KeepsWorkflow AgentsNeverComplete EveryTaskDone
CHECK_DEADLOCK FALSE
