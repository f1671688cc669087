CONSTANTS
    Requests = {r1}
    Runners = {w1, w2}
    NumTasks = 1
    DependsOn <- GatedSingle
    Skippable = {}
    Gated = {1}
    MaxRetries = 0
    MaxFaults = 0
    MaxCrashes = 0
    MaxRedeliveries = 1
    DisciplinedClient = FALSE
SPECIFICATION FairSpec
CHECK_DEADLOCK FALSE
PROPERTIES
    PipelineSettles
