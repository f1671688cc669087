CONSTANTS
    Requests = {r1}
    Runners = {w1, w2}
    NumTasks = 2
    DependsOn <- GatedPair
    Skippable = {}
    Gated = {1}
    MaxRetries = 1
    MaxFaults = 0
    MaxCrashes = 0
    MaxRedeliveries = 1
    DisciplinedClient = TRUE
SPECIFICATION Spec
CHECK_DEADLOCK FALSE
INVARIANTS
    GateHolds
