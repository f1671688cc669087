CONSTANTS
    Requests = {r1, r2}
    Runners = {w1, w2}
    NumTasks = 2
    DependsOn <- GatedPair
    Skippable = {}
    Gated = {1}
    MaxRetries = 0
    MaxFaults = 1
    MaxCrashes = 0
    MaxRedeliveries = 0
    DisciplinedClient = FALSE
SPECIFICATION Spec
SYMMETRY Symmetry
CHECK_DEADLOCK FALSE
INVARIANTS
    TypeOK
    JobInputsSucceeded
    OrphanOnlyAfterFailure
