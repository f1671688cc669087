CONSTANTS
    Requests = {r1, r2}
    Runners = {w1}
    NumTasks = 4
    DependsOn <- GatedChain
    Skippable = {3}
    Gated = {2}
    MaxRetries = 1
    MaxFaults = 0
    MaxCrashes = 1
    MaxRedeliveries = 0
    DisciplinedClient = TRUE
SPECIFICATION Spec
SYMMETRY Symmetry
CHECK_DEADLOCK FALSE
INVARIANTS
    GateHolds
PROPERTIES
    ImplementsAbstractPipeline
