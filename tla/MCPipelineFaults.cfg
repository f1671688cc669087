CONSTANTS
    Requests = {r1, r2}
    Runners = {w1}
    NumTasks = 3
    DependsOn <- GatedFirst
    Skippable = {}
    Gated = {2}
    MaxRetries = 1
    MaxFaults = 1
    MaxCrashes = 1
    MaxRedeliveries = 0
    DisciplinedClient = TRUE
SPECIFICATION Spec
SYMMETRY Symmetry
CHECK_DEADLOCK FALSE
INVARIANTS
    TaskRowConsistent
    LineageConsistent
    SucceededIsComplete
PROPERTIES
    SucceededIsFinal
