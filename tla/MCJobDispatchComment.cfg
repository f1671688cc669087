CONSTANTS
    Requests = {r1, r2}
    Workers = {w1, w2}
    NumSteps = 1
    MaxRetries = 0
    MaxFaults = 0
    MaxCrashes = 0
    MaxRedeliveries = 0
    DisciplinedClient = FALSE
SPECIFICATION FairSpec
CHECK_DEADLOCK FALSE
PROPERTIES
    WorkerStateNotOverwritten
