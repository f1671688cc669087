CONSTANTS
    Requests = {r1, r2}
    Workers = {w1, w2}
    NumSteps = 2
    MaxRetries = 1
    MaxFaults = 1
    MaxCrashes = 1
    MaxRedeliveries = 1
    DisciplinedClient = FALSE
SPECIFICATION Spec
SYMMETRY Symmetry
CHECK_DEADLOCK FALSE
INVARIANTS
    TypeOK
    ClaimsBounded
    OneOutcomePerClaim
    OrphanOnlyAfterFailure
