CONSTANTS
    Clients = {c1, c2}
    MaxConcurrent = 1
    EnableWarmup = TRUE
    RequireWarmup = TRUE
    MaxRequests = 2
    MaxCrashes = 1
    JobRequests = {r1, r2}
    JobWorkers = {w1, w2}
SPECIFICATION MCSpec
CHECK_DEADLOCK FALSE
INVARIANTS
    SlotsAddUp
PROPERTIES
    JobSettles
    WatcherEnds
    RequestsEnd
