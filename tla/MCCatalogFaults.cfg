CONSTANTS
    p1 = p1
    p2 = p2
    p3 = p3
    s1 = s1
    s2 = s2
    s3 = s3
    Scenes = {s1, s2, s3}
    Runs = {p1, p2}
    Batch <- OverlappingBatches
    Profiled = {p1}
    MaxAttempts = 3
    MaxFaults = 2
    MaxCrashes = 1
    DisciplinedClient = TRUE
SPECIFICATION Spec
CHECK_DEADLOCK FALSE
INVARIANTS
    RunningRecordHasJob
    ReadyIsComplete
    ValidatedAsRegistered
    CacheIsOfItsRun
PROPERTIES
    NoSceneVanishes
