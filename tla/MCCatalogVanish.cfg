CONSTANTS
    p1 = p1
    p2 = p2
    p3 = p3
    s1 = s1
    s2 = s2
    s3 = s3
    Scenes = {s1, s2}
    Runs = {p1, p2}
    Batch <- SingleBatches
    Profiled = {p1}
    MaxAttempts = 1
    MaxFaults = 0
    MaxCrashes = 0
    DisciplinedClient = FALSE
SPECIFICATION Spec
CHECK_DEADLOCK FALSE
PROPERTIES
    NoSceneVanishes
