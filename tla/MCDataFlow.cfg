CONSTANTS
    Predictors = {predict, again}
    Evaluators = {evaluate, repeat}
    RunOf <- MCRunOf
    Judged <- MCJudged
    Samples = {1, 2}
    MaxAttempts = 2
    None = None
    Empty = Empty
    NotYet = NotYet
    SafeKey <- MCSafeKey
    TargetChannelsOfIngest <- MCChannels
    CameraChannels = {1}
    SupportedCategories = {"car", "bus"}
    CameraChannel = 1
    LidarChannel = 2
    SmallLogs = 4
SPECIFICATION MCSpec
CHECK_DEADLOCK FALSE
SYMMETRY JobSymmetry
INVARIANTS
    RecordMatchesFiles
    EvaluatesOneAttempt
    RowsIffSucceeded
    SegmentsCover
    SamplesFaithful
    ReportAgrees
    JudgesAgree
    RoutesAgree
    CountsCarryOver
    RunIsWired
    ReadyMeansFit
    QualityIsCurrent
