SPECIFICATION Spec
CHECK_DEADLOCK FALSE
CONSTANTS
    capture = capture
    evaluator = evaluator
    main = main
    k1 = k1
    k2 = k2
    CaptureThreads <- OnlyCapture
    EvalThreads <- Evaluators
    RuleKeys <- RuleKey
    DetectorKeys <- DetectorKey
    Window = 1
    MaxTracked = 1
    Skew = 1
    MaxAlerts = 3
    MaxTime = 2
    MaxFails = 1
    MaxResets = 1
SYMMETRY Symmetry
INVARIANTS
    TrackedBounded
    ActiveRowsCurrent
    RowsAreAnnounced
    SoundInTurn
