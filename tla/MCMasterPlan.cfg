SPECIFICATION Spec
CONSTANTS
    StepId = {s1, s2, s3, s4, s5}
    Criterion = {c1, c2}
    MaxTotalChildRuns = 13
    MaxPlanSteps = 3
    MaxPlanPatches = 2
    MaxAttempts = 2
    RetryOnRevise = TRUE
SYMMETRY MCSymmetry
INVARIANTS
    RunsSuffice
    EffectsAreBounded
    AcceptedIsCovered
CHECK_DEADLOCK FALSE
