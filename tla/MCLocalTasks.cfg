SPECIFICATION Spec
CONSTANTS
    t1 = t1
    t2 = t2
    outer = outer
    inner = inner
    Task = {t1, t2, t3}
    SettlesInCatch = FALSE
    None = None
    Workspace = {outer, inner}
    WorkspaceOf <- MCNested
    Overlaps <- MCOverlaps
    Lane = {"lane"}
    LaneOf <- MCOneLane
    MaxAttempts = 2
    MaxConsecutiveFailures = 1
    CircuitCooldown = 1
    JobFailures = {"registered", "ended"}
    MaxClock = 1
INVARIANTS
    OneTaskPerTree
    CleanupConfirmed
PROPERTY TasksEnd
