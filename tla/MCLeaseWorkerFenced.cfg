SPECIFICATION LiveSpec
CONSTANTS
    Task = {t1}
    Worker = {w1, w2}
    Slot = {w1, w2}
    None = None
    Steady = {w1}
    MaxClaims = 2
    LeaseMs = 3
    HeartbeatMs = 1
    MaxLag = 0
    MaxLate = 9
    MaxWire = 0
    MaxClock = 5
    LastEnqueue = 0
    Serves <- MCServes
    WorkerOf <- MCOwnWorker
    Skew <- MCSkew
    LockedSets <- MCLockedSets
    Timeout <- MCFencedTimeout
    Reported <- MCReported
INVARIANT AcknowledgedIsDurable
PROPERTY EveryTaskEnds
CHECK_DEADLOCK FALSE
