SPECIFICATION WorkerSpec
CONSTANTS
    Task = {t1}
    Worker = {w1}
    Slot = {s1, s2}
    None = None
    Steady = {}
    MaxClaims = 2
    LeaseMs = 6
    HeartbeatMs = 2
    MaxLag = 1
    MaxLate = 0
    MaxWire = 1
    MaxClock = 7
    LastEnqueue = 0
    Serves <- MCServes
    WorkerOf <- MCOneWorker
    Skew <- MCSkew
    LockedSets <- MCLockedSets
    Timeout <- MCExclusiveTimeout
    Reported <- MCReported
SYMMETRY Symmetry
INVARIANTS
    ExclusiveExecution
    ExecutorsHold
    OwnersAreNeverRefused
CHECK_DEADLOCK FALSE
