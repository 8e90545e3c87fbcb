SPECIFICATION Spec
CONSTANTS
    Task = {t1, t2}
    Worker = {w1, w2}
    None = None
    MaxClaims = 2
    LeaseMs = 2
    MaxLag = 1
    MaxClock = 4
    Serves <- MCServes
    LockedSets <- MCLockedSets
    Timeout <- MCTimeout
    Reported <- MCReported
SYMMETRY Symmetry
INVARIANTS
    CompletionFenced
    CancelWins
    StoresAgree
PROPERTY ImplementsLedger
CHECK_DEADLOCK FALSE
