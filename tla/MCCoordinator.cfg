SPECIFICATION Spec
CONSTANTS
    Task = {t1}
    Caller = {c1}
    None = None
    Idle = Idle
    MonitorLimit = 1
    MaxTroubles = 2
INVARIANT
    OneWorkerClaims
PROPERTIES
    RecoversAlone
    EndsAreShown
    DisposalIsComplete
CHECK_DEADLOCK FALSE
