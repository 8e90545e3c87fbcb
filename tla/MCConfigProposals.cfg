SPECIFICATION Spec
CONSTANTS
    Proposal = {p1, p2}
    Subject = {s1}
    Object = {o1, o2}
    Caller = {c1, c2}
    MaxTtl = 2
    MaxObjects = 2
    MaxClock = 1
SYMMETRY MCSymmetry
INVARIANTS
    ReceiptsAreTrue
PROPERTIES
    UncontestedIsFinal
    
CHECK_DEADLOCK FALSE
