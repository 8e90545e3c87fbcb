SPECIFICATION LedgerSpec
CONSTANTS
    Token = {a, b, c}
    Root = Root
    None = None
    MaxDepth = 2
    MaxTaskNodes = 4
    MaxChildrenPerNode = 2
    MaxConcurrentNodes = 2
    MaxTotalModelRuns = 3
    Allocations <- MCAllocations
    Lifetime = 2
    MaxCalls = 2
    MaxClock = 2
SYMMETRY Symmetry
INVARIANTS
    BudgetsConserved
    AuthorityFlowsDown
    SettledTreesAreJoined
    NobodyWaitsForNobody
PROPERTY NoOvertaking
CHECK_DEADLOCK FALSE
