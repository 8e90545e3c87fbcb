SPECIFICATION Spec
CONSTANTS
    Token = {1, 2, 3, 4}
    Root = Root
    None = None
    MaxDepth = 3
    MaxTaskNodes = 5
    MaxChildrenPerNode = 3
    MaxConcurrentNodes = 2
    MaxTotalModelRuns = 8
    Allocations <- MCAllocations
    Lifetime = 1
    FailFast = {0}
    MaxWave = 3
    MaxClock = 1
INVARIANTS
    AuthorityClosesCleanly
    QuiescentBoundary
PROPERTY RootCloses
