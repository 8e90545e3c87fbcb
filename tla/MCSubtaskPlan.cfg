SPECIFICATION Spec
CONSTANTS
    Id = {1, 2, 3, 4, 5}
    Duty = {d}
    CostOf <- MCCostOf
    Lanes <- MCLanes
    Runs = {15}
    Credits = {4}
    MaxTaskNodes = 5
    MaxChildrenPerNode = 4
    MaxConcurrentNodes = 2
    MaxPlanPatches = 2
    Demands <- MCDemands
    Capacities <- MCCapacities
INVARIANTS
    NothingPlannedIsRefused
    VerdictIsCovered
    CheckpointsComeSoon
    SchedulerIsRight
PROPERTY IdsKeepTheirMeaning
