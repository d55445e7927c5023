SPECIFICATION Spec
CONSTANTS
    Memory = {x, y}
    MaxCluster = 2
    Limit = 1
    MaxBatches = 2
    Threshold = 1
    MaxQueue = 1
INVARIANTS StaleIsRetried NotedCountsTowardsNext
PROPERTY LeaseReturns
