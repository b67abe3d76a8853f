SPECIFICATION Spec
CONSTANTS
    p1 = p1
    p2 = p2
    Peers = {p1, p2}
    Maintenance = maintenance
    Signals = {1, 2, 3}
    Weight <- MCWeight
    Origin <- MCOrigin
    Acked = {1, 2}
    Unpropagable = {}
    SynapseWeights = {0, 1}
    Function = "step"
    Policy = "drop_lowest_weight"
    BaseThreshold = 2
    MaxPotential = 4
    Dynamic = FALSE
    FireBatchSize = 1
    MaxQueueDepth = 2
    Refractory = 0
    Latency = 1
    AgeCap = 1
    MaxCopies = 1
    MaxCrashes = 0
    Parallel = TRUE
    StoreMayFail = FALSE
    DurableStore = TRUE
INVARIANT BodyAtRelease
