SPECIFICATION Spec
CONSTANTS
    p1 = p1
    p2 = p2
    Peers = {p1, p2}
    Maintenance = maintenance
    Signals = {1, 2, 3}
    Weight <- MCWeight
    Origin <- MCOrigin
    Acked = {1, 2}
    Unpropagable = {}
    SynapseWeights = {1}
    Function = "step"
    Policy = "drop_lowest_weight"
    BaseThreshold = 2
    MaxPotential = 4
    Dynamic = FALSE
    FireBatchSize = 2
    MaxQueueDepth = 1
    Refractory = 0
    Latency = 1
    AgeCap = 1
    MaxCopies = 2
    MaxCrashes = 1
    Parallel = TRUE
    StoreMayFail = TRUE
    DurableStore = TRUE
INVARIANT RejectedNotForwarded
 
