SPECIFICATION FairSpec
CONSTANTS
    p1 = p1
    p2 = p2
    Peers = {p1, p2}
    Maintenance = maintenance
    Signals = {1, 2, 3, 4}
    Weight <- MCWeight
    Origin <- MCOrigin
    Acked = {1, 2, 4}
    Unpropagable = {4}
    SynapseWeights = {0, 1}
    Function = "step"
    Policy = "drop_lowest_weight"
    BaseThreshold = 2
    MaxPotential = 2
    Dynamic = FALSE
    FireBatchSize = 1
    MaxQueueDepth = 2
    Refractory = 1
    Latency = 1
    AgeCap = 1
    MaxCopies = 1
    MaxCrashes = 0
    Parallel = FALSE
    StoreMayFail = FALSE
    DurableStore = TRUE
INVARIANTS TypeOK CacheMirrorsQueue
PROPERTIES EventuallyAnswered KeepsPromise
