SPECIFICATION ApiSpec
CONSTANTS
    Signals = {1, 2, 3}
    Weight <- MixedWeights
    Function = "sigmoid"
    Policy = "drop_lowest_weight"
    BaseThreshold = 2
    MaxPotential = 3
    Dynamic = TRUE
    FireBatchSize = 2
    MaxQueueDepth = 2
    Refractory = 2
    Latency = 3
    AgeCap = 5
    SynapseWeights = {0, 1}
    PollEvery = 2
    Recycled = {1, 2}
INVARIANTS TypeOK NoSignalLost LatencyBounded
PROPERTY OverflowHonoursPolicy
