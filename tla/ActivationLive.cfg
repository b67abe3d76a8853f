SPECIFICATION FairSpec
CONSTANTS
    Signals = {1, 2, 3, 4, 5}
    Weight <- MixedWeights
    Function = "step"
    Policy = "drop_oldest"
    BaseThreshold = 2
    MaxPotential = 3
    Dynamic = TRUE
    FireBatchSize = 1
    MaxQueueDepth = 3
    Refractory = 1
    Latency = 1
    AgeCap = 2
    SynapseWeights = {0, 1}
    PollEvery = 1
    Recycled = {}
PROPERTIES FireSpacing HeaviestFirst OverflowHonoursPolicy EventuallyLeaves
