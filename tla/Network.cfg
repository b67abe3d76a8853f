SPECIFICATION FairSpec
CONSTANTS
    a = a
    b = b
    c = c
    d = d
    leaf = leaf
    Nodes = {a, b, c, d, leaf}
    Synapses <- MCSynapses
    Signals = {"all", "some", "one", "faint"}
    Origin <- MCOrigin
    Acked = {"some", "one"}
    Scope <- MCScope
    Destination <- MCDestination
    MaxHops = 2
    Ttl <- MCTtl
    Weight <- MCWeight
    MaxAcceptedTtl = 5
    MinWeight = 2
    AttNum = 1
    AttDen = 2
    MaxFanout = 1
    DedupTicks = 1
    QueueDepth = 1
    PeerQueueDepth = 1
    TraceCap = 8
    Fragile <- MCFragile
    MaxEmits = 1
    MaxBreaks = 1
INVARIANTS TypeOK TraceIsPath TravelBounded AckedKeepsWeight CreditIsTrue
PROPERTIES EventuallyQuiet
CHECK_DEADLOCK FALSE
