SPECIFICATION Spec
CONSTANTS
    p1 = p1
    p2 = p2
    Peers = {p1, p2}
    Maintenance = maintenance
    NoSynapse = none
    MinWeight = 1
    MaxWeight = 8
    InitialWeight = 4
    ActiveThreshold = 4
    DormancyThreshold = 2
    Budget = 9
    Cap = 6
    Window = 1
    ReceiptWindow = 0
    Cooldown = 1
    PruneThreshold = 1
    SweepLimit = 1
    MaxDecisions = 2
    MaxClock = 2
    Parallel = TRUE
    CoarseClock = FALSE
    MayFail = FALSE
SYMMETRY PeerSymmetry
PROPERTY PruneHolds
CHECK_DEADLOCK FALSE
