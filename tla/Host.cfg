SPECIFICATION FairSpec
CONSTANTS
    p1 = p1
    p2 = p2
    Maintenance = Maintenance
    Peers <- MCPeers
    EventRoom = 1
    PeerRoom = 1
    MaxBatch <- MCBatch
PROPERTIES TasksReturn EmitReturns
CHECK_DEADLOCK FALSE
