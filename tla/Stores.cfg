SPECIFICATION Spec
CONSTANTS
    Signals = {s1}
    Peers = {1, 2}
    SynapseIds = {1, 2}
    Weights = {1, 2}
    Seeds = {k1, k2, k3}
    NoSeed = none
    Times = {0, 1, 2}
    Ttl = 1
    MaxIds = 2
    MaxCharges = 2
    Backends <- MCBackends
    Areas = {"journal", "dedup", "influence", "synapses", "peers", "identity"}
    Versions = {0, 3}
    Lag = 1
    Window = 1
    Limits = {1, 2}
INVARIANTS TypeOK  IdentityPersists
PROPERTIES ConformsToTrait DurabilityHonest
