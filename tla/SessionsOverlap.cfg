SPECIFICATION FairSpec
CONSTANTS
    a = a
    b = b
    ab = ab
    ba = ba
    aa = aa
    Nodes = {a, b}
    Conns = {ab, ba, aa}
    Carried <- MCCarried
    Dialer <- MCDialer
    Listener <- MCListener
    NoEnd = none
    Timeout = 1
    Sqlite = TRUE
    MayFail = TRUE
INVARIANTS TypeOK Agreement NoGhost DialConnects OneSynapse
PROPERTY NoLingering
CHECK_DEADLOCK FALSE
