CONSTANTS
    k1 = k1
    k2 = k2
    x = x
    y = y
    z = z
    Keys = {k1, k2}
    Addrs = {x, y, z}
    Traffic <- NoTraffic
    AddrOf <- SharedAddrs
    ClientTTL = 2
    ChallengeTTL = 1
    MaxTime = 2
    MaxNonces = 2
    MaxRestarts = 0
SPECIFICATION Spec
INVARIANTS AckAlwaysMeansForward
